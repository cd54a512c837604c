----------------------------- MODULE ManualCash -----------------------------
(***************************************************************************)
(* Manual cash transactions and journal entries                            *)
(* (manual_cash_transactions.go), reversals by hand of posted journals     *)
(* (accounting_reports.go), the list of cash transactions                  *)
(* (transactions.go) and the profit and loss report (reports_exports.go).  *)
(*                                                                         *)
(* An entry is drafted by one officer, and edited and approved by others.  *)
(* A draft is saved by one statement; what posts, reverses or removes is   *)
(* one transaction under Server.financialMu: each is one action, and a     *)
(* refused one changes nothing.  The members' transactions are stood for   *)
(* by deposits whose journal is posted at once, see Ledger for the rest.   *)
(* The lines of a journal are a signed sum of each account.                *)
(***************************************************************************)
EXTENDS CashCategories

CONSTANTS
    Drafts,
    Deposits,
    CashAccounts,       \* accounts of cash and banks
    OtherAccounts,
    Posting,            \* the accounts that may be posted to
    Sources,
    Days,               \* 1 .. n
    Amounts,
    NoDraft, NoDeposit, NoReference,
    MaxJournals         \* bound on the journals

Accounts == CashAccounts \cup OtherAccounts
NoTransaction == 0
Uncategorised == 0

Lines == UNION {[accounts -> Int] : accounts \in SUBSET Accounts}

Entries ==
    [type : {"cash", "journal"}, day : Days, reference : (Days \X Nat) \cup {NoReference},
     category : Categories \cup {Uncategorised}, lines : Lines]
SavedDrafts   == [entry : Entries, status : {"pending", "approved"}, transaction : Nat]
Journal ==
    [kind : {"manual", "savings"}, id : Nat \cup Deposits, lines : Lines, day : Days,
     reverses : Nat, source : Sources]
CashTransaction ==
    [id : Nat, day : Days, amount : Int, reference : (Days \X Nat) \cup {NoReference},
     category : Categories \cup {Uncategorised}, source : Sources]
SavedDeposits == [day : Days, amount : Amounts, source : Sources]

ASSUME ManualCashAssumption ==
    /\ IsFiniteSet(Accounts) /\ IsFiniteSet(Deposits)
    /\ Days \subseteq Nat \ {0} /\ 1 \in Days /\ Amounts \subseteq Nat \ {0}
    /\ "bank" \in Sources
    /\ NoDraft \notin SavedDrafts /\ NoDeposit \notin SavedDeposits
    /\ MaxJournals \in Nat

VARIABLES
    drafts,     \* manual_cash_transaction_drafts
    cash,       \* manual_cash_transactions, oldest first
    sequences,  \* manual_cash_transaction_sequences
    journals,   \* financial_journal_entries, oldest first
    deposits,   \* saving_records
    today

cashVars == <<drafts, cash, sequences, journals, deposits, today>>
allCashVars == <<cashVars, categoryVars>>

ManualCashTypeOK ==
    /\ drafts \in [Drafts -> SavedDrafts \cup {NoDraft}]
    /\ deposits \in [Deposits -> SavedDeposits \cup {NoDeposit}]
    /\ journals \in Seq(Journal) /\ cash \in Seq(CashTransaction)
    /\ sequences \in [Days -> Nat] /\ today \in Days

-----------------------------------------------------------------------------
(***************************************************************************)
(* The lines of an entry.                                                  *)
(***************************************************************************)
Sum(f, S) == SumFunctionOnSet(f, S)

CashNet(lines) == Sum(lines, DOMAIN lines \cap CashAccounts)
Negated(lines) == [a \in DOMAIN lines |-> -lines[a]]

\* At least two lines of accounts that may be posted to, debits as much as
\* credits, and if it is no journal entry, cash that moves.
MayPost(entry) ==
    /\ Cardinality(DOMAIN entry.lines) >= 2
    /\ DOMAIN entry.lines \subseteq Posting
    /\ \A a \in DOMAIN entry.lines : entry.lines[a] # 0
    /\ Sum(entry.lines, DOMAIN entry.lines) = 0
    /\ entry.type # "journal" => CashNet(entry.lines) # 0

\* Nothing that moves counts as cash in.
legacyDirection(net) == IF net < 0 THEN "cash_out" ELSE "cash_in"

(***************************************************************************)
(* References: what is typed, or KAS-day-n with the day's next number that *)
(* no cash transaction has.                                                *)
(***************************************************************************)
Used(reference) == \E i \in DOMAIN cash : cash[i].reference = reference

nextManualCashReference(day) ==
    LET free == {n \in sequences[day] .. sequences[day] + Len(cash) : ~Used(<<day, n>>)}
    IN CHOOSE n \in free : \A k \in free : n <= k

Draw(day) ==
    /\ ~Used(<<day, nextManualCashReference(day)>>)
    /\ sequences' = [sequences EXCEPT ![day] = nextManualCashReference(day) + 1]

-----------------------------------------------------------------------------
(***************************************************************************)
(* A draft is saved and edited.  A cash entry is not of a later day.       *)
(***************************************************************************)
validateManualCashTransactionRequest(entry) ==
    /\ Cardinality(DOMAIN entry.lines) >= 2
    /\ entry.type = "cash" => entry.day <= today

Pending(entry) == [entry |-> entry, status |-> "pending", transaction |-> NoTransaction]

recordManualCashTransaction(d, entry) ==
    /\ drafts[d] = NoDraft
    /\ validateManualCashTransactionRequest(entry)
    /\ drafts' = [drafts EXCEPT ![d] = Pending(entry)]
    /\ UNCHANGED <<cash, sequences, journals, deposits, today, categoryVars>>

\* Mutant: what is approved may be edited and comes back.
MayEdit_Approved(d) == drafts[d] # NoDraft

MayEdit(d) == drafts[d] # NoDraft /\ drafts[d].status = "pending"

updateManualCashTransactionDraft(d, entry) ==
    /\ MayEdit(d)
    /\ entry.type = drafts[d].entry.type
    /\ validateManualCashTransactionRequest(entry)
    /\ drafts' = [drafts EXCEPT ![d] = Pending(entry)]
    /\ UNCHANGED <<cash, sequences, journals, deposits, today, categoryVars>>

-----------------------------------------------------------------------------
(***************************************************************************)
(* Posting.                                                                *)
(***************************************************************************)
KeyOf(j) == <<j.kind, j.id>>

BookOf(kind, id, lines, day, reverses, source) ==
    Append(journals, [kind |-> kind, id |-> id, lines |-> lines, day |-> day,
                      reverses |-> reverses, source |-> source])
Book(kind, id, lines, day, reverses) == BookOf(kind, id, lines, day, reverses, "bank")

CashRow(id, day, net, reference, category) ==
    [id |-> id, day |-> day, amount |-> net, reference |-> reference,
     category |-> category, source |-> "bank"]

insertManualCashTransactionTx(entry) ==
    LET net == CashNet(entry.lines)
        id == Len(journals) + 1
        reference == IF entry.reference # NoReference THEN entry.reference
                     ELSE <<entry.day, nextManualCashReference(entry.day)>>
    IN /\ validateManualCashTransactionRequest(entry)
       /\ MayPost(entry)
       /\ entry.category # Uncategorised => MayCharge(categories, entry.category, legacyDirection(net))
       /\ IF entry.reference = NoReference THEN Draw(entry.day) ELSE UNCHANGED sequences
       /\ net # 0 => ~Used(reference)
       /\ cash' = IF net = 0 THEN cash
                  ELSE Append(cash, CashRow(id, entry.day, net, reference, entry.category))
       /\ journals' = Book("manual", id, entry.lines, entry.day, 0)
       /\ charged' = IF net = 0 \/ entry.category = Uncategorised THEN charged
                     ELSE charged \cup {<<entry.category, legacyDirection(net)>>}

approveManualCashTransactionDraft(d) ==
    /\ drafts[d] # NoDraft /\ drafts[d].status = "pending"
    /\ ~Importing /\ Len(journals) < MaxJournals
    /\ insertManualCashTransactionTx(drafts[d].entry)
    /\ drafts' = [drafts EXCEPT
                    ![d].status = "approved",
                    ![d].transaction = IF CashNet(drafts[d].entry.lines) = 0
                                       THEN NoTransaction ELSE Len(journals) + 1]
    /\ UNCHANGED <<deposits, today, categories, changes>>

\* A deposit of a member, posted to the books.
insertSaving(s, day, amount, lines) ==
    /\ deposits[s] = NoDeposit
    /\ \A i \in DOMAIN journals : KeyOf(journals[i]) # <<"savings", s>>
    /\ day <= today /\ Len(journals) < MaxJournals
    /\ deposits' = [deposits EXCEPT ![s] = [day |-> day, amount |-> amount, source |-> "bank"]]
    /\ journals' = Book("savings", s, lines, day, 0)
    /\ UNCHANGED <<drafts, cash, sequences, today, categoryVars>>

Reversed(i) == \E j \in DOMAIN journals : journals[j].reverses = i

\* The books of a removed deposit: its journal is taken back unless it was.
removeSavingByID(s) ==
    /\ deposits[s] # NoDeposit /\ Len(journals) < MaxJournals
    /\ \E i \in DOMAIN journals :
        /\ journals[i].kind = "savings" /\ journals[i].id = s /\ journals[i].reverses = 0
        /\ \A j \in DOMAIN journals :
            (journals[j].kind = "savings" /\ journals[j].id = s /\ journals[j].reverses = 0) => j <= i
        /\ journals' = IF Reversed(i) THEN journals
                       ELSE BookOf("savings", s, Negated(journals[i].lines), today, i, journals[i].source)
    /\ deposits' = [deposits EXCEPT ![s] = NoDeposit]
    /\ UNCHANGED <<drafts, cash, sequences, today, categoryVars>>

\* Cash that a reversal moves is a manual cash transaction of its own.
ReversalRow(id, day, net) ==
    IF net = 0 THEN cash
    ELSE Append(cash, CashRow(id, day, net, <<day, nextManualCashReference(day)>>, Uncategorised))

reverseFinancialJournal(i, day) ==
    /\ i \in DOMAIN journals /\ ~Reversed(i) /\ Len(journals) < MaxJournals
    /\ LET id == Len(journals) + 1
           net == -CashNet(journals[i].lines)
       IN /\ IF net = 0 THEN UNCHANGED sequences ELSE Draw(day)
          /\ cash' = ReversalRow(id, day, net)
          /\ journals' = Book("manual", id, Negated(journals[i].lines), day, i)
    /\ UNCHANGED <<drafts, deposits, today, categoryVars>>

-----------------------------------------------------------------------------
(***************************************************************************)
(* Whether money was in the safe or at the bank, of one transaction or of  *)
(* many: all are changed, or none.                                         *)
(***************************************************************************)
TransactionKeys ==
    {<<"savings", s>> : s \in {t \in Deposits : deposits[t] # NoDeposit}}
        \cup {<<"manual", cash[i].id>> : i \in DOMAIN cash}

\* Mutant: the books keep the old source.
JournalsMoved_Old(keys, source) == journals

JournalsMoved(keys, source) ==
    [i \in DOMAIN journals |-> IF KeyOf(journals[i]) \in keys
                               THEN [journals[i] EXCEPT !.source = source] ELSE journals[i]]

updateCashTransactionSources(keys, source) ==
    /\ keys # {} /\ keys \subseteq TransactionKeys
    /\ cash' = [i \in DOMAIN cash |-> IF <<"manual", cash[i].id>> \in keys
                                      THEN [cash[i] EXCEPT !.source = source] ELSE cash[i]]
    /\ deposits' = [s \in Deposits |-> IF <<"savings", s>> \in keys
                                       THEN [deposits[s] EXCEPT !.source = source] ELSE deposits[s]]
    /\ journals' = JournalsMoved(keys, source)
    /\ UNCHANGED <<drafts, sequences, today, categoryVars>>

nextDay ==
    /\ today + 1 \in Days /\ today' = today + 1
    /\ UNCHANGED <<drafts, cash, sequences, journals, deposits, categoryVars>>

ManualCashInit(seeded) ==
    /\ CategoriesInit(seeded)
    /\ drafts = [d \in Drafts |-> NoDraft] /\ deposits = [s \in Deposits |-> NoDeposit]
    /\ cash = <<>> /\ journals = <<>>
    /\ sequences = [day \in Days |-> 1]
    /\ today = 1

-----------------------------------------------------------------------------
(***************************************************************************)
(* The list of cash transactions, last days first.                         *)
(***************************************************************************)
Movement(key) ==
    LET of == {i \in DOMAIN journals : KeyOf(journals[i]) = key}
    IN Sum([i \in of |-> CashNet(journals[i].lines)], of)

CreatedAt(key) == CHOOSE i \in DOMAIN journals :
    /\ KeyOf(journals[i]) = key
    /\ \A j \in DOMAIN journals : KeyOf(journals[j]) = key => i <= j

DayOf(key) == IF key[1] = "savings" THEN deposits[key[2]].day ELSE journals[CreatedAt(key)].day

Later(p, q) == \/ DayOf(p) > DayOf(q)
               \/ DayOf(p) = DayOf(q) /\ CreatedAt(p) > CreatedAt(q)

\* The n-th row is the one with n - 1 rows before it.
cashTransactionsQuery(from, to) ==
    LET keys == {k \in TransactionKeys : from <= DayOf(k) /\ DayOf(k) <= to}
    IN [n \in 1 .. Cardinality(keys) |->
            CHOOSE k \in keys : Cardinality({before \in keys : Later(before, k)}) = n - 1]

TotalOf(list) == FoldLeft(LAMBDA sum, key : sum + Movement(key), 0, list)

TotalPages(rows, size) == IF rows = 0 THEN 1 ELSE (rows + size - 1) \div size

\* A page asked for beyond the last is the last; the totals are of all rows.
cashTransactionsPageForAdmin(list, asked, size) ==
    LET pages == TotalPages(Len(list), size)
        number == IF asked < 1 THEN 1 ELSE IF asked > pages THEN pages ELSE asked
        first == (number - 1) * size + 1
    IN [rows |-> SubSeq(list, first, IF number * size < Len(list) THEN number * size ELSE Len(list)),
        page |-> number, pages |-> pages, balance |-> TotalOf(list),
        previous |-> number > 1, next |-> number < pages]

(***************************************************************************)
(* The profit and loss report: manual cash in and out, in all and by       *)
(* category, and the deposits.                                             *)
(***************************************************************************)
Within(from, to) == {i \in DOMAIN cash : from <= cash[i].day /\ cash[i].day <= to}
AmountsOf(rows) == Sum([i \in rows |-> cash[i].amount], rows)

manualCashTotals(from, to) ==
    [income |-> AmountsOf({i \in Within(from, to) : cash[i].amount > 0}),
     expense |-> -AmountsOf({i \in Within(from, to) : cash[i].amount < 0})]

manualCashCategoryBreakdown(from, to) ==
    [k \in Categories |->
        LET of == {i \in Within(from, to) : cash[i].category = k}
        IN [income |-> AmountsOf({i \in of : cash[i].amount > 0}),
            expense |-> -AmountsOf({i \in of : cash[i].amount < 0})]]

EarliestActivity(to) ==
    LET days == {cash[i].day : i \in DOMAIN cash}
                    \cup {deposits[s].day : s \in {t \in Deposits : deposits[t] # NoDeposit}}
    IN IF days = {} THEN to ELSE CHOOSE day \in days : \A other \in days : day <= other

\* Of all days up to today, if none are given.
profitLossReport ==
    LET from == EarliestActivity(today)
        saved == {s \in Deposits : deposits[s] # NoDeposit /\ deposits[s].day \in from .. today}
        manual == manualCashTotals(from, today)
        byCategory == manualCashCategoryBreakdown(from, today)
    IN [income |-> manual.income + Sum([s \in saved |-> deposits[s].amount], saved),
        cost |-> manual.expense,
        manual |-> manual,
        categorised |-> [income |-> Sum([k \in Categories |-> byCategory[k].income], Categories),
                         expense |-> Sum([k \in Categories |-> byCategory[k].expense], Categories)]]

-----------------------------------------------------------------------------
(***************************************************************************)
(* Anyone may do anything at any time.                                     *)
(***************************************************************************)
CashNext ==
    \/ \E d \in Drafts :
        \/ \E entry \in Entries :
            recordManualCashTransaction(d, entry) \/ updateManualCashTransactionDraft(d, entry)
        \/ approveManualCashTransactionDraft(d)
    \/ \E s \in Deposits :
        \/ \E day \in Days, amount \in Amounts, lines \in Lines : insertSaving(s, day, amount, lines)
        \/ removeSavingByID(s)
    \/ \E i \in DOMAIN journals, day \in Days : reverseFinancialJournal(i, day)
    \/ \E keys \in SUBSET TransactionKeys, source \in Sources : updateCashTransactionSources(keys, source)
    \/ nextDay
    \/ CategoriesNext /\ UNCHANGED cashVars

CashInit == \E seeded \in Forests : ManualCashInit(seeded)

CashSpec == CashInit /\ [][CashNext]_allCashVars

-----------------------------------------------------------------------------
\* A draft is booked once, as it was when it was approved, however it was
\* edited before by others and whoever tries to edit or approve it afterwards
\* (manual_cash_transactions.go:354).
DraftsPostOnce ==
    LET approved == {d \in Drafts : drafts[d] # NoDraft /\ drafts[d].status = "approved"}
        booked == {i \in DOMAIN journals : journals[i].kind = "manual" /\ journals[i].reverses = 0}
    IN /\ Cardinality(approved) = Cardinality(booked)
       /\ \A d \in approved : \E i \in booked :
            /\ journals[i].lines = drafts[d].entry.lines /\ journals[i].day = drafts[d].entry.day
            /\ drafts[d].transaction \in {i, NoTransaction}

\* The amount of a manual transaction is what its journal moves, and each entry
\* or reversal by hand that moves cash has one transaction.
RowsFollowJournals ==
    /\ \A i \in DOMAIN cash : cash[i].amount = CashNet(journals[cash[i].id].lines)
    /\ \A j \in DOMAIN journals :
        (journals[j].kind = "manual" /\ CashNet(journals[j].lines) # 0)
            => Cardinality({i \in DOMAIN cash : cash[i].id = j}) = 1

\* Where the money of a transaction was is what all its journals say.
SourcesAgree ==
    \A key \in TransactionKeys : \A j \in DOMAIN journals :
        KeyOf(journals[j]) = key =>
            journals[j].source = (IF key[1] = "savings" THEN deposits[key[2]].source
                                  ELSE (CHOOSE r \in Range(cash) : r.id = key[2]).source)

\* Page after page the list is shown whole and in its order, and each page has
\* the balance of the whole.
PagesShowAll ==
    LET list == cashTransactionsQuery(1, today)
    IN \A size \in 1 .. 2 :
        LET Page(n) == cashTransactionsPageForAdmin(list, n, size)
            pages == Page(1).pages
        IN /\ FlattenSeq([n \in 1 .. pages |-> Page(n).rows]) = list
           /\ \A n \in 1 .. pages + 1 :
                Page(n).balance = TotalOf(list) /\ (Page(n).next <=> n < pages)

\* What the report calls manual income less what it calls cost is what the
\* journals of manual transactions have moved up to today; those without a
\* category are in it.
ReportFollowsJournals ==
    LET report == profitLossReport
        manual == {j \in DOMAIN journals : journals[j].kind = "manual" /\ journals[j].day <= today}
    IN /\ report.manual.income - report.cost = Sum([j \in manual |-> CashNet(journals[j].lines)], manual)
       /\ report.categorised.income <= report.manual.income

\* The list of cash transactions, its pages and the report agree with the books,
\* however entries were reversed and sources changed (accounting_reports.go:608,
\* manual_cash_transactions.go:553, transactions.go:299, reports_exports.go:709).
CashFollowsBooks ==
    /\ RowsFollowJournals
    /\ SourcesAgree
    /\ PagesShowAll
    /\ ReportFollowsJournals
=============================================================================
