------------------------------- MODULE Ledger -------------------------------
(***************************************************************************)
(* The general ledger: the journal of every transaction that moves money   *)
(* (createFinancialJournalTx of internal/app/accounting.go), the rules     *)
(* that name the accounts of its lines (accounting_mappings.go), the one-  *)
(* time backfill of older transactions (accounting_backfill.go), and the   *)
(* corrections, removals and reversals that undo a journal                 *)
(* (saving_corrections.go, repayment_corrections.go,                       *)
(* accounting_reports.go).                                                 *)
(*                                                                         *)
(* Every operation is one transaction under Server.financialMu, so each is *)
(* one action; a refused one changes nothing.  A line is a component with  *)
(* an account and a signed amount: a debit is positive, a credit negative. *)
(* A transaction has one detail, its saving category or its loan type.     *)
(* References, descriptions, audit rows and an account chosen for the      *)
(* cash line are left out.                                                 *)
(***************************************************************************)
EXTENDS Integers, Sequences, FiniteSets, FiniteSetsExt, SequencesExt

CONSTANTS
    Transactions,
    NoTransaction,      \* what the journal of a reversal by hand belongs to
    TypeOf,             \* the type of each transaction
    DetailOf,           \* its category or loan type
    Accounts,
    NoAccount,          \* the empty account code of an unmapped line
    FeeIncome,          \* 40201, the account of suspension fees
    NoDetail,           \* the empty category and loan type of a general rule
    Rules,              \* rows of accounting_mappings
    RuleKeys,           \* the keys they are given
    Amounts,
    Fee,                \* administration fee in the obligation of a loan
    Days

ASSUME LedgerAssumption ==
    /\ IsFiniteSet(Transactions)
    /\ TypeOf \in [Transactions -> {"savings", "withdrawal", "loan", "repayment",
                                    "loan_suspension_fee"}]
    /\ NoTransaction \notin Transactions
    /\ NoAccount \notin Accounts
    /\ FeeIncome \in Accounts
    /\ Amounts \subseteq Nat \ {0}
    /\ Fee \in Nat
    /\ Days \subseteq Nat
    /\ \A k \in RuleKeys : k.from \in Nat /\ k.to \in Nat

NoRecord == [amount |-> 0, day |-> 0, account |-> NoAccount]
NoKey == [type |-> "none", component |-> "none", detail |-> NoDetail, from |-> 0, to |-> 0]
NoRule == [key |-> NoKey, code |-> NoAccount, active |-> FALSE]

VARIABLES
    records,    \* the rows of the transactions: amount, day, chosen account
    journals,   \* financial_journal_entries, oldest first, with their lines
    rules,      \* accounting_mappings
    posting,    \* accounts that may be posted to
    backfilled  \* accounting_backfill_runs has completed

ledgerVars == <<records, journals, rules, posting, backfilled>>

Recorded(t) == records[t] # NoRecord

LedgerTypeOK ==
    /\ \A t \in Transactions : records[t].amount \in Amounts \cup {0}
    /\ \A i \in DOMAIN journals :
        /\ journals[i].of \in Transactions \cup {NoTransaction}
        /\ journals[i].status \in {"pending_mapping", "posted", "deleted"}
        /\ journals[i].reverses \in 0 .. i - 1
        /\ \A c \in DOMAIN journals[i].lines :
            journals[i].lines[c].code \in Accounts \cup {NoAccount}
    /\ posting \subseteq Accounts
    /\ backfilled \in BOOLEAN

-----------------------------------------------------------------------------
(***************************************************************************)
(* The lines of a journal.                                                 *)
(***************************************************************************)
Line(amount) == [code |-> NoAccount, amount |-> amount]

\* What a transaction of its type moves.
Components(t, amount) ==
    CASE TypeOf[t] = "savings" ->
            [cash_bank |-> Line(amount), savings_liability |-> Line(-amount)]
      [] TypeOf[t] = "withdrawal" ->
            [savings_liability |-> Line(amount), cash_bank |-> Line(-amount)]
      [] TypeOf[t] = "repayment" ->
            [cash_bank |-> Line(amount), loan_receivable |-> Line(-amount)]
      [] TypeOf[t] = "loan_suspension_fee" ->
            [cash_bank |-> Line(amount), fee_income |-> Line(-amount)]
      [] OTHER ->
            [loan_receivable |-> Line(amount + Fee), cash_bank |-> Line(-amount),
             admin_fee_income |-> Line(-Fee)]

\* What the backfill books for it: of a loan only the principal.
HistoricalComponents(t, amount) ==
    IF TypeOf[t] = "loan"
    THEN [loan_receivable |-> Line(amount), cash_bank |-> Line(-amount)]
    ELSE Components(t, amount)

\* The line whose account the officer may choose with the transaction.
Counterpart(t) ==
    CASE TypeOf[t] \in {"savings", "withdrawal"} -> "savings_liability"
      [] OTHER -> "loan_receivable"

Total(lines) == MapThenSumSet(LAMBDA c : lines[c].amount, DOMAIN lines)
Complete(lines) == \A c \in DOMAIN lines : lines[c].code # NoAccount

(***************************************************************************)
(* The rule for a line: the most specific active one whose dates include   *)
(* the day, of these the one that starts last.                             *)
(***************************************************************************)
Applies(rule, type, component, detail, day) ==
    /\ rule.active
    /\ rule.key.type = type /\ rule.key.component = component
    /\ rule.key.detail \in {detail, NoDetail}
    /\ rule.key.from <= day /\ day <= rule.key.to

Precedes(r, q, detail) ==
    IF (r.key.detail = detail) = (q.key.detail = detail)
    THEN r.key.from >= q.key.from
    ELSE r.key.detail = detail

\* A voucher loan is booked like a Paylater one.
LookupDetail(detail) == IF detail = "voucher" THEN "goods_purchase_paylater" ELSE detail

accountingMappingCOACodeTx(rs, type, component, ofDetail, day) ==
    LET detail == LookupDetail(ofDetail)
        applying == {rs[r] : r \in {q \in Rules : Applies(rs[q], type, component, detail, day)}}
    IN IF applying = {} THEN NoAccount
       ELSE (CHOOSE r \in applying : \A q \in applying : Precedes(r, q, detail)).code

\* A suspension fee is received where repayments are.
LookupType(t) == IF TypeOf[t] = "loan_suspension_fee" THEN "repayment" ELSE TypeOf[t]

\* The account of line c of t: chosen, agreed or found.
CodeOf(t, rec, c, rs) ==
    IF c = Counterpart(t) /\ rec.account # NoAccount THEN rec.account
    ELSE IF c = "fee_income" THEN FeeIncome
    ELSE accountingMappingCOACodeTx(rs, LookupType(t), c, DetailOf[t], rec.day)

Coded(t, rec, lines, rs) ==
    [c \in DOMAIN lines |-> [lines[c] EXCEPT !.code = CodeOf(t, rec, c, rs)]]

Codes(lines) == {lines[c].code : c \in DOMAIN lines} \ {NoAccount}

-----------------------------------------------------------------------------
(***************************************************************************)
(* Journals.                                                               *)
(***************************************************************************)
\* The rows of t: those of its own type, and not deleted.
RowsOf(js, t) == {i \in DOMAIN js : js[i].of = t /\ js[i].status # "deleted"}
Reversed(js, i) == \E j \in DOMAIN js : js[j].reverses = i
\* Rows that book t itself, and those of them that nothing reverses.
Bookings(js, t) == {i \in RowsOf(js, t) : js[i].reverses = 0}
Standing(js, t) == {i \in Bookings(js, t) : ~Reversed(js, i)}

Journal(t, type, day, lines, status, reverses) ==
    [of |-> t, type |-> type, day |-> day, lines |-> lines, status |-> status,
     reverses |-> reverses]

Posted(js, t) == RowsOf(js, t) # {} /\ js[Min(RowsOf(js, t))].status = "posted"

\* The journal of t is booked: the oldest row is kept when it is posted, and
\* written anew when it waits for an account.
Book(js, t, rec, lines, rs) ==
    LET coded == Coded(t, rec, lines, rs)
        status == IF Complete(coded) THEN "posted" ELSE "pending_mapping"
        entry == Journal(t, TypeOf[t], rec.day, coded, status, 0)
    IN IF RowsOf(js, t) = {} THEN Append(js, entry)
       ELSE IF Posted(js, t) THEN js
       ELSE [js EXCEPT ![Min(RowsOf(js, t))] = entry]

\* Every account of the lines may be posted to.
MayBook(js, t, rec, lines, rs) ==
    /\ Total(lines) = 0
    /\ ~Posted(js, t) => Codes(Coded(t, rec, lines, rs)) \subseteq posting

Negated(lines) == [c \in DOMAIN lines |-> [lines[c] EXCEPT !.amount = -@]]

\* A journal that takes back row i.  Its day is left out: nothing asks for it.
Reversal(js, i) ==
    Journal(js[i].of, js[i].type, 0, Negated(js[i].lines), "posted", i)

\* The lines of row i with another amount: the pending or copied journal of
\* a deposit or repayment, whose lines are all of one amount.
Resized(lines, amount) ==
    [c \in DOMAIN lines |->
        [lines[c] EXCEPT !.amount = IF @ > 0 THEN amount ELSE -amount]]

-----------------------------------------------------------------------------
(***************************************************************************)
(* Waiting journals are given accounts.  A journal is posted in a pass     *)
(* that finds no line without one: one that had such lines when the pass   *)
(* began waits for the next.                                               *)
(***************************************************************************)
Waiting(js) == {i \in DOMAIN js : js[i].status = "pending_mapping"}
Unmapped(js, i) == {c \in DOMAIN js[i].lines : js[i].lines[c].code = NoAccount}
Found(js, i, c, rs) ==
    accountingMappingCOACodeTx(rs, js[i].type, c, DetailOf[js[i].of], js[i].day)

MayResolve(js, rs) ==
    \A i \in Waiting(js) : \A c \in Unmapped(js, i) :
        Found(js, i, c, rs) \in posting \cup {NoAccount}

\* Mutant: a completed journal is never posted.
resolvePendingFinancialJournalsTx_Stuck(js, rs) ==
    [i \in DOMAIN js |->
        IF i \notin Waiting(js) THEN js[i]
        ELSE [js[i] EXCEPT !.lines = [c \in DOMAIN @ |->
                IF c \in Unmapped(js, i) THEN [@[c] EXCEPT !.code = Found(js, i, c, rs)]
                ELSE @[c]]]]

resolvePendingFinancialJournalsTx(js, rs) ==
    [i \in DOMAIN js |->
        IF i \notin Waiting(js) THEN js[i]
        ELSE IF Unmapped(js, i) = {} THEN [js[i] EXCEPT !.status = "posted"]
        ELSE [js[i] EXCEPT !.lines = [c \in DOMAIN @ |->
                IF c \in Unmapped(js, i) THEN [@[c] EXCEPT !.code = Found(js, i, c, rs)]
                ELSE @[c]]]]

(***************************************************************************)
(* The backfill books the transactions that are recorded, once.            *)
(***************************************************************************)
Historical == {t \in Transactions : Recorded(t) /\ TypeOf[t] # "loan_suspension_fee"}

MayBackfill(js, rs) ==
    \/ backfilled
    \/ \A t \in Historical :
        MayBook(js, t, records[t], HistoricalComponents(t, records[t].amount), rs)

\* Mutant: a journal that waits is left alone and a second one is booked.
backfillFinancialJournalsTx_Twice(js, rs) ==
    FoldLeft(LAMBDA all, t :
                IF Posted(js, t) THEN all
                ELSE all \o Book(<< >>, t, records[t],
                                 HistoricalComponents(t, records[t].amount), rs),
             js, SetToSeq(Historical))

backfillFinancialJournalsTx(js, rs) ==
    LET order == SetToSeq(Historical)
        booked[n \in 0 .. Len(order)] ==
            IF n = 0 THEN js
            ELSE LET t == order[n] IN
                 Book(booked[n - 1], t, records[t], HistoricalComponents(t, records[t].amount), rs)
    IN  booked[Len(order)]

backfillFinancialJournalsIfNeededTx(js, rs) ==
    IF backfilled THEN js ELSE backfillFinancialJournalsTx(js, rs)

-----------------------------------------------------------------------------
(***************************************************************************)
(* The operations.                                                         *)
(***************************************************************************)
\* A transaction is recorded and booked.
record(t, rec) ==
    /\ ~Recorded(t) /\ \A i \in DOMAIN journals : journals[i].of # t
    /\ MayBook(journals, t, rec, Components(t, rec.amount), rules)
    /\ TypeOf[t] = "loan_suspension_fee" =>
           CodeOf(t, rec, "cash_bank", rules) \notin {NoAccount, FeeIncome}
    /\ records' = [records EXCEPT ![t] = rec]
    /\ journals' = Book(journals, t, rec, Components(t, rec.amount), rules)
    /\ UNCHANGED <<rules, posting, backfilled>>

\* Mutant: only the first day of the range is compared.
Overlap_First(k, l) ==
    /\ <<k.type, k.component, k.detail>> = <<l.type, l.component, l.detail>>
    /\ l.from <= k.from /\ k.from <= l.to

\* Two keys of one type, component and detail whose dates overlap.
Overlap(k, l) ==
    /\ <<k.type, k.component, k.detail>> = <<l.type, l.component, l.detail>>
    /\ l.from <= k.to /\ k.from <= l.to

\* A rule is saved: a new one with the key of an old one replaces it.
saveAccountingMapping(r, key, code, active) ==
    LET rs == [rules EXCEPT ![r] = [key |-> key, code |-> code, active |-> active]]
        booked == backfillFinancialJournalsIfNeededTx(journals, rs)
    IN /\ code \in posting
       /\ \A q \in Rules \ {r} : rules[q].key # key
       /\ active => \A q \in Rules \ {r} : rules[q].active => ~Overlap(key, rules[q].key)
       /\ MayBackfill(journals, rs) /\ MayResolve(booked, rs)
       /\ rules' = rs
       /\ journals' = resolvePendingFinancialJournalsTx(booked, rs)
       /\ backfilled' = TRUE
       /\ UNCHANGED <<records, posting>>

\* A page that shows journals or rules is opened.
ensureFinancialJournalsBackfilled ==
    LET booked == backfillFinancialJournalsIfNeededTx(journals, rules)
    IN /\ MayBackfill(journals, rules) /\ MayResolve(booked, rules)
       /\ journals' = resolvePendingFinancialJournalsTx(booked, rules)
       /\ backfilled' = TRUE
       /\ UNCHANGED <<records, rules, posting>>

\* A posted journal is taken back and its lines booked with the new amount.
Corrected(js, i, rec) ==
    js \o <<Reversal(js, i),
            Journal(js[i].of, js[i].type, rec.day, Resized(js[i].lines, rec.amount), "posted", 0)>>

\* The standing journal of a deposit or repayment follows its correction.
syncCorrectionJournalTx(t, rec) ==
    LET standing == Standing(journals, t)
        i == Max(standing)
    IN \/ /\ standing = {} /\ RowsOf(journals, t) = {}
          /\ MayBook(journals, t, rec, Components(t, rec.amount), rules)
          /\ journals' = Book(journals, t, rec, Components(t, rec.amount), rules)
       \/ /\ standing # {} /\ journals[i].status = "pending_mapping"
          /\ journals' = [journals EXCEPT ![i].day = rec.day,
                                          ![i].lines = Resized(@, rec.amount)]
       \/ /\ standing # {} /\ journals[i].status = "posted"
          /\ journals' = Corrected(journals, i, rec)

correct(t, amount, day) ==
    LET rec == [records[t] EXCEPT !.amount = amount, !.day = day]
    IN /\ Recorded(t) /\ rec # records[t]
       /\ syncCorrectionJournalTx(t, rec)
       /\ records' = [records EXCEPT ![t] = rec]
       /\ UNCHANGED <<rules, posting, backfilled>>

correctSavingByID(t, amount, day) ==
    TypeOf[t] = "savings" /\ correct(t, amount, day)

correctRepaymentByID(t, amount, day) ==
    TypeOf[t] = "repayment" /\ correct(t, amount, day)

\* Row i goes: deleted while it waits, taken back when it is posted.
TakenBack(js, i) ==
    IF js[i].status = "pending_mapping" THEN [js EXCEPT ![i].status = "deleted"]
    ELSE Append(js, Reversal(js, i))

\* The journals when a deposit is removed: the last row that booked it goes,
\* which a deposit recorded before the ledger is given first.  One that was
\* reversed by hand is left as it is.
prepareSavingJournalForRemovalTx(t, booked) ==
    LET i == Max(Bookings(booked, t))
    IN IF Reversed(booked, i) THEN booked ELSE TakenBack(booked, i)

removeSavingByID(t) ==
    LET lines == Components(t, records[t].amount)
        none == RowsOf(journals, t) = {}
        booked == IF none THEN Book(journals, t, records[t], lines, rules) ELSE journals
    IN /\ TypeOf[t] = "savings" /\ Recorded(t)
       /\ none => MayBook(journals, t, records[t], lines, rules)
       /\ Bookings(booked, t) # {}
       /\ journals' = prepareSavingJournalForRemovalTx(t, booked)
       /\ records' = [records EXCEPT ![t] = NoRecord]
       /\ UNCHANGED <<rules, posting, backfilled>>

\* A removed repayment needs a standing journal, or none at all.
removeRepaymentByID(t) ==
    LET standing == Standing(journals, t)
    IN /\ TypeOf[t] = "repayment" /\ Recorded(t)
       /\ \/ RowsOf(journals, t) = {} /\ journals' = journals
          \/ standing # {} /\ journals' = TakenBack(journals, Max(standing))
       /\ records' = [records EXCEPT ![t] = NoRecord]
       /\ UNCHANGED <<rules, posting, backfilled>>

MayReverse(i) ==
    /\ journals[i].status = "posted"
    /\ journals[i].type # "loan_suspension_fee"
    /\ ~Reversed(journals, i)

\* A journal is reversed by hand, as a transaction of its own.
reverseFinancialJournal(i) ==
    /\ MayReverse(i)
    /\ journals' = Append(journals, [Reversal(journals, i) EXCEPT
                                        !.of = NoTransaction, !.type = "manual"])
    /\ UNCHANGED <<records, rules, posting, backfilled>>

\* An account is switched off, if no active rule names it, or on again.
switchAccount(a) ==
    /\ \/ a \notin posting /\ posting' = posting \cup {a}
       \/ /\ a \in posting /\ posting' = posting \ {a}
          /\ \A r \in Rules : rules[r].active => rules[r].code # a
    /\ UNCHANGED <<records, journals, rules, backfilled>>

-----------------------------------------------------------------------------
NewRecords == [amount : Amounts, day : Days, account : Accounts \cup {NoAccount}]

\* The ledger before its first use: transactions without journals, no rules.
LedgerInit(before) ==
    /\ \E old \in [before -> NewRecords \cup {NoRecord}] :
        records = [t \in Transactions |-> IF t \in before THEN old[t] ELSE NoRecord]
    /\ journals = << >>
    /\ rules = [r \in Rules |-> NoRule]
    /\ posting = Accounts
    /\ backfilled = FALSE

LedgerNext ==
    \/ \E t \in Transactions, rec \in NewRecords : record(t, rec)
    \/ \E r \in Rules, key \in RuleKeys, code \in Accounts, active \in BOOLEAN :
          saveAccountingMapping(r, key, code, active)
    \/ ensureFinancialJournalsBackfilled
    \/ \E t \in Transactions, amount \in Amounts, day \in Days :
          correctSavingByID(t, amount, day) \/ correctRepaymentByID(t, amount, day)
    \/ \E t \in Transactions : removeSavingByID(t) \/ removeRepaymentByID(t)
    \/ \E i \in DOMAIN journals : reverseFinancialJournal(i)
    \/ \E a \in Accounts : switchAccount(a)

LedgerSpec == LedgerInit(Transactions) /\ [][LedgerNext]_ledgerVars

-----------------------------------------------------------------------------
\* The ledger says of a deposit or repayment what its row says: at most one
\* of its journals stands, with the amount of the row, and none stands when
\* the row is removed.  Corrections after reversals by hand, removals of older
\* rows and the backfill may not leave two (accounting.go:522,
\* saving_corrections.go:339, repayment_corrections.go:557).
JournalsFollowRecords ==
    \A t \in Transactions :
        /\ Cardinality(Standing(journals, t)) <= 1
        /\ \A i \in Standing(journals, t) :
            /\ Recorded(t)
            /\ \A c \in DOMAIN journals[i].lines :
                LET same == records[t].amount IN
                TypeOf[t] # "loan" => journals[i].lines[c].amount \in {same, -same}

\* On every day one rule at most of each detail applies to a line, however
\* rules were added, moved to other keys, switched off and on: on the first days
\* of rules, which decides the others (accounting_mappings.go:164, i18n.go:303).
RulesDisjoint ==
    \A q, r \in Rules, k \in RuleKeys, day \in {l.from : l \in RuleKeys} :
        (/\ Applies(rules[q], k.type, k.component, k.detail, day)
         /\ Applies(rules[r], k.type, k.component, k.detail, day)
         /\ rules[q].key.detail = rules[r].key.detail) => q = r
=============================================================================
