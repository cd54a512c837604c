------------------------------- MODULE Loans -------------------------------
(***************************************************************************)
(* Loans that were paid out and what is paid back: the tables loans,       *)
(* loan_installments, loan_repayments and loan_suspensions, and the        *)
(* handlers of internal/app/repayments.go, repayment_corrections.go,       *)
(* tagihan_suspension.go and loans.go that write them.                     *)
(*                                                                         *)
(* Each handler is one transaction under Server.financialMu that locks the *)
(* loan's row.  The journal it posts in the same transaction is the        *)
(* subject of module Ledger; the audit rows are left out.                  *)
(***************************************************************************)
EXTENDS Savings, LoanSchedule

CONSTANTS
    LoanIds, RepaymentIds,
    RepaymentAmounts,    \* what members pay, or officers correct it to
    StartDates,          \* dates an officer may correct the start of a loan to
    StatementMonths      \* months for which a loan may be suspended

\* Identifiers are strings of 32 hexadecimal digits, and a table holds finitely many.
ASSUME LoansAssumption ==
    /\ IsFiniteSet(LoanIds) /\ IsFiniteSet(RepaymentIds)
    /\ RepaymentAmounts \subseteq Nat \ {0}
    /\ StartDates \subseteq Nat /\ StatementMonths \subseteq Nat

VARIABLES
    loans,          \* loans, each with its loan_installments
    repayments,     \* loan_repayments, the deleted rows included
    suspensions     \* loan_suspensions: its unique keys (loan_id, statement_month)

loansVars == <<loans, repayments, suspensions>>

LoanStatuses == {"none", "active", "paid", "adjustment_due"}

EmptyDate == 0       \* next_due_date = ''
NullDate  == -1      \* NULL, which the column does not admit

\* asked is the day the loan request was created, start the day of the loan.
LoanRows == [status : LoanStatuses, member : Members, type : LoanTypes,
             asked : Nat, start : Nat, principal : Nat, monthlyFee : Nat \cup {NoFee},
             fee : Nat, obligation : Nat, remaining : Nat, nextDue : Nat, finalDue : Nat,
             installments : Seq(Installments)]

NoLoan == [status |-> "none"]

RepaymentRows == [status : {"recorded", "removed"}, loan : LoanIds, amount : Nat]

NoRepayment == [status |-> "none"]

LoansTypeOK ==
    /\ loans \in [LoanIds -> LoanRows \cup {NoLoan}]
    /\ repayments \in [RepaymentIds -> RepaymentRows \cup {NoRepayment}]
    /\ suspensions \subseteq LoanIds \X StatementMonths

-----------------------------------------------------------------------------
Collectable(row) == row.status \in {"active", "adjustment_due"}

RecordedFor(rows, l) == {r \in RepaymentIds : rows[r].status = "recorded" /\ rows[r].loan = l}

\* SELECT amount FROM loan_repayments: the order of the dates decides nothing,
\* because allocateRepaymentsOldestFirst depends on the total only.
AmountsFor(rows, l) ==
    LET ids == SetToSeq(RecordedFor(rows, l)) IN
    [k \in DOMAIN ids |-> rows[ids[k]].amount]

SumSeq(amounts) == SumFunction(amounts)

\* The due date of the first instalment that is not paid in full.
FirstUnpaidDue(items, otherwise) ==
    IF \A n \in DOMAIN items : Unpaid(items[n]) = 0 THEN otherwise
    ELSE items[CHOOSE n \in DOMAIN items :
                  /\ Unpaid(items[n]) > 0
                  /\ \A k \in 1 .. n - 1 : Unpaid(items[k]) = 0].due

\* The row of a loan that starts on a day with given terms.
NewLoan(m, type, asked, start, terms) ==
    [status |-> "active", member |-> m, type |-> type, asked |-> asked, start |-> start,
     principal |-> terms.principal, monthlyFee |-> terms.monthlyFee, fee |-> terms.fee,
     obligation |-> terms.obligation, remaining |-> terms.obligation,
     nextDue  |-> terms.installments[1].due,
     finalDue |-> terms.installments[terms.duration].due,
     installments |-> terms.installments]

\* A loan after one more repayment.  A balance of zero is what makes it paid.
Repaid(row, amount) ==
    LET items == PayOldestFirst(row.installments, amount) IN
    [row EXCEPT
        !.installments = items,
        !.remaining = @ - amount,
        !.status  = IF row.remaining = amount THEN "paid" ELSE @,
        !.nextDue = IF row.remaining = amount THEN EmptyDate ELSE FirstUnpaidDue(items, EmptyDate)]

MayRepay(row, amount) == Collectable(row) /\ amount <= row.remaining

RefreshedStatus(row, remaining) ==
    IF remaining = 0 THEN "paid"
    ELSE IF row.status = "adjustment_due" THEN "adjustment_due" ELSE "active"

\* Mutant: the instalments keep what they received, and receive it again.
Refreshed_Twice(row, amounts) ==
    [row EXCEPT !.installments = PayOldestFirst(@, SumSeq(amounts)),
                !.remaining = row.obligation - SumSeq(amounts),
                !.status = RefreshedStatus(row, row.obligation - SumSeq(amounts))]

\* A loan after all its repayments again.
Refreshed(row, amounts) ==
    LET remaining == row.obligation - SumSeq(amounts)
        items     == allocateRepaymentsOldestFirst(row.installments, amounts)
    IN  [row EXCEPT
            !.installments = items,
            !.remaining = remaining,
            !.status  = RefreshedStatus(row, remaining),
            !.nextDue = IF remaining = 0 THEN NullDate ELSE FirstUnpaidDue(items, NullDate)]

\* A loan that was paid may become active again only when no other loan of the
\* member is.
MayReopen(l, status) ==
    status = "active" /\ loans[l].status = "paid" =>
        \A other \in LoanIds \ {l} :
            ~(loans[other].status = "active" /\ loans[other].member = loans[l].member)

\* The repayments of a loan have become rows: replay them.  The UPDATE of a loan
\* that is now paid stores NULL in next_due_date, which is NOT NULL: it fails.
refreshLoanRepaymentScheduleTx(l, rows) ==
    LET amounts   == AmountsFor(rows, l)
        refreshed == Refreshed(loans[l], amounts)
    IN  /\ SumSeq(amounts) <= loans[l].obligation
        /\ MayReopen(l, refreshed.status)
        /\ refreshed.nextDue # NullDate
        /\ loans' = [loans EXCEPT ![l] = refreshed]

-----------------------------------------------------------------------------
LoansInit ==
    /\ loans = [l \in LoanIds |-> NoLoan]
    /\ repayments = [r \in RepaymentIds |-> NoRepayment]
    /\ suspensions = {}

\* INSERT INTO loans and loan_installments, part of a disbursement.
insertLoan(l, m, type, asked, start, terms) ==
    /\ loans[l].status = "none"
    /\ ~Refused(terms)
    /\ loans' = [loans EXCEPT ![l] = NewLoan(m, type, asked, start, terms)]

\* The treasurer records a repayment; with a reason, a super admin adds one
\* that was forgotten.
recordRepaymentTx(l, r, amount) ==
    /\ repayments[r].status = "none"
    /\ loans[l].status # "none" /\ MayRepay(loans[l], amount)
    /\ loans' = [loans EXCEPT ![l] = Repaid(@, amount)]
    /\ repayments' = [repayments EXCEPT ![r] =
           [status |-> "recorded", loan |-> l, amount |-> amount]]
    /\ UNCHANGED <<savingsVars, suspensions>>

\* A super admin corrects what was recorded: the amount, or only its date,
\* reference or note.
correctRepaymentByID(r, amount) ==
    /\ repayments[r].status = "recorded"
    /\ repayments' = [repayments EXCEPT ![r].amount = amount]
    /\ refreshLoanRepaymentScheduleTx(repayments[r].loan, repayments')
    /\ UNCHANGED <<savingsVars, suspensions>>

removeRepaymentByID(r) ==
    /\ repayments[r].status = "recorded"
    /\ repayments' = [repayments EXCEPT ![r].status = "removed"]
    /\ refreshLoanRepaymentScheduleTx(repayments[r].loan, repayments')
    /\ UNCHANGED <<savingsVars, suspensions>>

\* The fee of a month, for a loan without a monthly one rounded half up.
suspensionFee(row) ==
    LET duration == Len(row.installments) IN
    IF row.monthlyFee # NoFee THEN row.monthlyFee
    ELSE row.fee \div duration +
         IF row.fee % duration >= (duration + 1) \div 2 THEN 1 ELSE 0

\* Mutant: what was already paid on the instalment or the later ones is not looked at.
MaySuspend_Begun(row, month) ==
    \E target \in DOMAIN row.installments :
        /\ MonthOf(row.installments[target].due) = month
        /\ \A n \in 1 .. target - 1 : Unpaid(row.installments[n]) = 0

\* One instalment is due in the month, those before it are paid, and nothing
\* was paid on it or on those after it.
MaySuspend(row, month) ==
    \E target \in DOMAIN row.installments :
        /\ {n \in DOMAIN row.installments : MonthOf(row.installments[n].due) = month} = {target}
        /\ \A n \in DOMAIN row.installments :
               IF n < target THEN Unpaid(row.installments[n]) = 0
                             ELSE row.installments[n].paid = 0

\* The instalment of the month and all that follow move by a month.
Suspended(row, month) ==
    LET target == CHOOSE n \in DOMAIN row.installments :
                      MonthOf(row.installments[n].due) = month
        items  == [n \in DOMAIN row.installments |->
            IF n < target THEN row.installments[n]
            ELSE [row.installments[n] EXCEPT !.due = nextSuspensionDate(@)]]
    IN [row EXCEPT !.installments = items,
                   !.finalDue = nextSuspensionDate(@),
                   !.nextDue  = FirstUnpaidDue(items, EmptyDate)]

\* The loan and its member allow a month to be skipped for the monthly fee.
Suspendable(l, month) ==
    /\ loans[l].status = "active" /\ loans[l].remaining > 0 /\ loans[l].type = "regular"
    /\ suspensionFee(loans[l]) > 0
    /\ memberStatus[loans[l].member] = "active"
    /\ MaySuspend(loans[l], month)

\* A month in which nothing is collected on a regular loan, for its monthly fee.
\* The same suspension again changes nothing.
applyLoanSuspensionTx(l, month) ==
    /\ <<l, month>> \notin suspensions
    /\ Suspendable(l, month)
    /\ loans' = [loans EXCEPT ![l] = Suspended(@, month)]
    /\ suspensions' = suspensions \cup {<<l, month>>}
    /\ UNCHANGED <<savingsVars, repayments>>

MayRestart(l, start) ==
    /\ Collectable(loans[l]) /\ start >= loans[l].asked
    /\ \A month \in StatementMonths : <<l, month>> \notin suspensions
    /\ RecordedFor(repayments, l) = {}

\* A loan that starts on another day.
Restarted(row, start) ==
    LET items == buildLoanScheduleFromObligation(row.obligation, Len(row.installments), start)
    IN  [row EXCEPT !.start = start, !.installments = items, !.nextDue = items[1].due,
                    !.finalDue = items[Len(items)].due]

\* An officer corrects the first day of a loan on which nothing was paid.
correctLoanStartDateByID(l, start) ==
    /\ loans[l].status # "none" /\ MayRestart(l, start)
    /\ loans' = [loans EXCEPT ![l] = Restarted(@, start)]
    /\ UNCHANGED <<savingsVars, repayments, suspensions>>

-----------------------------------------------------------------------------
RepaymentStep ==
    \/ \E l \in LoanIds, r \in RepaymentIds, amount \in RepaymentAmounts :
           recordRepaymentTx(l, r, amount)
    \/ \E r \in RepaymentIds, amount \in RepaymentAmounts : correctRepaymentByID(r, amount)
    \/ \E r \in RepaymentIds : removeRepaymentByID(r)

ScheduleStep ==
    \/ \E l \in LoanIds, month \in StatementMonths : applyLoanSuspensionTx(l, month)
    \/ \E l \in LoanIds, start \in StartDates : correctLoanStartDateByID(l, start)
=============================================================================
