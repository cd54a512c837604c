--------------------------- MODULE LoanRepayments ---------------------------
(***************************************************************************)
(* The life of loans after they were paid out: the system that the actions *)
(* of Loans make up, and what has to hold of it.                           *)
(***************************************************************************)
EXTENDS Loans

CONSTANT Contracts    \* the loans that may be opened

Contract == [member : Members, type : LoanTypes, asked : Nat, start : Nat,
             principal : Nat, duration : Nat]

ASSUME ContractsAssumption == Contracts \subseteq Contract

VoucherFee == 0

\* The terms that approveLoanRequestByID fixes for a type.
TermsOf(type, principal, duration, start) ==
    CASE type = "regular"         -> calculateRegularLoanSchedule(principal, duration, start)
      [] type = "secondary_goods" -> calculateSecondaryGoodsLoanSchedule(principal, duration, start)
      [] type = "goods_purchase_paylater" ->
             calculatePaylaterLoanSchedule(principal, duration, start)
      [] type = "voucher" ->
             calculateVoucherLoanSchedule(principal, VoucherFee, duration, start)

openLoan(l, c) ==
    /\ insertLoan(l, c.member, c.type, c.asked, c.start,
                  TermsOf(c.type, c.principal, c.duration, c.start))
    /\ UNCHANGED <<savingsVars, repayments, suspensions>>

\* The last approval of a deactivation (module MemberDeactivation), which does not
\* ask what the member still owes.
endMembership(m) ==
    /\ memberStatus[m] = "active"
    /\ memberStatus' = [memberStatus EXCEPT ![m] = "inactive"]
    /\ UNCHANGED <<savings, deactivations, loansVars>>

RepaymentsInit == SavingsInit /\ LoansInit

RepaymentsNext ==
    \/ \E l \in LoanIds, c \in Contracts : openLoan(l, c)
    \/ \E m \in Members : endMembership(m)
    \/ RepaymentStep
    \/ ScheduleStep

RepaymentsSpec == RepaymentsInit /\ [][RepaymentsNext]_<<savingsVars, loansVars>>

-----------------------------------------------------------------------------
Lent == {l \in LoanIds : loans[l].status # "none"}

\* What members still owe is the obligation less everything recorded, it is
\* what the instalments lack, and replaying all repayments in any order gives
\* the instalments as they are: recording one (repayments.go), correcting and
\* removing one (repayment_corrections.go), skipping a month and moving the
\* start agree on what was paid.
PaymentsReplay ==
    \A l \in Lent :
        LET row == loans[l] amounts == AmountsFor(repayments, l) IN
        /\ row.remaining = row.obligation - SumSeq(amounts)
        /\ row.remaining = UnpaidSum(row.installments)
        /\ Scheduled(row.installments) = row.obligation
        /\ row.installments = allocateRepaymentsOldestFirst(row.installments, amounts)

\* No loan is overpaid, and no instalment receives money before the earlier
\* ones have theirs.
NeverOverpaid ==
    \A l \in Lent :
        LET items == loans[l].installments IN
        /\ loans[l].remaining >= 0
        /\ \A n \in DOMAIN items :
               /\ Unpaid(items[n]) >= 0
               /\ n > 1 /\ items[n].paid > 0 => Unpaid(items[n - 1]) = 0

\* A loan is paid exactly when nothing is left, and next_due_date, from which
\* reminders and deductions are made, is the first month not paid in full.
StatusFollowsBalance ==
    \A l \in Lent :
        /\ loans[l].status = "paid" <=> loans[l].remaining = 0
        /\ loans[l].nextDue = FirstUnpaidDue(loans[l].installments, EmptyDate)

\* Every month on which an instalment is not due is accounted for: the end of
\* the schedule is where the start and the duration put it, a month later for
\* each suspension that was sold, and the instalments keep their order.
ScheduleExplained ==
    \A l \in Lent :
        LET items   == loans[l].installments
            skipped == Cardinality({s \in suspensions : s[1] = l})
        IN  /\ loans[l].finalDue = items[Len(items)].due
            /\ items[Len(items)].due = loanDueDate(loans[l].start, Len(items)) + 100 * skipped
            /\ \A n \in 1 .. Len(items) - 1 : items[n].due < items[n + 1].due

\* The rows of a loan are explained by its history, in whatever order payments
\* were recorded, corrected and removed and months were skipped.
HistoryExplainsLoan ==
    /\ PaymentsReplay
    /\ NeverOverpaid
    /\ StatusFollowsBalance
    /\ ScheduleExplained

\* A month for which money was received is never moved afterwards, and no
\* suspension is forgotten.
PaidMonthsStay ==
    /\ suspensions \subseteq suspensions'
    /\ \A l \in Lent : \A n \in DOMAIN loans[l].installments :
           loans[l].installments[n].paid > 0 /\ loans'[l].installments[n].paid > 0 =>
               loans'[l].installments[n].due = loans[l].installments[n].due

\* A member has no second active loan because a paid one was opened again.
ReopenedAlone ==
    \A l \in Lent :
        loans[l].status = "paid" /\ loans'[l].status = "active" =>
            \A other \in LoanIds \ {l} :
                ~(loans'[other].status = "active" /\ loans'[other].member = loans[l].member)

\* A correction, a suspension or a new start reaches no further than the rules
\* allow (repayment_corrections.go:275, tagihan_suspension.go).
ChangesKeepWhatIsPaid ==
    [][PaidMonthsStay /\ ReopenedAlone]_<<savingsVars, loansVars>>

=============================================================================
