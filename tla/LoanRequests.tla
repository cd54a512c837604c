---------------------------- MODULE LoanRequests ----------------------------
(***************************************************************************)
(* From asking for a loan to being paid it: internal/app/loan_requests.go, *)
(* loans.go, the loan half of super_admin_overrides.go and the requests    *)
(* that officers enter for a member, of admin_loan_requests.go.            *)
(*                                                                         *)
(* The manager fixes the terms of a request; the officers after the        *)
(* manager decide on those terms; the treasurer pays them out, and with    *)
(* them may pay off what the member still owes on regular loans.           *)
(*                                                                         *)
(* Every handler is one transaction, under Server.financialMu except for   *)
(* rejections and cancellations, which rely on the lock of the request's   *)
(* row and on guarded updates.  Left out: bank details, account codes, and *)
(* idempotency keys, by which a repeated creation finds the first request  *)
(* and changes nothing.                                                    *)
(***************************************************************************)
EXTENDS Loans

CONSTANTS
    LoanRequestIds,
    NoLoanId,                         \* no row of loans has the request's id
    MemberTypes,                      \* the values of members.member_type in use
    LoanInputs,                       \* what members and officers ask for
    Offers,                           \* terms that a manager or super admin sets
    DisbursementDates,
    Today,                            \* the day on which requests are entered
    ketuaUtamaLoanApprovalThreshold   \* Rp 25,000,000

LoanInput == [type : LoanTypes, amount : Nat \ {0}, duration : Nat \ {0},
              fee : Nat \cup {NoFee}]

ASSUME LoanRequestsAssumption ==
    /\ NoLoanId \notin LoanIds
    /\ MemberTypes \subseteq {"contract_worker", "employee", "daily_worker", "customer"}
    /\ LoanInputs \subseteq LoanInput
    /\ Offers \subseteq [amount : Nat, duration : Nat]
    /\ DisbursementDates \subseteq Nat \ {0} /\ Today \in Nat \ {0}
    /\ ketuaUtamaLoanApprovalThreshold \in Nat
    /\ {"wajib", "sukarela"} \subseteq Categories

VARIABLES
    memberType,       \* members.member_type
    loanRequests,     \* loan_requests
    loanApprovals,    \* loan_request_approvals, by request_id
    loanOverrides,    \* super_admin_overrides.previous_stage, by request_id
    loanNotices       \* audiences with an unresolved notification

loanRequestVars == <<memberType, loanRequests, loanApprovals, loanOverrides, loanNotices>>

lendingVars == <<savingsVars, loansVars, loanRequestVars>>

\* The proposed_ columns, written together.
Proposals == [principal : Nat, duration : Nat, monthlyFee : Nat \cup {NoFee},
              fee : Nat, obligation : Nat]

NoProposal == [principal |-> 0, duration |-> 0, monthlyFee |-> NoFee, fee |-> 0, obligation |-> 0]

\* disbursed is disbursement_date; loan is the row of loans with this request.
LoanRequestRows ==
    [status : {"none", "pending", "approved", "rejected", "cancelled"},
     stage : Stages \cup {NoStage}, member : Members \cup {Nobody},
     source : {"member", "admin"}, imported : BOOLEAN,
     type : LoanTypes, requested : Nat, duration : Nat, requestedFee : Nat \cup {NoFee},
     proposed : Proposals, settle : BOOLEAN, payoff : Nat, reviewed : BOOLEAN,
     disbursed : Nat, loan : LoanIds \cup {NoLoanId}]

NewLoanRequest(m, source, input) ==
    [status |-> "pending", stage |-> "manager", member |-> m, source |-> source,
     imported |-> FALSE, type |-> input.type, requested |-> input.amount,
     duration |-> input.duration, requestedFee |-> input.fee, proposed |-> NoProposal,
     settle |-> FALSE, payoff |-> 0, reviewed |-> FALSE, disbursed |-> EmptyDate,
     loan |-> NoLoanId]

NoLoanRequest ==
    [NewLoanRequest(Nobody, "member",
                    [type |-> "regular", amount |-> 0, duration |-> 0, fee |-> NoFee])
        EXCEPT !.status = "none", !.stage = NoStage]

LoanRequestsTypeOK ==
    /\ SavingsTypeOK /\ LoansTypeOK
    /\ memberType \in [Members -> MemberTypes]
    /\ loanRequests \in [LoanRequestIds -> LoanRequestRows]
    /\ loanApprovals \in [LoanRequestIds -> Histories]
    /\ loanOverrides \in [LoanRequestIds -> Stages \cup {NoStage}]
    /\ loanNotices \in [LoanRequestIds -> SUBSET Audiences]

-----------------------------------------------------------------------------
Multiplier(type) == CASE type = "contract_worker" -> 2
                      [] type = "employee"        -> 4
                      [] OTHER                    -> 1

Positive(x) == IF x < 0 THEN 0 ELSE x

\* A multiple of what was saved, or the largest amount there is.
maxLoanAmountForMemberSavings(type, wajib, sukarela) ==
    LET w == Positive(wajib) s == Positive(sukarela) IN
    IF s > MaxInt64 - w \/ w + s > MaxInt64 \div Multiplier(type) THEN MaxInt64
    ELSE (w + s) * Multiplier(type)

LoanLimit(m) ==
    maxLoanAmountForMemberSavings(memberType[m], categoryBalance(m, "wajib"),
                                  categoryBalance(m, "sukarela"))

\* Mutant: the limit of the day of the request is taken for granted later on.
WithinLimit_Trusted(row, amount) ==
    row.source = "admin" \/ row.reviewed \/ amount <= LoanLimit(row.member)

\* What officers enter is not held against the savings.
WithinLimit(row, amount) == row.source = "admin" \/ amount <= LoanLimit(row.member)

\* Mutant: an approved request does not keep the member from asking again.
InFlight_Pending(row) == row.status = "pending"

\* The rows of the partial unique index on member_id.
InFlight(row) ==
    row.status = "pending" \/ (row.status = "approved" /\ row.disbursed = EmptyDate)

HasRequestInFlight(m) ==
    \E q \in LoanRequestIds : loanRequests[q].member = m /\ InFlight(loanRequests[q])

validateLoanRequestInput(input) == input.duration <= maxLoanDurationForType(input.type)

nextLoanApprovalStageForAmount(stage, amount) ==
    IF stage = "ketua_i" /\ amount < ketuaUtamaLoanApprovalThreshold THEN NoStage
    ELSE nextLoanApprovalStage(stage)

\* The terms that a type of loan has for an amount and a duration.
LoanTerms(row, amount, duration) ==
    CASE row.type = "regular"         -> calculateRegularLoanSchedule(amount, duration, Today)
      [] row.type = "secondary_goods" -> calculateSecondaryGoodsLoanSchedule(amount, duration, Today)
      [] row.type = "goods_purchase_paylater" ->
             calculatePaylaterLoanSchedule(amount, duration, Today)
      [] row.type = "voucher" ->
             calculateVoucherLoanSchedule(amount, row.requestedFee, duration, Today)

Proposal(terms) == [column \in DOMAIN NoProposal |-> terms[column]]

\* The terms of a proposal as a loan that starts on a day.
TermsFrom(proposed, start) ==
    [principal |-> proposed.principal, duration |-> proposed.duration,
     monthlyFee |-> proposed.monthlyFee, fee |-> proposed.fee,
     obligation |-> proposed.obligation,
     installments |->
         buildLoanScheduleFromObligation(proposed.obligation, proposed.duration, start)]

SnapshotValid(row) ==
    LET p == row.proposed IN
    /\ validateLoanFeeSnapshot(PolicyOf(row.type), p.principal, p.duration, p.monthlyFee, p.fee,
                               p.obligation)
    /\ p.duration <= maxLoanDurationForType(row.type)
    /\ ~Refused(TermsFrom(p, Today))

OutstandingRegular(m) ==
    {l \in LoanIds : /\ loans[l].status # "none" /\ loans[l].member = m
                     /\ loans[l].type = "regular"
                     /\ Collectable(loans[l]) /\ loans[l].remaining > 0}

\* Mutant: what is left of the older loans is not compared with the new one.
PayoffFits_Unchecked(ids, principal) == TRUE

PayoffOf(ids) == SumFunction([l \in ids |-> loans[l].remaining])

PayoffFits(ids, principal) == PayoffOf(ids) <= principal

-----------------------------------------------------------------------------
LoanNotified(q, audiences) ==
    loanNotices' = [loanNotices EXCEPT ![q] =
        createNotifications(resolveRequestNotifications(@), audiences)]

LoanWaitsFor(q, stage) ==
    /\ loanRequests[q].status = "pending" /\ loanRequests[q].stage = stage
    /\ MayDecide(loanApprovals[q], stage)

LoanDecided(q, stage, decision) ==
    loanApprovals' = [loanApprovals EXCEPT ![q] = insertApprovalDecision(@, stage, decision)]

LoanOverridden(q) ==
    /\ loanRequests[q].status = "pending" /\ loanOverrides[q] = NoStage
    /\ loanOverrides' = [loanOverrides EXCEPT ![q] = loanRequests[q].stage]

LoanApproved(row) == [row EXCEPT !.status = "approved", !.stage = NoStage, !.reviewed = TRUE]

LoanClosed(row, status) ==
    [row EXCEPT !.status = status, !.stage = NoStage, !.reviewed = @ \/ status = "rejected"]

Stored(q, row) == loanRequests' = [loanRequests EXCEPT ![q] = row]

TermsChanged(row) ==
    row.proposed.principal # row.requested \/ row.proposed.duration # row.duration

\* loanPayoffAmount is what the regular loans amount to on the day of the proposal.
Proposed(row, terms, settle) ==
    LET settles == settle /\ row.type = "regular" IN
    [row EXCEPT !.proposed = Proposal(terms), !.settle = settles,
                !.payoff = IF settles THEN PayoffOf(OutstandingRegular(row.member)) ELSE 0]

\* The terms of an override: those the manager has fixed, or else those that the
\* super admin gives, and where none are given those asked for.
OverrideTerms(row, offer) ==
    IF row.proposed = NoProposal
    THEN LoanTerms(row, IF offer.amount > 0 THEN offer.amount ELSE row.requested,
                        IF offer.duration > 0 THEN offer.duration ELSE row.duration)
    ELSE IF offer.amount \in {0, row.proposed.principal}
            /\ offer.duration \in {0, row.proposed.duration}
         THEN TermsFrom(row.proposed, Today) ELSE NoTerms

-----------------------------------------------------------------------------
LoanRequestsInit ==
    /\ SavingsInit /\ LoansInit
    /\ memberType \in [Members -> MemberTypes]
    /\ loanRequests = [q \in LoanRequestIds |-> NoLoanRequest]
    /\ loanApprovals = [q \in LoanRequestIds |-> EmptyHistory]
    /\ loanOverrides = [q \in LoanRequestIds |-> NoStage]
    /\ loanNotices = [q \in LoanRequestIds |-> {}]

MayAsk(q, m) ==
    /\ loanRequests[q].status = "none"
    /\ memberStatus[m] = "active"
    /\ ~hasPendingMemberDeactivation(m)
    /\ ~HasRequestInFlight(m)

\* A member asks, within what the own savings allow.
insertLoanRequest(q, m, input) ==
    LET row == NewLoanRequest(m, "member", input) IN
    /\ input.type # "voucher" /\ validateLoanRequestInput(input)
    /\ MayAsk(q, m)
    /\ WithinLimit(row, input.amount)
    /\ Stored(q, row) /\ LoanNotified(q, {"manager"})
    /\ UNCHANGED <<savingsVars, loansVars, memberType, loanApprovals, loanOverrides>>

\* An officer asks for a member.
createAdminLoanRequestFor(q, m, input) ==
    /\ input.type # "voucher" /\ validateLoanRequestInput(input)
    /\ MayAsk(q, m)
    /\ Stored(q, NewLoanRequest(m, "admin", input)) /\ LoanNotified(q, {"manager", "member"})
    /\ UNCHANGED <<savingsVars, loansVars, memberType, loanApprovals, loanOverrides>>

\* The manager sets terms and whether they pay off the member's regular loans.
approveByManager(q, offer, settle) ==
    LET row   == loanRequests[q]
        terms == LoanTerms(row, offer.amount, offer.duration)
        new   == Proposed(row, terms, settle)
    IN  /\ ~Refused(terms)
        /\ WithinLimit(row, offer.amount)
        /\ new.settle => PayoffFits(OutstandingRegular(row.member), offer.amount)
        /\ Stored(q, [new EXCEPT !.stage = nextLoanApprovalStageForAmount("manager", offer.amount)])
        /\ LoanNotified(q, {"ketua_ii"} \cup IF TermsChanged(new) THEN {"member"} ELSE {})

\* An officer after the manager passes the request on, or has the last word.
approveAfterManager(q, stage) ==
    LET row  == loanRequests[q]
        next == nextLoanApprovalStageForAmount(stage, row.proposed.principal)
    IN  \/ /\ next # NoStage
           /\ Stored(q, [row EXCEPT !.stage = next]) /\ LoanNotified(q, {next})
        \/ /\ next = NoStage
           /\ memberStatus[row.member] = "active"
           /\ WithinLimit(row, row.proposed.principal)
           /\ SnapshotValid(row)
           /\ Stored(q, LoanApproved(row)) /\ LoanNotified(q, {"member", "bendahara"})

approveLoanRequestByID(q, role, offer, settle) ==
    LET stage == approvalStageForOfficer(role) IN
    /\ LoanWaitsFor(q, stage)
    /\ LoanDecided(q, stage, "approved")
    /\ IF stage = "manager" THEN approveByManager(q, offer, settle)
                            ELSE approveAfterManager(q, stage)
    /\ UNCHANGED <<savingsVars, loansVars, memberType, loanOverrides>>

\* Repayments of what is left of some loans, each under an id of its own.
PayOff(ids, repaid) ==
    repayments' = [r \in RepaymentIds |->
        IF \E l \in ids : repaid[l] = r
        THEN LET l == CHOOSE l \in ids : repaid[l] = r IN
             [status |-> "recorded", loan |-> l, amount |-> loans[l].remaining]
        ELSE repayments[r]]

\* The treasurer pays the loan out.  repaid gives the loans that it pays off the
\* ids of their repayments.
disburseLoanRequestByID(q, l, date, repaid) ==
    LET row     == loanRequests[q]
        terms   == TermsFrom(row.proposed, date)
        settled == IF row.settle THEN OutstandingRegular(row.member) ELSE {}
    IN  /\ row.status = "approved" /\ row.disbursed = EmptyDate /\ row.reviewed
        /\ memberStatus[row.member] = "active"
        /\ WithinLimit(row, row.proposed.principal)
        /\ SnapshotValid(row) /\ ~Refused(terms)
        /\ row.loan = NoLoanId /\ loans[l].status = "none"
        /\ PayoffFits(settled, row.proposed.principal)
        /\ DOMAIN repaid = settled
        /\ \A k \in settled : repayments[repaid[k]].status = "none"
        /\ \A k, other \in settled : repaid[k] = repaid[other] => k = other
        /\ Stored(q, [row EXCEPT !.disbursed = date, !.payoff = PayoffOf(settled), !.loan = l])
        /\ loans' = [k \in LoanIds |->
               IF k = l THEN NewLoan(row.member, row.type, Today, date, terms)
               ELSE IF k \in settled THEN Repaid(loans[k], loans[k].remaining) ELSE loans[k]]
        /\ PayOff(settled, repaid)
        /\ LoanNotified(q, {"member"})
        /\ UNCHANGED <<savingsVars, suspensions, memberType, loanApprovals, loanOverrides>>

rejectLoanRequestByID(q, role) ==
    LET stage == approvalStageForOfficer(role) IN
    /\ LoanWaitsFor(q, stage)
    /\ LoanDecided(q, stage, "rejected")
    /\ Stored(q, LoanClosed(loanRequests[q], "rejected")) /\ LoanNotified(q, {"member"})
    /\ UNCHANGED <<savingsVars, loansVars, memberType, loanOverrides>>

\* The member gives up a pending request.
cancelLoanRequestByID(q, m) ==
    /\ loanRequests[q].status = "pending" /\ loanRequests[q].member = m
    /\ Stored(q, LoanClosed(loanRequests[q], "cancelled")) /\ LoanNotified(q, {})
    /\ UNCHANGED <<savingsVars, loansVars, memberType, loanApprovals, loanOverrides>>

\* The officer who entered a request, or a super admin, takes it back.
cancelAdminLoanRequest(q) ==
    /\ loanRequests[q].status = "pending" /\ loanRequests[q].source = "admin"
    /\ Stored(q, LoanClosed(loanRequests[q], "cancelled")) /\ LoanNotified(q, {})
    /\ UNCHANGED <<savingsVars, loansVars, memberType, loanApprovals, loanOverrides>>

\* A super admin approves in the place of all officers that have not decided.
overrideLoanRequestByID(q, offer) ==
    LET row   == loanRequests[q]
        terms == OverrideTerms(row, offer)
        new   == [row EXCEPT !.proposed = Proposal(terms)]
    IN  /\ LoanOverridden(q)
        /\ memberStatus[row.member] = "active"
        /\ ~Refused(terms)
        /\ WithinLimit(row, terms.principal)
        /\ SnapshotValid(new)
        /\ Stored(q, LoanApproved(new)) /\ LoanNotified(q, {"member", "bendahara"})
        /\ UNCHANGED <<savingsVars, loansVars, memberType, loanApprovals>>

rejectLoanRequestBySuperAdmin(q) ==
    /\ LoanOverridden(q)
    /\ Stored(q, LoanClosed(loanRequests[q], "rejected")) /\ LoanNotified(q, {"member"})
    /\ UNCHANGED <<savingsVars, loansVars, memberType, loanApprovals>>

\* The type of a member, and with it the multiple, changes at any time.
updateMemberType(m, type) ==
    /\ memberType' = [memberType EXCEPT ![m] = type]
    /\ UNCHANGED <<savingsVars, loansVars, loanRequests, loanApprovals, loanOverrides, loanNotices>>

-----------------------------------------------------------------------------
LoanRequestStep(q) ==
    \/ \E m \in Members, input \in LoanInputs :
           insertLoanRequest(q, m, input) \/ createAdminLoanRequestFor(q, m, input)
    \/ \E role \in DecidingRoles, offer \in Offers, settle \in BOOLEAN :
           approveLoanRequestByID(q, role, offer, settle)
    \/ \E role \in DecidingRoles : rejectLoanRequestByID(q, role)
    \/ \E m \in Members : cancelLoanRequestByID(q, m)
    \/ cancelAdminLoanRequest(q)
    \/ \E offer \in Offers : overrideLoanRequestByID(q, offer)
    \/ rejectLoanRequestBySuperAdmin(q)

DisbursementStep(q) ==
    \E l \in LoanIds, date \in DisbursementDates, settled \in SUBSET LoanIds :
        \E repaid \in [settled -> RepaymentIds] : disburseLoanRequestByID(q, l, date, repaid)

DepositStep ==
    /\ \/ \E s \in SavingIds, m \in Members, c \in Categories, amount \in DepositAmounts :
              insertSaving(s, m, c, amount)
       \/ \E s \in SavingIds, amount \in DepositAmounts : correctSavingByID(s, amount)
       \/ \E s \in SavingIds : removeSavingByID(s)
    /\ UNCHANGED <<loansVars, loanRequestVars>>

LoanRequestsNext ==
    \/ DepositStep
    \/ \E m \in Members, type \in MemberTypes : updateMemberType(m, type)
    \/ \E q \in LoanRequestIds : LoanRequestStep(q) \/ DisbursementStep(q)
    \/ (RepaymentStep \/ ScheduleStep) /\ UNCHANGED loanRequestVars

LoanRequestsSpec == LoanRequestsInit /\ [][LoanRequestsNext]_lendingVars
=============================================================================
