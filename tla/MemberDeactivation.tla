------------------------- MODULE MemberDeactivation -------------------------
(***************************************************************************)
(* Ending a membership: internal/app/member_deactivation.go, composed with *)
(* the savings and withdrawals of the member.                              *)
(*                                                                         *)
(* A request records the balances it will pay out and clears the member's  *)
(* open withdrawals at once; while it is pending the member can neither    *)
(* save nor ask for money.  The officers then decide in the order manager, *)
(* ketua I, ketua II, ketua utama, and the last approval pays every        *)
(* category out, provided that the balances are still those recorded.      *)
(*                                                                         *)
(* Every handler is one transaction under Server.financialMu.  Left out:   *)
(* the loan requests that the request also cancels, and the bank details a *)
(* payout by bank waits for (once given they are never withdrawn).         *)
(***************************************************************************)
EXTENDS Withdrawals

CONSTANTS
    PayoutSources,    \* payout_source, chosen by the manager
    KetuaUtamas       \* members who hold a ketua_utama appointment

ASSUME DeactivationAssumption ==
    /\ PayoutSources \subseteq {"cash", "bank"}
    /\ KetuaUtamas \subseteq Members /\ IsFiniteSet(KetuaUtamas)

VARIABLES
    deactivationApprovals,   \* member_deactivation_approvals, by request_id
    deactivationNotices,     \* audiences with an unresolved notification
    deactivationPayouts      \* saving rows with reference_no 'DEAK-' || id

deactivationVars == <<deactivationApprovals, deactivationNotices, deactivationPayouts>>

cooperativeVars == <<withdrawalsVars, deactivationVars>>

DeactivationTypeOK ==
    /\ WithdrawalsTypeOK
    /\ deactivationApprovals \in [DeactivationIds -> Histories]
    /\ deactivationNotices \in [DeactivationIds -> SUBSET Audiences]
    /\ deactivationPayouts \in [DeactivationIds -> SUBSET SavingIds]

-----------------------------------------------------------------------------
memberDeactivationBalances(m) == [c \in Categories |-> categoryBalance(m, c)]

\* Mutant: the balances recorded with the request are not compared again.
sameDeactivationBalances_Trusted(left, right) == TRUE

sameDeactivationBalances(left, right) == left = right

Payable(balances) == \A c \in Categories : balances[c] >= 0

\* Mutant: the last one may go.
LastKetuaUtama_Unchecked(m) == FALSE

\* The appointment of a member who is deactivated is suspended by the trigger
\* suspend_officer_on_member_deactivation.
LastKetuaUtama(m) ==
    /\ m \in KetuaUtamas
    /\ Cardinality({k \in KetuaUtamas : memberStatus[k] = "active"}) <= 1

\* Mutant: approved requests that wait for the treasurer are forgotten.
OpenWithdrawals_PendingOnly(m) ==
    {r \in WithdrawalIds : withdrawals[r].member = m /\ withdrawals[r].status = "pending"}

OpenWithdrawals(m) ==
    {r \in WithdrawalIds :
        /\ withdrawals[r].member = m
        /\ \/ withdrawals[r].status = "pending"
           \/ withdrawals[r].status = "approved" /\ ~withdrawals[r].disbursed}

cancelMemberPendingWithdrawalsTx(m) ==
    LET open == OpenWithdrawals(m) IN
    /\ withdrawals' = [r \in WithdrawalIds |->
           IF r \in open THEN Cancelled(withdrawals[r]) ELSE withdrawals[r]]
    /\ reservations' = [r \in WithdrawalIds |->
           IF r \in open THEN Settled(reservations[r], "released") ELSE reservations[r]]
    /\ withdrawalNotices' = [r \in WithdrawalIds |->
           IF r \in open THEN resolveRequestNotifications(withdrawalNotices[r])
                         ELSE withdrawalNotices[r]]

DeactivationWaitsFor(d, stage) ==
    /\ deactivations[d].status = "pending"
    /\ deactivations[d].stage = stage

insertMemberDeactivationDecisionTx(d, stage, decision) ==
    /\ MayDecide(deactivationApprovals[d], stage)
    /\ deactivationApprovals' = [deactivationApprovals EXCEPT ![d] =
           insertApprovalDecision(@, stage, decision)]

DeactivationNotified(d, audiences) ==
    deactivationNotices' = [deactivationNotices EXCEPT ![d] =
        createNotifications(resolveRequestNotifications(@), audiences)]

\* The payout source the request carries once the officer of stage has approved.
PayoutSource(d, stage, source) ==
    IF stage = "manager" THEN source ELSE deactivations[d].payoutSource

\* UPDATE member_deactivation_requests, one row operator per statement.
Forwarded(row, stage, source) ==
    [row EXCEPT !.stage = stage, !.payoutSource = source]

Ended(row, status) == [row EXCEPT !.status = status, !.stage = NoStage]

\* One withdrawal row for each category that is not empty.
PayOut(d) ==
    LET row  == deactivations[d]
        paid == {c \in Categories : row.balances[c] # 0}
        free == {s \in SavingIds : savings[s].type = "none"}
    IN
    \E records \in Injection(paid, free) :
        /\ savings' = [s \in SavingIds |->
               IF s \in Range(records)
               THEN LET c == AntiFunction(records)[s] IN
                    [type |-> "withdrawal", member |-> row.member, category |-> c,
                     amount |-> row.balances[c]]
               ELSE savings[s]]
        /\ deactivationPayouts' = [deactivationPayouts EXCEPT ![d] = Range(records)]

-----------------------------------------------------------------------------
DeactivationInit ==
    /\ WithdrawalsInit
    /\ deactivationApprovals = [d \in DeactivationIds |-> EmptyHistory]
    /\ deactivationNotices = [d \in DeactivationIds |-> {}]
    /\ deactivationPayouts = [d \in DeactivationIds |-> {}]

\* An officer asks to end a membership.
insertMemberDeactivationRequest(d, m) ==
    LET balances == memberDeactivationBalances(m) IN
    /\ deactivations[d].status = "none"
    /\ memberStatus[m] = "active"
    /\ ~hasPendingMemberDeactivation(m)
    /\ ~LastKetuaUtama(m)
    /\ Payable(balances)
    /\ deactivations' = [deactivations EXCEPT ![d] =
           [status |-> "pending", stage |-> "manager", member |-> m,
            balances |-> balances, payoutSource |-> ""]]
    /\ cancelMemberPendingWithdrawalsTx(m)
    /\ deactivationNotices' = [deactivationNotices EXCEPT ![d] =
           createNotifications(@, {"manager"})]
    /\ UNCHANGED <<memberStatus, savings, withdrawalApprovals, withdrawalOverrides,
                   deactivationApprovals, deactivationPayouts>>

\* The officer whose turn it is approves; the manager also chooses where the
\* money comes from.  At the last stage the balances are compared with those
\* recorded, the member is paid out and becomes inactive.
approveMemberDeactivationRequestByID(d, role, source) ==
    LET row    == deactivations[d]
        stage  == approvalStageForOfficer(role)
        next   == nextApprovalStage(stage)
        balances == memberDeactivationBalances(row.member)
    IN
    /\ DeactivationWaitsFor(d, stage)
    /\ insertMemberDeactivationDecisionTx(d, stage, "approved")
    /\ \/ /\ next # NoStage
          /\ deactivations' = [deactivations EXCEPT ![d] =
                 Forwarded(@, next, PayoutSource(d, stage, source))]
          /\ DeactivationNotified(d, {next})
          /\ UNCHANGED <<memberStatus, savings, deactivationPayouts>>
       \/ /\ next = NoStage
          /\ row.payoutSource \in {"cash", "bank"}
          /\ Payable(balances) /\ sameDeactivationBalances(balances, row.balances)
          /\ ~LastKetuaUtama(row.member)
          /\ PayOut(d)
          /\ memberStatus[row.member] = "active"
          /\ memberStatus' = [memberStatus EXCEPT ![row.member] = "inactive"]
          /\ deactivations' = [deactivations EXCEPT ![d] = Ended(@, "approved")]
          /\ DeactivationNotified(d, {"member"})
    /\ UNCHANGED requestVars

rejectMemberDeactivationRequestByID(d, role) ==
    LET stage == approvalStageForOfficer(role) IN
    /\ DeactivationWaitsFor(d, stage)
    /\ insertMemberDeactivationDecisionTx(d, stage, "rejected")
    /\ deactivations' = [deactivations EXCEPT ![d] = Ended(@, "rejected")]
    /\ DeactivationNotified(d, {"member"})
    /\ UNCHANGED <<memberStatus, savings, requestVars, deactivationPayouts>>

\* The officer who asked takes the request back.
cancelMemberDeactivationRequestByID(d) ==
    /\ deactivations[d].status = "pending"
    /\ deactivations' = [deactivations EXCEPT ![d] = Ended(@, "cancelled")]
    /\ DeactivationNotified(d, {})
    /\ UNCHANGED <<memberStatus, savings, requestVars, deactivationApprovals,
                   deactivationPayouts>>

-----------------------------------------------------------------------------
DeactivationStep(d) ==
    \/ \E m \in Members : insertMemberDeactivationRequest(d, m)
    \/ \E role \in DecidingRoles, source \in PayoutSources :
           approveMemberDeactivationRequestByID(d, role, source)
    \/ \E role \in DecidingRoles : rejectMemberDeactivationRequestByID(d, role)
    \/ cancelMemberDeactivationRequestByID(d)

DeactivationNext ==
    \/ WithdrawalsNext /\ UNCHANGED deactivationVars
    \/ \E d \in DeactivationIds : DeactivationStep(d)

DeactivationSpec == DeactivationInit /\ [][DeactivationNext]_cooperativeVars
=============================================================================
