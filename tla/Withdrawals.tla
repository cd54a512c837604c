---------------------------- MODULE Withdrawals ----------------------------
(***************************************************************************)
(* Sukarela withdrawals (Penarikan): submission by a member or an officer, *)
(* the approval chain, super admin overrides, cancellation and the         *)
(* treasurer's disbursement.  Source: internal/app/withdrawals.go and the  *)
(* withdrawal half of internal/app/super_admin_overrides.go.               *)
(*                                                                         *)
(* A request sets its amount aside in withdrawal_reservations when it is   *)
(* submitted; the reservation is consumed by the disbursement or released  *)
(* when the request is rejected or cancelled.  Several requests of one     *)
(* member may be open at once and share one balance.                       *)
(*                                                                         *)
(* One action per handler.  Every handler is one transaction that locks    *)
(* the request row (FOR UPDATE) or, to create it, the member row, and all  *)
(* but the rejections also hold Server.financialMu.                        *)
(***************************************************************************)
EXTENDS Savings

CONSTANTS
    WithdrawalIds,       \* withdrawal_requests.id
    WithdrawalAmounts,   \* amounts asked for
    NoSavingRecord       \* saving_record_id IS NULL

ASSUME WithdrawalsAssumption ==
    /\ IsFiniteSet(WithdrawalIds)
    /\ WithdrawalAmounts \subseteq Nat \ {0}
    /\ NoSavingRecord \notin SavingIds

VARIABLES
    withdrawals,            \* withdrawal_requests
    reservations,           \* withdrawal_reservations, by request_id
    withdrawalApprovals,    \* withdrawal_request_approvals, by request_id
    withdrawalOverrides,    \* super_admin_overrides.previous_stage, by request_id
    withdrawalNotices       \* audiences with an unresolved notification

requestVars ==
    <<withdrawals, reservations, withdrawalApprovals, withdrawalOverrides,
      withdrawalNotices>>

withdrawalsVars == <<savingsVars, requestVars>>

\* disbursed stands for disbursement_date, disbursed_by and disbursed_at, which
\* are only ever set together.
WithdrawalRows ==
    [status : {"none", "pending", "approved", "rejected", "cancelled"},
     stage : Stages \cup {NoStage},
     member : Members \cup {Nobody},
     source : {"member", "officer"},
     amount : Nat,
     reviewed : BOOLEAN,
     disbursed : BOOLEAN,
     saving : SavingIds \cup {NoSavingRecord}]

NoWithdrawal ==
    [status |-> "none", stage |-> NoStage, member |-> Nobody, source |-> "member",
     amount |-> 0, reviewed |-> FALSE, disbursed |-> FALSE, saving |-> NoSavingRecord]

ReservationRows == [status : {"none", "active", "released", "consumed"}, amount : Nat]

NoReservation == [status |-> "none", amount |-> 0]

WithdrawalsTypeOK ==
    /\ SavingsTypeOK
    /\ withdrawals \in [WithdrawalIds -> WithdrawalRows]
    /\ reservations \in [WithdrawalIds -> ReservationRows]
    /\ withdrawalApprovals \in [WithdrawalIds -> Histories]
    /\ withdrawalOverrides \in [WithdrawalIds -> Stages \cup {NoStage}]
    /\ withdrawalNotices \in [WithdrawalIds -> SUBSET Audiences]

-----------------------------------------------------------------------------
\* What the active reservations of m hold, the ones of the requests in except
\* left out.
Reserved(m, except) ==
    SumFunctionOnSet([r \in WithdrawalIds |-> reservations[r].amount],
                     {r \in WithdrawalIds \ except :
                          withdrawals[r].member = m /\ reservations[r].status = "active"})

availableWithdrawal(m, except) ==
    availableWithdrawalAmountForSukarelaBalance(
        categoryBalance(m, "sukarela"), Reserved(m, except))

\* What the final approval, the override and the disbursement check again:
\* this request alone against the whole balance, other reservations aside.
PayoutCovered(r) ==
    LET w == withdrawals[r] IN
    /\ memberStatus[w.member] = "active"
    /\ w.amount <= maxWithdrawalAmountForSukarelaBalance(
                       categoryBalance(w.member, "sukarela"))
    /\ reservations[r] = [status |-> "active", amount |-> w.amount]

\* UPDATE withdrawal_reservations SET status=... WHERE status='active'
Settled(v, status) ==
    IF v.status = "active" THEN [v EXCEPT !.status = status] ELSE v

\* UPDATE withdrawal_requests, one row operator per statement.
Resized(w, amount) == [w EXCEPT !.amount = amount]

Advanced(w, stage) == [w EXCEPT !.stage = stage]

Approved(w) ==
    [w EXCEPT !.status = "approved", !.stage = NoStage, !.reviewed = TRUE]

Rejected(w) ==
    [w EXCEPT !.status = "rejected", !.stage = NoStage, !.reviewed = TRUE]

Cancelled(w) == [w EXCEPT !.status = "cancelled", !.stage = NoStage]

Disbursed(w, s) == [w EXCEPT !.disbursed = TRUE, !.saving = s]

\* resolveRequestNotifications, then one notification per audience.
Notified(r, audiences) ==
    withdrawalNotices' = [withdrawalNotices EXCEPT ![r] =
        createNotifications(resolveRequestNotifications(@), audiences)]

\* The request waits for the officer's stage, which has no decision yet.
WaitsFor(r, stage) ==
    /\ withdrawals[r].status = "pending"
    /\ withdrawals[r].stage = stage
    /\ MayDecide(withdrawalApprovals[r], stage)

Decided(r, stage, decision) ==
    withdrawalApprovals' = [withdrawalApprovals EXCEPT ![r] =
        insertApprovalDecision(@, stage, decision)]

\* The request ends unpaid: its reservation is released and its open
\* notifications give way to the outcome, if the member is told.
GivenUp(r, row, audiences) ==
    /\ withdrawals' = [withdrawals EXCEPT ![r] = row]
    /\ reservations' = [reservations EXCEPT ![r] = Settled(@, "released")]
    /\ Notified(r, audiences)

\* Mutant: an officer's intake may be edited as long as it is pending.
Editable_WhilePending(r) ==
    withdrawals[r].source = "officer" /\ withdrawals[r].status = "pending"

\* An officer's intake may be edited until the first decision on it.
Editable(r) ==
    /\ withdrawals[r].source = "officer"
    /\ withdrawals[r].status = "pending"
    /\ withdrawals[r].stage = "manager"
    /\ DecidedStages(withdrawalApprovals[r]) = {}

ReadyForDisbursement(r) ==
    LET w == withdrawals[r] IN
    /\ w.status = "approved" /\ w.stage = NoStage /\ w.reviewed
    /\ ~w.disbursed /\ w.saving = NoSavingRecord

\* UNIQUE (request_type, request_id): one override per request.
MayOverride(r) ==
    withdrawals[r].status = "pending" /\ withdrawalOverrides[r] = NoStage

Overridden(r) ==
    withdrawalOverrides' = [withdrawalOverrides EXCEPT ![r] = withdrawals[r].stage]

-----------------------------------------------------------------------------
WithdrawalsInit ==
    /\ SavingsInit
    /\ withdrawals = [r \in WithdrawalIds |-> NoWithdrawal]
    /\ reservations = [r \in WithdrawalIds |-> NoReservation]
    /\ withdrawalApprovals = [r \in WithdrawalIds |-> EmptyHistory]
    /\ withdrawalOverrides = [r \in WithdrawalIds |-> NoStage]
    /\ withdrawalNotices = [r \in WithdrawalIds |-> {}]

\* source is "member" for the member's own submission, "officer" for an
\* officer's intake on the member's behalf.
insertWithdrawalRequestAs(r, m, amount, source) ==
    /\ withdrawals[r].status = "none"
    /\ memberStatus[m] = "active"
    /\ ~hasPendingMemberDeactivation(m)
    /\ amount <= availableWithdrawal(m, {})
    /\ withdrawals' = [withdrawals EXCEPT ![r] =
           [status |-> "pending", stage |-> "manager", member |-> m,
            source |-> source, amount |-> amount, reviewed |-> FALSE,
            disbursed |-> FALSE, saving |-> NoSavingRecord]]
    /\ reservations' = [reservations EXCEPT ![r] =
           [status |-> "active", amount |-> amount]]
    /\ withdrawalNotices' = [withdrawalNotices EXCEPT ![r] =
           createNotifications(@, {"manager"})]
    /\ UNCHANGED <<savingsVars, withdrawalApprovals, withdrawalOverrides>>

\* An officer changes the amount of an officer's intake, and what it reserves.
updateOfficerWithdrawalRequest(r, amount) ==
    LET m == withdrawals[r].member IN
    /\ Editable(r)
    /\ memberStatus[m] = "active"
    /\ amount <= availableWithdrawal(m, {r})
    /\ withdrawals' = [withdrawals EXCEPT ![r] = Resized(@, amount)]
    /\ reservations' = [reservations EXCEPT ![r] =
           IF @.status = "active" THEN Resized(@, amount) ELSE @]
    /\ UNCHANGED <<savingsVars, withdrawalApprovals, withdrawalOverrides,
                   withdrawalNotices>>

\* The officer whose turn it is approves.  Before the last stage the request
\* moves on; at the last one the payout is checked again and the request is
\* approved, and the member and the treasurer are told.
approveWithdrawalRequestByID(r, role) ==
    LET stage == approvalStageForOfficer(role)
        next  == nextWithdrawalApprovalStage(stage)
    IN
    /\ WaitsFor(r, stage)
    /\ Decided(r, stage, "approved")
    /\ \/ /\ next # NoStage
          /\ withdrawals' = [withdrawals EXCEPT ![r] = Advanced(@, next)]
          /\ Notified(r, {next})
       \/ /\ next = NoStage
          /\ PayoutCovered(r)
          /\ withdrawals[r].stage = "ketua_i"
          /\ withdrawals' = [withdrawals EXCEPT ![r] = Approved(@)]
          /\ Notified(r, {"member", "bendahara"})
    /\ UNCHANGED <<savingsVars, reservations, withdrawalOverrides>>

\* The treasurer pays: a Sukarela withdrawal row is written and the reservation
\* consumed.  The open notifications stay open.
disburseWithdrawalRequestByID(r, s) ==
    LET w == withdrawals[r] IN
    /\ ReadyForDisbursement(r)
    /\ PayoutCovered(r)
    /\ savings[s].type = "none"
    /\ savings' = [savings EXCEPT ![s] =
           [type |-> "withdrawal", member |-> w.member, category |-> "sukarela",
            amount |-> w.amount]]
    /\ withdrawals' = [withdrawals EXCEPT ![r] = Disbursed(@, s)]
    /\ reservations' = [reservations EXCEPT ![r] = Settled(@, "consumed")]
    /\ UNCHANGED <<memberStatus, deactivations, withdrawalApprovals,
                   withdrawalOverrides, withdrawalNotices>>

\* The officer whose turn it is rejects, without taking financialMu.
rejectWithdrawalRequestByID(r, role) ==
    LET stage == approvalStageForOfficer(role) IN
    /\ WaitsFor(r, stage)
    /\ Decided(r, stage, "rejected")
    /\ GivenUp(r, Rejected(withdrawals[r]), {"member"})
    /\ UNCHANGED <<savingsVars, withdrawalOverrides>>

\* The member takes back an own pending request.
cancelWithdrawalRequestByID(r, m) ==
    /\ withdrawals[r].member = m
    /\ withdrawals[r].status = "pending"
    /\ GivenUp(r, Cancelled(withdrawals[r]), {})
    /\ UNCHANGED <<savingsVars, withdrawalApprovals, withdrawalOverrides>>

\* A super admin approves a pending request at whatever stage it waits.
approveWithdrawalRequestBySuperAdmin(r) ==
    /\ MayOverride(r)
    /\ PayoutCovered(r)
    /\ Overridden(r)
    /\ withdrawals' = [withdrawals EXCEPT ![r] = Approved(@)]
    /\ Notified(r, {"member", "bendahara"})
    /\ UNCHANGED <<savingsVars, reservations, withdrawalApprovals>>

\* A super admin rejects a pending request at whatever stage it waits.
rejectWithdrawalRequestBySuperAdmin(r) ==
    /\ MayOverride(r)
    /\ Overridden(r)
    /\ GivenUp(r, Rejected(withdrawals[r]), {"member"})
    /\ UNCHANGED <<savingsVars, withdrawalApprovals>>

-----------------------------------------------------------------------------
\* removeSavingByID also refuses a row that a withdrawal request points at.
SavingsStep ==
    /\ \/ \E s \in SavingIds, m \in Members, c \in Categories, amount \in DepositAmounts :
              insertSaving(s, m, c, amount)
       \/ \E s \in SavingIds, amount \in DepositAmounts : correctSavingByID(s, amount)
       \/ \E s \in SavingIds :
              removeSavingByID(s) /\ \A r \in WithdrawalIds : withdrawals[r].saving # s
    /\ UNCHANGED requestVars

RequestStep(r) ==
    \/ \E m \in Members, amount \in WithdrawalAmounts, source \in {"member", "officer"} :
           insertWithdrawalRequestAs(r, m, amount, source)
    \/ \E amount \in WithdrawalAmounts : updateOfficerWithdrawalRequest(r, amount)
    \/ \E role \in DecidingRoles :
           approveWithdrawalRequestByID(r, role) \/ rejectWithdrawalRequestByID(r, role)
    \/ \E m \in Members : cancelWithdrawalRequestByID(r, m)
    \/ \E s \in SavingIds : disburseWithdrawalRequestByID(r, s)
    \/ approveWithdrawalRequestBySuperAdmin(r)
    \/ rejectWithdrawalRequestBySuperAdmin(r)

WithdrawalsNext == SavingsStep \/ \E r \in WithdrawalIds : RequestStep(r)

WithdrawalsSpec == WithdrawalsInit /\ [][WithdrawalsNext]_withdrawalsVars
=============================================================================
