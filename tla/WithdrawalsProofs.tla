------------------------- MODULE WithdrawalsProofs -------------------------
(***************************************************************************)
(* Proofs about the money that leaves the cooperative, for any sets of     *)
(* members, rows, requests and amounts.  First the withdrawals: types, the *)
(* safety invariants, and that every step is a step of the payout escrow   *)
(* or a stutter.  Then the memberships that end: their invariant puts,     *)
(* next to what the properties say, what ties a deactivation to the rows   *)
(* it paid: one row per category that was not empty (PaidOut), and no row  *)
(* with two origins (OneOrigin).  A payout writes rows that did not exist, *)
(* so no earlier one is disturbed.                                         *)
(***************************************************************************)
EXTENDS DeactivationSafety, SumProofs

LEMMA StageTypes ==
    /\ \A role \in DecidingRoles : approvalStageForOfficer(role) \in Stages
    /\ \A stage \in Stages : nextWithdrawalApprovalStage(stage) \in Stages \cup {NoStage}
BY DEF DecidingRoles, approvalStageForOfficer, Stages, nextWithdrawalApprovalStage, NoStage

LEMMA InitTypeOK == WithdrawalsInit => WithdrawalsTypeOK
<1> SUFFICES ASSUME WithdrawalsInit PROVE WithdrawalsTypeOK
    OBVIOUS
<1>1. NoSaving \in SavingRows
    BY SavingsAssumption DEF NoSaving, SavingRows
<1>2. NoDeactivation \in DeactivationRows
    BY DEF NoDeactivation, DeactivationRows
<1>3. NoWithdrawal \in WithdrawalRows
    BY DEF NoWithdrawal, WithdrawalRows
<1>4. NoReservation \in ReservationRows
    BY DEF NoReservation, ReservationRows
<1>5. EmptyHistory \in Histories
    BY DEF EmptyHistory, Histories
<1>6. SavingsTypeOK
    BY <1>1, <1>2 DEF WithdrawalsInit, SavingsInit, SavingsTypeOK
<1>7. QED
    BY <1>3, <1>4, <1>5, <1>6 DEF WithdrawalsInit, WithdrawalsTypeOK

(***************************************************************************)
(* The row operators, written out: which columns change and which stay.    *)
(***************************************************************************)
LEMMA ResizedFields ==
    ASSUME NEW w \in WithdrawalRows, NEW amount
    PROVE  /\ Resized(w, amount).status = w.status
           /\ Resized(w, amount).stage = w.stage
           /\ Resized(w, amount).member = w.member
           /\ Resized(w, amount).source = w.source
           /\ Resized(w, amount).amount = amount
           /\ Resized(w, amount).reviewed = w.reviewed
           /\ Resized(w, amount).disbursed = w.disbursed
           /\ Resized(w, amount).saving = w.saving
BY DEF WithdrawalRows, Resized

LEMMA AdvancedFields ==
    ASSUME NEW w \in WithdrawalRows, NEW stage
    PROVE  /\ Advanced(w, stage).status = w.status
           /\ Advanced(w, stage).stage = stage
           /\ Advanced(w, stage).member = w.member
           /\ Advanced(w, stage).source = w.source
           /\ Advanced(w, stage).amount = w.amount
           /\ Advanced(w, stage).reviewed = w.reviewed
           /\ Advanced(w, stage).disbursed = w.disbursed
           /\ Advanced(w, stage).saving = w.saving
BY DEF WithdrawalRows, Advanced

LEMMA ApprovedFields ==
    ASSUME NEW w \in WithdrawalRows
    PROVE  /\ Approved(w).status = "approved"
           /\ Approved(w).stage = NoStage
           /\ Approved(w).member = w.member
           /\ Approved(w).source = w.source
           /\ Approved(w).amount = w.amount
           /\ Approved(w).reviewed = TRUE
           /\ Approved(w).disbursed = w.disbursed
           /\ Approved(w).saving = w.saving
BY DEF WithdrawalRows, Approved

LEMMA RejectedFields ==
    ASSUME NEW w \in WithdrawalRows
    PROVE  /\ Rejected(w).status = "rejected"
           /\ Rejected(w).stage = NoStage
           /\ Rejected(w).member = w.member
           /\ Rejected(w).source = w.source
           /\ Rejected(w).amount = w.amount
           /\ Rejected(w).reviewed = TRUE
           /\ Rejected(w).disbursed = w.disbursed
           /\ Rejected(w).saving = w.saving
BY DEF WithdrawalRows, Rejected

LEMMA CancelledFields ==
    ASSUME NEW w \in WithdrawalRows
    PROVE  /\ Cancelled(w).status = "cancelled"
           /\ Cancelled(w).stage = NoStage
           /\ Cancelled(w).member = w.member
           /\ Cancelled(w).source = w.source
           /\ Cancelled(w).amount = w.amount
           /\ Cancelled(w).reviewed = w.reviewed
           /\ Cancelled(w).disbursed = w.disbursed
           /\ Cancelled(w).saving = w.saving
BY DEF WithdrawalRows, Cancelled

LEMMA DisbursedFields ==
    ASSUME NEW w \in WithdrawalRows, NEW s
    PROVE  /\ Disbursed(w, s).status = w.status
           /\ Disbursed(w, s).stage = w.stage
           /\ Disbursed(w, s).member = w.member
           /\ Disbursed(w, s).source = w.source
           /\ Disbursed(w, s).amount = w.amount
           /\ Disbursed(w, s).reviewed = w.reviewed
           /\ Disbursed(w, s).disbursed = TRUE
           /\ Disbursed(w, s).saving = s
BY DEF WithdrawalRows, Disbursed

LEMMA RowTypes ==
    ASSUME NEW w \in WithdrawalRows
    PROVE  /\ \A amount \in Nat : Resized(w, amount) \in WithdrawalRows
           /\ \A stage \in Stages : Advanced(w, stage) \in WithdrawalRows
           /\ Approved(w) \in WithdrawalRows
           /\ Rejected(w) \in WithdrawalRows
           /\ Cancelled(w) \in WithdrawalRows
           /\ \A s \in SavingIds : Disbursed(w, s) \in WithdrawalRows
<1>1. \A amount \in Nat : Resized(w, amount) \in WithdrawalRows
    BY DEF Resized, WithdrawalRows
<1>2. \A stage \in Stages : Advanced(w, stage) \in WithdrawalRows
    BY DEF Advanced, WithdrawalRows
<1>3. Approved(w) \in WithdrawalRows
    BY DEF Approved, WithdrawalRows
<1>4. Rejected(w) \in WithdrawalRows
    BY DEF Rejected, WithdrawalRows
<1>5. Cancelled(w) \in WithdrawalRows
    BY DEF Cancelled, WithdrawalRows
<1>6. \A s \in SavingIds : Disbursed(w, s) \in WithdrawalRows
    BY DEF Disbursed, WithdrawalRows
<1>7. QED
    BY <1>1, <1>2, <1>3, <1>4, <1>5, <1>6

LEMMA ReservationShapes ==
    ASSUME NEW v \in ReservationRows
    PROVE  /\ \A status : Settled(v, status) =
                 [status |-> IF v.status = "active" THEN status ELSE v.status,
                  amount |-> v.amount]
           /\ \A amount : Resized(v, amount) = [status |-> v.status, amount |-> amount]
BY DEF ReservationRows, Settled, Resized

LEMMA ReservationTypes ==
    ASSUME NEW v \in ReservationRows
    PROVE  /\ \A status \in {"released", "consumed"} : Settled(v, status) \in ReservationRows
           /\ \A amount \in Nat : Resized(v, amount) \in ReservationRows
BY ReservationShapes DEF ReservationRows

LEMMA SavingShapes ==
    ASSUME NEW v \in SavingRows
    PROVE  /\ \A amount : [v EXCEPT !.amount = amount] =
                 [type |-> v.type, member |-> v.member, category |-> v.category,
                  amount |-> amount]
           /\ [v EXCEPT !.type = "removed"] =
                 [type |-> "removed", member |-> v.member, category |-> v.category,
                  amount |-> v.amount]
BY DEF SavingRows

LEMMA NotifiedType ==
    ASSUME WithdrawalsTypeOK, NEW r \in WithdrawalIds,
           NEW audiences \in SUBSET Audiences, Notified(r, audiences)
    PROVE  withdrawalNotices' \in [WithdrawalIds -> SUBSET Audiences]
BY DEF WithdrawalsTypeOK, Notified, createNotifications, resolveRequestNotifications

LEMMA DecidedType ==
    ASSUME WithdrawalsTypeOK, NEW r \in WithdrawalIds,
           NEW stage \in Stages, NEW decision \in {"approved", "rejected"},
           Decided(r, stage, decision)
    PROVE  withdrawalApprovals' \in [WithdrawalIds -> Histories]
BY DEF WithdrawalsTypeOK, Decided, insertApprovalDecision, Histories

LEMMA GivenUpType ==
    ASSUME WithdrawalsTypeOK, NEW r \in WithdrawalIds, NEW row \in WithdrawalRows,
           NEW audiences \in SUBSET Audiences, GivenUp(r, row, audiences)
    PROVE  /\ withdrawals' \in [WithdrawalIds -> WithdrawalRows]
           /\ reservations' \in [WithdrawalIds -> ReservationRows]
           /\ withdrawalNotices' \in [WithdrawalIds -> SUBSET Audiences]
BY NotifiedType, ReservationTypes DEF WithdrawalsTypeOK, GivenUp

-----------------------------------------------------------------------------
LEMMA SavingsStepTypeOK ==
    ASSUME WithdrawalsTypeOK, SavingsStep
    PROVE  WithdrawalsTypeOK'
<1> savings \in [SavingIds -> SavingRows]
    BY DEF WithdrawalsTypeOK, SavingsTypeOK
<1>1. ASSUME NEW s \in SavingIds, NEW m \in Members, NEW c \in Categories,
             NEW amount \in DepositAmounts, insertSaving(s, m, c, amount)
      PROVE  savings' \in [SavingIds -> SavingRows] /\ UNCHANGED <<memberStatus, deactivations>>
    BY <1>1, SavingsAssumption DEF insertSaving, SavingRows
<1>2. ASSUME NEW s \in SavingIds, NEW amount \in DepositAmounts, correctSavingByID(s, amount)
      PROVE  savings' \in [SavingIds -> SavingRows] /\ UNCHANGED <<memberStatus, deactivations>>
    <2>1. [savings[s] EXCEPT !.amount = amount] \in SavingRows
        BY SavingShapes, SavingsAssumption DEF SavingRows
    <2>2. QED
        BY <1>2, <2>1 DEF correctSavingByID
<1>3. ASSUME NEW s \in SavingIds, removeSavingByID(s)
      PROVE  savings' \in [SavingIds -> SavingRows] /\ UNCHANGED <<memberStatus, deactivations>>
    <2>1. [savings[s] EXCEPT !.type = "removed"] \in SavingRows
        BY SavingShapes DEF SavingRows
    <2>2. QED
        BY <1>3, <2>1 DEF removeSavingByID
<1>4. savings' \in [SavingIds -> SavingRows] /\ UNCHANGED <<memberStatus, deactivations>>
    BY <1>1, <1>2, <1>3 DEF SavingsStep
<1>5. UNCHANGED requestVars
    BY DEF SavingsStep
<1>6. QED
    BY <1>4, <1>5 DEF WithdrawalsTypeOK, SavingsTypeOK, requestVars

LEMMA RequestStepTypeOK ==
    ASSUME WithdrawalsTypeOK, NEW r \in WithdrawalIds, RequestStep(r)
    PROVE  WithdrawalsTypeOK'
<1> USE DEF WithdrawalsTypeOK
<1> savings \in [SavingIds -> SavingRows]
    BY DEF SavingsTypeOK
<1>1. ASSUME NEW m \in Members, NEW amount \in WithdrawalAmounts,
             NEW source \in {"member", "officer"},
             insertWithdrawalRequestAs(r, m, amount, source)
      PROVE  WithdrawalsTypeOK'
    <2>1. withdrawals' \in [WithdrawalIds -> WithdrawalRows]
        BY <1>1, WithdrawalsAssumption
        DEF insertWithdrawalRequestAs, WithdrawalRows, Stages
    <2>2. reservations' \in [WithdrawalIds -> ReservationRows]
        BY <1>1, WithdrawalsAssumption DEF insertWithdrawalRequestAs, ReservationRows
    <2>3. withdrawalNotices' \in [WithdrawalIds -> SUBSET Audiences]
        BY <1>1 DEF insertWithdrawalRequestAs, createNotifications, Audiences, Stages
    <2>4. QED
        BY <1>1, <2>1, <2>2, <2>3
        DEF insertWithdrawalRequestAs, savingsVars, SavingsTypeOK
<1>2. ASSUME NEW amount \in WithdrawalAmounts, updateOfficerWithdrawalRequest(r, amount)
      PROVE  WithdrawalsTypeOK'
    <2>1. amount \in Nat
        BY WithdrawalsAssumption
    <2>2. withdrawals' \in [WithdrawalIds -> WithdrawalRows]
        BY <1>2, <2>1, RowTypes DEF updateOfficerWithdrawalRequest
    <2>3. reservations' \in [WithdrawalIds -> ReservationRows]
        BY <1>2, <2>1, ReservationTypes DEF updateOfficerWithdrawalRequest
    <2>4. QED
        BY <1>2, <2>2, <2>3 DEF updateOfficerWithdrawalRequest, savingsVars, SavingsTypeOK
<1>3. ASSUME NEW role \in DecidingRoles, approveWithdrawalRequestByID(r, role)
      PROVE  WithdrawalsTypeOK'
    <2> DEFINE stage == approvalStageForOfficer(role)
               next == nextWithdrawalApprovalStage(stage)
    <2>1. stage \in Stages /\ next \in Stages \cup {NoStage}
        BY StageTypes
    <2>2. withdrawals' \in [WithdrawalIds -> WithdrawalRows]
        <3>1. next # NoStage => Advanced(withdrawals[r], next) \in WithdrawalRows
            BY <2>1, RowTypes
        <3>2. Approved(withdrawals[r]) \in WithdrawalRows
            BY RowTypes
        <3>3. \E row \in WithdrawalRows :
                  withdrawals' = [withdrawals EXCEPT ![r] = row]
            BY <1>3, <3>1, <3>2 DEF approveWithdrawalRequestByID
        <3>4. QED
            BY <3>3
    <2>3. withdrawalApprovals' \in [WithdrawalIds -> Histories]
        BY <1>3, <2>1, DecidedType DEF approveWithdrawalRequestByID
    <2>4. withdrawalNotices' \in [WithdrawalIds -> SUBSET Audiences]
        <3>1. CASE next # NoStage /\ Notified(r, {next})
            BY <2>1, <3>1, NotifiedType DEF Audiences
        <3>2. CASE Notified(r, {"member", "bendahara"})
            BY <3>2, NotifiedType DEF Audiences
        <3>3. QED
            BY <1>3, <3>1, <3>2 DEF approveWithdrawalRequestByID
    <2>5. QED
        BY <1>3, <2>2, <2>3, <2>4 DEF approveWithdrawalRequestByID, savingsVars, SavingsTypeOK
<1>4. ASSUME NEW role \in DecidingRoles, rejectWithdrawalRequestByID(r, role)
      PROVE  WithdrawalsTypeOK'
    <2>1. withdrawalApprovals' \in [WithdrawalIds -> Histories]
        BY <1>4, StageTypes, DecidedType DEF rejectWithdrawalRequestByID
    <2>2. GivenUp(r, Rejected(withdrawals[r]), {"member"})
        BY <1>4 DEF rejectWithdrawalRequestByID
    <2>3. QED
        BY <1>4, <2>1, <2>2, GivenUpType, RowTypes
        DEF rejectWithdrawalRequestByID, savingsVars, SavingsTypeOK, Audiences
<1>5. ASSUME NEW m \in Members, cancelWithdrawalRequestByID(r, m)
      PROVE  WithdrawalsTypeOK'
    BY <1>5, GivenUpType, RowTypes
    DEF cancelWithdrawalRequestByID, savingsVars, SavingsTypeOK
<1>6. ASSUME NEW s \in SavingIds, disburseWithdrawalRequestByID(r, s)
      PROVE  WithdrawalsTypeOK'
    <2>1. savings' \in [SavingIds -> SavingRows]
        BY <1>6, SavingsAssumption DEF disburseWithdrawalRequestByID, SavingRows, WithdrawalRows
    <2>2. withdrawals' \in [WithdrawalIds -> WithdrawalRows]
        BY <1>6, RowTypes DEF disburseWithdrawalRequestByID
    <2>3. reservations' \in [WithdrawalIds -> ReservationRows]
        BY <1>6, ReservationTypes DEF disburseWithdrawalRequestByID
    <2>4. QED
        BY <1>6, <2>1, <2>2, <2>3 DEF disburseWithdrawalRequestByID, SavingsTypeOK
<1>7. ASSUME approveWithdrawalRequestBySuperAdmin(r) \/ rejectWithdrawalRequestBySuperAdmin(r)
      PROVE  WithdrawalsTypeOK'
    <2>1. withdrawalOverrides' \in [WithdrawalIds -> Stages \cup {NoStage}]
        BY <1>7 DEF approveWithdrawalRequestBySuperAdmin, rejectWithdrawalRequestBySuperAdmin,
                    Overridden, WithdrawalRows
    <2>2. CASE approveWithdrawalRequestBySuperAdmin(r)
        BY <2>1, <2>2, RowTypes, NotifiedType
        DEF approveWithdrawalRequestBySuperAdmin, savingsVars, SavingsTypeOK, Audiences
    <2>3. CASE rejectWithdrawalRequestBySuperAdmin(r)
        BY <2>1, <2>3, RowTypes, GivenUpType
        DEF rejectWithdrawalRequestBySuperAdmin, savingsVars, SavingsTypeOK, Audiences
    <2>4. QED
        BY <1>7, <2>2, <2>3
<1>8. QED
    BY <1>1, <1>2, <1>3, <1>4, <1>5, <1>6, <1>7 DEF RequestStep

LEMMA NextTypeOK == WithdrawalsTypeOK /\ [WithdrawalsNext]_withdrawalsVars => WithdrawalsTypeOK'
<1> SUFFICES ASSUME WithdrawalsTypeOK, [WithdrawalsNext]_withdrawalsVars
             PROVE  WithdrawalsTypeOK'
    OBVIOUS
<1>1. CASE SavingsStep
    BY <1>1, SavingsStepTypeOK
<1>2. CASE \E r \in WithdrawalIds : RequestStep(r)
    BY <1>2, RequestStepTypeOK
<1>3. CASE UNCHANGED withdrawalsVars
    BY <1>3 DEF WithdrawalsTypeOK, SavingsTypeOK, withdrawalsVars, savingsVars, requestVars
<1>4. QED
    BY <1>1, <1>2, <1>3 DEF WithdrawalsNext

(***************************************************************************)
(* Every reachable state of the savings and withdrawal tables is           *)
(* well-typed.                                                             *)
(***************************************************************************)
THEOREM TypeCorrectness == WithdrawalsSpec => []WithdrawalsTypeOK
<1>1. QED
    BY InitTypeOK, NextTypeOK, PTL DEF WithdrawalsSpec

-----------------------------------------------------------------------------
(***************************************************************************)
(* The invariants are inductive together: WithdrawalsInvariant.  A handler *)
(* writes one request, so most of the argument is about a single row of    *)
(* each table (RequestOK) and the rest about how saving rows and requests  *)
(* point at each other (PaidOnce, PayoutsHaveRequests).                    *)
(***************************************************************************)
RequestOK(w, v, history, override, notices) ==
    /\ v = [status |-> ReservationFor(w), amount |-> w.amount]
    /\ ChainOf(w, history, override)
    /\ w.status # "pending" => w.stage = NoStage
    /\ w.status # "none" => w.member \in Members
    /\ notices = NoticesFor(w)
    /\ w.disbursed => w.status = "approved"
    /\ ~w.disbursed => w.saving = NoSavingRecord

RequestsOK ==
    \A r \in WithdrawalIds :
        RequestOK(withdrawals[r], reservations[r], withdrawalApprovals[r],
                  withdrawalOverrides[r], withdrawalNotices[r])

WithdrawalsInvariant ==
    /\ WithdrawalsTypeOK
    /\ RequestsOK
    /\ PaidOnce
    /\ PayoutsHaveRequests

-----------------------------------------------------------------------------
(***************************************************************************)
(* How one decision extends a history.                                     *)
(***************************************************************************)
LEMMA StageFacts ==
    /\ WaitingStages \subseteq Stages
    /\ NoStage \notin Stages
    /\ nextWithdrawalApprovalStage("manager") = "ketua_ii"
    /\ nextWithdrawalApprovalStage("ketua_ii") = "ketua_i"
    /\ nextWithdrawalApprovalStage("ketua_i") = NoStage
BY DEF WaitingStages, Stages, NoStage, nextWithdrawalApprovalStage

LEMMA ApprovalExtends ==
    ASSUME NEW stage \in WaitingStages
    PROVE  insertApprovalDecision(ApprovedBefore(stage), stage, "approved")
               = ApprovedBefore(nextWithdrawalApprovalStage(stage))
<1>1. CASE stage = "manager"
    BY <1>1 DEF Stages, NoStage, nextWithdrawalApprovalStage,
                insertApprovalDecision, ApprovedBefore, StagesBefore
<1>2. CASE stage = "ketua_ii"
    BY <1>2 DEF Stages, NoStage, nextWithdrawalApprovalStage,
                insertApprovalDecision, ApprovedBefore, StagesBefore
<1>3. CASE stage = "ketua_i"
    BY <1>3 DEF Stages, NoStage, nextWithdrawalApprovalStage,
                insertApprovalDecision, ApprovedBefore, StagesBefore
<1>4. QED
    BY <1>1, <1>2, <1>3 DEF WaitingStages

LEMMA NothingDecided == ApprovedBefore("manager") = EmptyHistory
BY DEF ApprovedBefore, StagesBefore, EmptyHistory

-----------------------------------------------------------------------------
(***************************************************************************)
(* Each row operator, with what happens to the other tables, keeps a       *)
(* request in order.                                                       *)
(***************************************************************************)
LEMMA ResizedOK ==
    ASSUME NEW w \in WithdrawalRows, NEW v \in ReservationRows, NEW history,
           NEW override, NEW notices, NEW amount,
           RequestOK(w, v, history, override, notices), w.status = "pending"
    PROVE  RequestOK(Resized(w, amount), Resized(v, amount), history, override, notices)
<1>1. Resized(v, amount) = [status |-> v.status, amount |-> amount]
    BY ReservationShapes
<1> DEFINE row == Resized(w, amount)
<1>2. /\ row.status = "pending" /\ row.stage = w.stage /\ row.member = w.member
      /\ row.amount = amount /\ row.reviewed = w.reviewed
      /\ row.disbursed = w.disbursed /\ row.saving = w.saving
    BY ResizedFields
<1> HIDE DEF row
<1>3. v.status = "active"
    BY DEF RequestOK, ReservationFor
<1>4. ChainOf(row, history, override)
    BY <1>2 DEF RequestOK, ChainOf
<1>5. RequestOK(row, [status |-> "active", amount |-> amount], history, override, notices)
    BY <1>2, <1>4 DEF RequestOK, ReservationFor, NoticesFor
<1>6. QED
    BY <1>1, <1>3, <1>5 DEF row

LEMMA AdvancedOK ==
    ASSUME NEW w \in WithdrawalRows, NEW v, NEW history, NEW override, NEW notices,
           RequestOK(w, v, history, override, notices), w.status = "pending",
           nextWithdrawalApprovalStage(w.stage) # NoStage
    PROVE  RequestOK(Advanced(w, nextWithdrawalApprovalStage(w.stage)), v,
                     insertApprovalDecision(history, w.stage, "approved"), override,
                     {nextWithdrawalApprovalStage(w.stage)})
<1> DEFINE next == nextWithdrawalApprovalStage(w.stage)
           row  == Advanced(w, next)
<1>1. w.stage \in WaitingStages /\ history = ApprovedBefore(w.stage)
      /\ override = NoStage /\ ~w.reviewed
    BY DEF RequestOK, ChainOf
<1>2. next \in WaitingStages
    BY <1>1, StageFacts DEF WaitingStages
<1>3. insertApprovalDecision(history, w.stage, "approved") = ApprovedBefore(next)
    BY <1>1, ApprovalExtends
<1>4. /\ row.status = "pending" /\ row.stage = next /\ row.member = w.member
      /\ row.amount = w.amount /\ row.reviewed = w.reviewed
      /\ row.disbursed = w.disbursed /\ row.saving = w.saving
    BY AdvancedFields
<1> HIDE DEF next, row
<1>5. ChainOf(row, ApprovedBefore(next), override)
    BY <1>1, <1>2, <1>4 DEF ChainOf
<1>6. QED
    BY <1>3, <1>4, <1>5 DEF RequestOK, ReservationFor, NoticesFor, next, row

LEMMA ApprovedOK ==
    ASSUME NEW w \in WithdrawalRows, NEW v, NEW history, NEW override, NEW notices,
           NEW decisions, NEW stage,
           RequestOK(w, v, history, override, notices), w.status = "pending",
           FullyApproved(decisions, stage)
    PROVE  RequestOK(Approved(w), v, decisions, stage, {"member", "bendahara"})
<1>1. ChainOf(Approved(w), decisions, stage)
    BY ApprovedFields DEF ChainOf
<1>2. QED
    BY <1>1, ApprovedFields DEF RequestOK, ReservationFor, NoticesFor

LEMMA RejectedOK ==
    ASSUME NEW w \in WithdrawalRows, NEW v \in ReservationRows, NEW history,
           NEW override, NEW notices, NEW decisions, NEW stage,
           RequestOK(w, v, history, override, notices), w.status = "pending",
           TurnedDown(decisions, stage)
    PROVE  RequestOK(Rejected(w), Settled(v, "released"), decisions, stage, {"member"})
<1>1. ChainOf(Rejected(w), decisions, stage)
    BY RejectedFields DEF ChainOf
<1>2. Settled(v, "released") = [status |-> "released", amount |-> w.amount]
    BY ReservationShapes DEF RequestOK, ReservationFor
<1>3. QED
    BY <1>1, <1>2, RejectedFields DEF RequestOK, ReservationFor, NoticesFor

\* May still be cancelled, as by the deactivation of the member.
Unpaid(w) ==
    \/ w.status = "pending"
    \/ w.status = "approved" /\ ~w.disbursed

LEMMA CancelledOK ==
    ASSUME NEW w \in WithdrawalRows, NEW v \in ReservationRows, NEW history,
           NEW override, NEW notices,
           RequestOK(w, v, history, override, notices), Unpaid(w)
    PROVE  RequestOK(Cancelled(w), Settled(v, "released"), history, override, {})
<1>1. ~w.disbursed /\ w.status \in {"pending", "approved"}
    BY DEF RequestOK, Unpaid
<1>2. ChainOf(Cancelled(w), history, override)
    BY <1>1, CancelledFields DEF RequestOK, ChainOf
<1>3. v = [status |-> "active", amount |-> w.amount]
    BY <1>1 DEF RequestOK, ReservationFor
<1>4. Settled(v, "released") = [status |-> "released", amount |-> w.amount]
    BY <1>3, ReservationShapes
<1>5. QED
    BY <1>1, <1>2, <1>4, CancelledFields DEF RequestOK, ReservationFor, NoticesFor

LEMMA DisbursedOK ==
    ASSUME NEW w \in WithdrawalRows, NEW v \in ReservationRows, NEW history,
           NEW override, NEW notices, NEW s \in SavingIds,
           RequestOK(w, v, history, override, notices),
           w.status = "approved", ~w.disbursed
    PROVE  RequestOK(Disbursed(w, s), Settled(v, "consumed"), history, override, notices)
<1>1. ChainOf(Disbursed(w, s), history, override)
    BY DisbursedFields, ZenonT(60) DEF RequestOK, ChainOf
<1>2. Settled(v, "consumed") = [status |-> "consumed", amount |-> w.amount]
    BY ReservationShapes DEF RequestOK, ReservationFor
<1>3. QED
    BY <1>1, <1>2, DisbursedFields, ZenonT(60) DEF RequestOK, ReservationFor, NoticesFor

-----------------------------------------------------------------------------
(***************************************************************************)
(* One step of a request: the other requests keep their rows, and this one *)
(* stays in order.                                                         *)
(***************************************************************************)
LEMMA NotifiedKeeps ==
    ASSUME WithdrawalsTypeOK, NEW r \in WithdrawalIds, NEW audiences,
           Notified(r, audiences)
    PROVE  /\ withdrawalNotices'[r] = audiences
           /\ \A q \in WithdrawalIds \ {r} : withdrawalNotices'[q] = withdrawalNotices[q]
BY DEF WithdrawalsTypeOK, Notified, createNotifications, resolveRequestNotifications

LEMMA DecidedKeeps ==
    ASSUME WithdrawalsTypeOK, NEW r \in WithdrawalIds, NEW stage, NEW decision,
           Decided(r, stage, decision)
    PROVE  /\ withdrawalApprovals'[r]
                  = insertApprovalDecision(withdrawalApprovals[r], stage, decision)
           /\ \A q \in WithdrawalIds \ {r} :
                  withdrawalApprovals'[q] = withdrawalApprovals[q]
BY DEF WithdrawalsTypeOK, Decided

LEMMA GivenUpKeeps ==
    ASSUME WithdrawalsTypeOK, NEW r \in WithdrawalIds, NEW row, NEW audiences,
           GivenUp(r, row, audiences)
    PROVE  /\ withdrawals'[r] = row
           /\ reservations'[r] = Settled(reservations[r], "released")
           /\ withdrawalNotices'[r] = audiences
           /\ \A q \in WithdrawalIds \ {r} :
                  /\ withdrawals'[q] = withdrawals[q]
                  /\ reservations'[q] = reservations[q]
                  /\ withdrawalNotices'[q] = withdrawalNotices[q]
BY NotifiedKeeps DEF WithdrawalsTypeOK, GivenUp

LEMMA OverriddenKeeps ==
    ASSUME WithdrawalsTypeOK, NEW r \in WithdrawalIds, Overridden(r)
    PROVE  /\ withdrawalOverrides'[r] = withdrawals[r].stage
           /\ \A q \in WithdrawalIds \ {r} :
                  withdrawalOverrides'[q] = withdrawalOverrides[q]
BY DEF WithdrawalsTypeOK, Overridden

\* The rows of request q are the ones they were.
Kept(q) ==
    /\ withdrawals'[q] = withdrawals[q]
    /\ reservations'[q] = reservations[q]
    /\ withdrawalApprovals'[q] = withdrawalApprovals[q]
    /\ withdrawalOverrides'[q] = withdrawalOverrides[q]
    /\ withdrawalNotices'[q] = withdrawalNotices[q]

InOrder(r) ==
    RequestOK(withdrawals[r], reservations[r], withdrawalApprovals[r],
              withdrawalOverrides[r], withdrawalNotices[r])

LEMMA RequestStepKeepsOthers ==
    ASSUME WithdrawalsTypeOK, NEW r \in WithdrawalIds, RequestStep(r),
           NEW q \in WithdrawalIds, q # r
    PROVE  Kept(q)
<1> USE DEF WithdrawalsTypeOK, Kept
<1>1. ASSUME NEW m \in Members, NEW amount \in WithdrawalAmounts,
             NEW source \in {"member", "officer"},
             insertWithdrawalRequestAs(r, m, amount, source)
      PROVE  Kept(q)
    BY <1>1 DEF insertWithdrawalRequestAs
<1>2. ASSUME NEW amount \in WithdrawalAmounts, updateOfficerWithdrawalRequest(r, amount)
      PROVE  Kept(q)
    BY <1>2 DEF updateOfficerWithdrawalRequest
<1>3. ASSUME NEW role \in DecidingRoles, approveWithdrawalRequestByID(r, role)
      PROVE  Kept(q)
    BY <1>3, NotifiedKeeps, DecidedKeeps DEF approveWithdrawalRequestByID
<1>4. ASSUME NEW role \in DecidingRoles, rejectWithdrawalRequestByID(r, role)
      PROVE  Kept(q)
    BY <1>4, GivenUpKeeps, DecidedKeeps DEF rejectWithdrawalRequestByID
<1>5. ASSUME NEW m \in Members, cancelWithdrawalRequestByID(r, m)
      PROVE  Kept(q)
    BY <1>5, GivenUpKeeps DEF cancelWithdrawalRequestByID
<1>6. ASSUME NEW s \in SavingIds, disburseWithdrawalRequestByID(r, s)
      PROVE  Kept(q)
    BY <1>6 DEF disburseWithdrawalRequestByID
<1>7. CASE approveWithdrawalRequestBySuperAdmin(r)
    BY <1>7, NotifiedKeeps, OverriddenKeeps DEF approveWithdrawalRequestBySuperAdmin
<1>8. CASE rejectWithdrawalRequestBySuperAdmin(r)
    BY <1>8, GivenUpKeeps, OverriddenKeeps DEF rejectWithdrawalRequestBySuperAdmin
<1>9. QED
    BY <1>1, <1>2, <1>3, <1>4, <1>5, <1>6, <1>7, <1>8 DEF RequestStep

\* Every step but the disbursement: the request has not been paid and is not now.
LEMMA DecisionKeepsOrder ==
    ASSUME WithdrawalsTypeOK, NEW r \in WithdrawalIds, RequestStep(r), InOrder(r),
           \A s \in SavingIds : ~disburseWithdrawalRequestByID(r, s)
    PROVE  InOrder(r)' /\ ~withdrawals[r].disbursed /\ ~withdrawals'[r].disbursed
           /\ UNCHANGED savings
<1> DEFINE w == withdrawals[r]
           v == reservations[r]
           history == withdrawalApprovals[r]
           override == withdrawalOverrides[r]
           notices == withdrawalNotices[r]
           Goal == InOrder(r)' /\ ~w.disbursed /\ ~withdrawals'[r].disbursed
                   /\ UNCHANGED savings
<1> w \in WithdrawalRows /\ v \in ReservationRows
    BY DEF WithdrawalsTypeOK
<1>0. RequestOK(w, v, history, override, notices)
    BY DEF InOrder
<1>open. w.status = "pending" =>
             /\ ~w.disbursed /\ override = NoStage /\ w.stage \in WaitingStages
             /\ history = ApprovedBefore(w.stage)
    BY <1>0 DEF RequestOK, ChainOf
<1>1. ASSUME NEW m \in Members, NEW amount \in WithdrawalAmounts,
             NEW source \in {"member", "officer"},
             insertWithdrawalRequestAs(r, m, amount, source)
      PROVE  Goal
    <2>1. w.status = "none" /\ ~w.disbursed /\ history = EmptyHistory
          /\ override = NoStage /\ notices = {}
        BY <1>0, <1>1 DEF insertWithdrawalRequestAs, RequestOK, ChainOf, NoticesFor
    <2> DEFINE row == [status |-> "pending", stage |-> "manager", member |-> m,
                       source |-> source, amount |-> amount, reviewed |-> FALSE,
                       disbursed |-> FALSE, saving |-> NoSavingRecord]
    <2>2. /\ withdrawals'[r] = row
          /\ reservations'[r] = [status |-> "active", amount |-> amount]
          /\ withdrawalNotices'[r] = {"manager"}
          /\ UNCHANGED <<savings, withdrawalApprovals, withdrawalOverrides>>
        BY <1>1, <2>1
        DEF WithdrawalsTypeOK, insertWithdrawalRequestAs, createNotifications, savingsVars
    <2>3. ChainOf(row, EmptyHistory, NoStage)
        BY NothingDecided DEF ChainOf, WaitingStages
    <2>4. RequestOK(row, [status |-> "active", amount |-> amount], EmptyHistory,
                    NoStage, {"manager"})
        BY <2>3 DEF RequestOK, ReservationFor, NoticesFor
    <2>5. InOrder(r)'
        BY <2>1, <2>2, <2>4 DEF InOrder
    <2>6. QED
        BY <2>1, <2>2, <2>5
<1>2. ASSUME NEW amount \in WithdrawalAmounts, updateOfficerWithdrawalRequest(r, amount)
      PROVE  Goal
    <2>1. w.status = "pending"
        BY <1>2 DEF updateOfficerWithdrawalRequest, Editable
    <2>2. v.status = "active"
        BY <1>0, <2>1 DEF RequestOK, ReservationFor
    <2>3. /\ withdrawals'[r] = Resized(w, amount)
          /\ reservations'[r] = Resized(v, amount)
          /\ UNCHANGED <<savings, withdrawalApprovals, withdrawalOverrides,
                         withdrawalNotices>>
        BY <1>2, <2>2 DEF WithdrawalsTypeOK, updateOfficerWithdrawalRequest, savingsVars
    <2>4. InOrder(r)'
        BY <1>0, <2>1, <2>3, ResizedOK DEF InOrder
    <2>5. QED
        BY <1>open, <2>1, <2>3, <2>4, ResizedFields
<1>3. ASSUME NEW role \in DecidingRoles, approveWithdrawalRequestByID(r, role)
      PROVE  Goal
    <2> DEFINE next == nextWithdrawalApprovalStage(w.stage)
    <2>1. w.status = "pending" /\ w.stage = approvalStageForOfficer(role)
        BY <1>3 DEF approveWithdrawalRequestByID, WaitsFor
    <2>2. withdrawalApprovals'[r] = insertApprovalDecision(history, w.stage, "approved")
        BY <1>3, <2>1, DecidedKeeps DEF approveWithdrawalRequestByID
    <2>3. UNCHANGED <<savings, reservations, withdrawalOverrides>>
        BY <1>3 DEF approveWithdrawalRequestByID, savingsVars
    <2>4. CASE next # NoStage
        <3>0. /\ withdrawals' = [withdrawals EXCEPT ![r] = Advanced(w, next)]
              /\ Notified(r, {next})
            BY <1>3, <2>1, <2>4 DEF approveWithdrawalRequestByID
        <3>1. /\ withdrawals'[r] = Advanced(w, next)
              /\ withdrawalNotices'[r] = {next}
            BY <3>0, NotifiedKeeps DEF WithdrawalsTypeOK
        <3>a. RequestOK(Advanced(w, next), v,
                        insertApprovalDecision(history, w.stage, "approved"),
                        override, {next})
            BY <1>0, <2>1, <2>4, AdvancedOK
        <3>2. InOrder(r)'
            BY <2>2, <2>3, <3>1, <3>a DEF InOrder
        <3>3. QED
            BY <1>open, <2>1, <2>3, <3>1, <3>2, AdvancedFields
    <2>5. CASE next = NoStage
        <3>1. /\ withdrawals'[r] = Approved(w)
              /\ withdrawalNotices'[r] = {"member", "bendahara"}
            BY <1>3, <2>1, <2>5, NotifiedKeeps
            DEF WithdrawalsTypeOK, approveWithdrawalRequestByID
        <3>2. FullyApproved(insertApprovalDecision(history, w.stage, "approved"), override)
            BY <1>open, <2>1, <2>5, ApprovalExtends DEF FullyApproved
        <3>3. InOrder(r)'
            BY <1>0, <2>1, <2>2, <2>3, <3>1, <3>2, ApprovedOK DEF InOrder
        <3>4. QED
            BY <1>open, <2>1, <2>3, <3>1, <3>3, ApprovedFields
    <2>6. QED
        BY <2>4, <2>5
<1>4. ASSUME NEW role \in DecidingRoles, rejectWithdrawalRequestByID(r, role)
      PROVE  Goal
    <2>1. w.status = "pending" /\ w.stage = approvalStageForOfficer(role)
        BY <1>4 DEF rejectWithdrawalRequestByID, WaitsFor
    <2>2. withdrawalApprovals'[r] = insertApprovalDecision(history, w.stage, "rejected")
        BY <1>4, <2>1, DecidedKeeps DEF rejectWithdrawalRequestByID
    <2>3. GivenUp(r, Rejected(w), {"member"}) /\ UNCHANGED <<savings, withdrawalOverrides>>
        BY <1>4 DEF rejectWithdrawalRequestByID, savingsVars
    <2>4. /\ withdrawals'[r] = Rejected(w)
          /\ reservations'[r] = Settled(v, "released")
          /\ withdrawalNotices'[r] = {"member"}
        BY <2>3, GivenUpKeeps
    <2>5. TurnedDown(insertApprovalDecision(history, w.stage, "rejected"), override)
        BY <1>open, <2>1 DEF TurnedDown
    <2>6. InOrder(r)'
        BY <1>0, <2>1, <2>2, <2>3, <2>4, <2>5, RejectedOK DEF InOrder
    <2>7. QED
        BY <1>open, <2>1, <2>3, <2>4, <2>6, RejectedFields
<1>5. ASSUME NEW m \in Members, cancelWithdrawalRequestByID(r, m)
      PROVE  Goal
    <2>1. w.status = "pending"
        BY <1>5 DEF cancelWithdrawalRequestByID
    <2>2. /\ withdrawals'[r] = Cancelled(w)
          /\ reservations'[r] = Settled(v, "released")
          /\ withdrawalNotices'[r] = {}
          /\ UNCHANGED <<savings, withdrawalApprovals, withdrawalOverrides>>
        BY <1>5, GivenUpKeeps DEF cancelWithdrawalRequestByID, savingsVars
    <2>3. Unpaid(w)
        BY <2>1 DEF Unpaid
    <2>4. RequestOK(Cancelled(w), Settled(v, "released"), history, override, {})
        BY <1>0, <2>3, CancelledOK
    <2>5. InOrder(r)'
        BY <2>2, <2>4 DEF InOrder
    <2>6. QED
        BY <1>open, <2>1, <2>2, <2>5, CancelledFields
<1>6. CASE approveWithdrawalRequestBySuperAdmin(r)
    <2>1. w.status = "pending"
        BY <1>6 DEF approveWithdrawalRequestBySuperAdmin, MayOverride
    <2>2. /\ withdrawals'[r] = Approved(w)
          /\ withdrawalOverrides'[r] = w.stage
          /\ withdrawalNotices'[r] = {"member", "bendahara"}
          /\ UNCHANGED <<savings, reservations, withdrawalApprovals>>
        BY <1>6, NotifiedKeeps, OverriddenKeeps
        DEF WithdrawalsTypeOK, approveWithdrawalRequestBySuperAdmin, savingsVars
    <2>3. FullyApproved(history, w.stage)
        BY <1>open, <2>1 DEF FullyApproved, OverriddenAt
    <2>4. InOrder(r)'
        BY <1>0, <2>1, <2>2, <2>3, ApprovedOK DEF InOrder
    <2>5. QED
        BY <1>open, <2>1, <2>2, <2>4, ApprovedFields
<1>7. CASE rejectWithdrawalRequestBySuperAdmin(r)
    <2>1. w.status = "pending"
        BY <1>7 DEF rejectWithdrawalRequestBySuperAdmin, MayOverride
    <2>2. /\ withdrawals'[r] = Rejected(w)
          /\ reservations'[r] = Settled(v, "released")
          /\ withdrawalOverrides'[r] = w.stage
          /\ withdrawalNotices'[r] = {"member"}
          /\ UNCHANGED <<savings, withdrawalApprovals>>
        BY <1>7, GivenUpKeeps, OverriddenKeeps
        DEF rejectWithdrawalRequestBySuperAdmin, savingsVars
    <2>3. TurnedDown(history, w.stage)
        BY <1>open, <2>1 DEF TurnedDown, OverriddenAt
    <2>4. InOrder(r)'
        BY <1>0, <2>1, <2>2, <2>3, RejectedOK DEF InOrder
    <2>5. QED
        BY <1>open, <2>1, <2>2, <2>4, RejectedFields
<1>8. QED
    BY <1>1, <1>2, <1>3, <1>4, <1>5, <1>6, <1>7 DEF RequestStep

LEMMA DisbursementKeepsOrder ==
    ASSUME WithdrawalsTypeOK, NEW r \in WithdrawalIds, InOrder(r),
           NEW s \in SavingIds, disburseWithdrawalRequestByID(r, s)
    PROVE  InOrder(r)'
<1> DEFINE w == withdrawals[r]
           v == reservations[r]
<1> w \in WithdrawalRows /\ v \in ReservationRows
    BY DEF WithdrawalsTypeOK
<1>1. w.status = "approved" /\ ~w.disbursed
    BY DEF disburseWithdrawalRequestByID, ReadyForDisbursement
<1>2. /\ withdrawals'[r] = Disbursed(w, s)
      /\ reservations'[r] = Settled(v, "consumed")
      /\ UNCHANGED <<withdrawalApprovals, withdrawalOverrides, withdrawalNotices>>
    BY DEF WithdrawalsTypeOK, disburseWithdrawalRequestByID
<1>3. RequestOK(Disbursed(w, s), Settled(v, "consumed"), withdrawalApprovals[r],
                withdrawalOverrides[r], withdrawalNotices[r])
    BY <1>1, DisbursedOK DEF InOrder
<1>4. QED
    BY <1>2, <1>3 DEF InOrder

LEMMA RequestStepKeepsOrder ==
    ASSUME WithdrawalsTypeOK, RequestsOK, NEW r \in WithdrawalIds, RequestStep(r)
    PROVE  RequestsOK'
<1>1. \A q \in WithdrawalIds : InOrder(q)
    BY DEF RequestsOK, InOrder
<1>2. ASSUME NEW q \in WithdrawalIds, q # r PROVE InOrder(q)'
    BY <1>1, <1>2, RequestStepKeepsOthers DEF InOrder, Kept
<1>3. InOrder(r)'
    <2>1. CASE \E s \in SavingIds : disburseWithdrawalRequestByID(r, s)
        BY <1>1, <2>1, DisbursementKeepsOrder
    <2>2. CASE \A s \in SavingIds : ~disburseWithdrawalRequestByID(r, s)
        BY <1>1, <2>2, DecisionKeepsOrder
    <2>3. QED
        BY <2>1, <2>2
<1>4. \A q \in WithdrawalIds : InOrder(q)'
    BY <1>2, <1>3
<1>5. QED
    BY <1>4 DEF RequestsOK, InOrder

-----------------------------------------------------------------------------
(***************************************************************************)
(* The payments: which rows requests point at, and which requests rows     *)
(* belong to.                                                              *)
(***************************************************************************)
LEMMA DecisionKeepsPayments ==
    ASSUME WithdrawalsTypeOK, RequestsOK, PaidOnce,
           NEW r \in WithdrawalIds, RequestStep(r),
           \A s \in SavingIds : ~disburseWithdrawalRequestByID(r, s), RequestsOK'
    PROVE  /\ PaidOnce'
           /\ PayoutsHaveRequests => PayoutsHaveRequests'
           /\ UNCHANGED savings
           /\ \A q \in WithdrawalIds :
                  /\ withdrawals'[q].disbursed = withdrawals[q].disbursed
                  /\ withdrawals'[q].saving = withdrawals[q].saving
<1>1. /\ ~withdrawals[r].disbursed /\ ~withdrawals'[r].disbursed
      /\ UNCHANGED savings
    <2>1. InOrder(r)
        BY DEF RequestsOK, InOrder
    <2>2. QED
        BY <2>1, DecisionKeepsOrder
<1>2. withdrawals'[r].saving = NoSavingRecord
    BY <1>1 DEF RequestsOK, RequestOK
<1>3. \A q \in WithdrawalIds : q # r => withdrawals'[q] = withdrawals[q]
    BY RequestStepKeepsOthers DEF Kept
<1>4. PaidOnce'
    BY <1>1, <1>2, <1>3, WithdrawalsAssumption, ZenonT(60) DEF PaidOnce
<1>5. PayoutsHaveRequests => PayoutsHaveRequests'
    BY <1>1, <1>3 DEF PayoutsHaveRequests
<1>6. withdrawals[r].saving = NoSavingRecord
    BY <1>1 DEF PaidOnce
<1>7. /\ withdrawals[r].disbursed \in BOOLEAN /\ withdrawals'[r].disbursed \in BOOLEAN
      /\ withdrawals'[r].disbursed = withdrawals[r].disbursed
    <2>1. withdrawals[r] \in WithdrawalRows /\ withdrawals'[r] \in WithdrawalRows
        BY RequestStepTypeOK DEF WithdrawalsTypeOK
    <2>2. QED
        BY <1>1, <2>1 DEF WithdrawalRows
<1>8. QED
    BY <1>1, <1>2, <1>3, <1>4, <1>5, <1>6, <1>7

LEMMA DisbursementKeepsPayments ==
    ASSUME WithdrawalsTypeOK, PaidOnce,
           NEW r \in WithdrawalIds, NEW s \in SavingIds,
           disburseWithdrawalRequestByID(r, s)
    PROVE  PaidOnce' /\ (PayoutsHaveRequests => PayoutsHaveRequests')
<1> DEFINE w == withdrawals[r]
           payment == [type |-> "withdrawal", member |-> w.member,
                       category |-> "sukarela", amount |-> w.amount]
<1>1. w \in WithdrawalRows /\ w.status = "approved" /\ ~w.disbursed
    BY DEF WithdrawalsTypeOK, disburseWithdrawalRequestByID, ReadyForDisbursement
<1>2. savings[s].type = "none"
    BY DEF disburseWithdrawalRequestByID
<1>3. /\ savings'[s] = payment
      /\ \A t \in SavingIds \ {s} : savings'[t] = savings[t]
    BY DEF WithdrawalsTypeOK, SavingsTypeOK, disburseWithdrawalRequestByID
<1>4. /\ withdrawals'[r] = Disbursed(w, s)
      /\ \A q \in WithdrawalIds \ {r} : withdrawals'[q] = withdrawals[q]
    BY DEF WithdrawalsTypeOK, disburseWithdrawalRequestByID
<1>5. /\ withdrawals'[r].status = "approved" /\ withdrawals'[r].disbursed
      /\ withdrawals'[r].saving = s /\ withdrawals'[r].member = w.member
      /\ withdrawals'[r].amount = w.amount
    <2>1. w \in WithdrawalRows
        BY <1>1
    <2> HIDE DEF w
    <2>2. /\ Disbursed(w, s).status = w.status
          /\ Disbursed(w, s).disbursed
          /\ Disbursed(w, s).saving = s
          /\ Disbursed(w, s).member = w.member
          /\ Disbursed(w, s).amount = w.amount
        BY <2>1, DisbursedFields
    <2>3. withdrawals'[r] = Disbursed(w, s)
        BY <1>4
    <2>4. QED
        BY <1>1, <2>2, <2>3
<1>6. ASSUME NEW q \in WithdrawalIds, q # r, withdrawals[q].disbursed
      PROVE  withdrawals[q].saving \in SavingIds \ {s}
    <2>1. withdrawals[q].saving \in SavingIds
        BY <1>6 DEF PaidOnce
    <2>2. savings[withdrawals[q].saving] =
              [type |-> "withdrawal", member |-> withdrawals[q].member,
               category |-> "sukarela", amount |-> withdrawals[q].amount]
        BY <1>6 DEF PaidOnce
    <2>3. QED
        BY <1>2, <2>1, <2>2
<1>7. ASSUME NEW q \in WithdrawalIds
      PROVE  LET x == withdrawals'[q] IN
             IF x.disbursed
             THEN /\ x.status = "approved"
                  /\ x.saving \in SavingIds
                  /\ savings'[x.saving] = [type |-> "withdrawal", member |-> x.member,
                                           category |-> "sukarela", amount |-> x.amount]
             ELSE x.saving = NoSavingRecord
    <2>1. CASE q = r
        BY <1>3, <1>5, <2>1
    <2>2. CASE q # r
        BY <1>3, <1>4, <1>6, <2>2 DEF PaidOnce
    <2>3. QED
        BY <2>1, <2>2
<1>8. ASSUME NEW p \in WithdrawalIds, NEW q \in WithdrawalIds,
             withdrawals'[p].disbursed, withdrawals'[p].saving = withdrawals'[q].saving
      PROVE  p = q
    <2>1. CASE p # r /\ q # r
        BY <1>4, <1>8, <2>1 DEF PaidOnce
    <2>2. CASE p # r /\ q = r
        BY <1>4, <1>5, <1>6, <1>8, <2>2, ZenonT(60)
    <2>3. CASE p = r /\ q # r
        BY <1>4, <1>5, <1>6, <1>8, <2>3, WithdrawalsAssumption, ZenonT(60) DEF PaidOnce
    <2>4. QED
        BY <2>1, <2>2, <2>3
<1>9. PaidOnce'
    BY <1>7, <1>8 DEF PaidOnce
<1>10. PayoutsHaveRequests => PayoutsHaveRequests'
    BY <1>1, <1>3, <1>4, <1>5 DEF PayoutsHaveRequests
<1>11. QED
    BY <1>9, <1>10

\* Withdrawal rows are neither written nor changed by the step.
PayoutsKept ==
    \A t \in SavingIds :
        "withdrawal" \in {savings[t].type, savings'[t].type} => savings'[t] = savings[t]

LEMMA SavingsStepKeepsPayouts ==
    ASSUME WithdrawalsTypeOK, SavingsStep
    PROVE  PayoutsKept
<1>1. savings \in [SavingIds -> SavingRows]
    BY DEF WithdrawalsTypeOK, SavingsTypeOK
<1>2. ASSUME NEW s \in SavingIds, NEW m \in Members, NEW c \in Categories,
             NEW amount \in DepositAmounts, insertSaving(s, m, c, amount)
      PROVE  PayoutsKept
    BY <1>1, <1>2 DEF insertSaving, PayoutsKept
<1>3. ASSUME NEW s \in SavingIds, NEW amount \in DepositAmounts,
             correctSavingByID(s, amount)
      PROVE  PayoutsKept
    <2>1. [savings[s] EXCEPT !.amount = amount].type = "deposit"
        BY <1>1, <1>3, SavingShapes DEF correctSavingByID
    <2>2. QED
        BY <1>1, <1>3, <2>1 DEF correctSavingByID, PayoutsKept
<1>4. ASSUME NEW s \in SavingIds, removeSavingByID(s)
      PROVE  PayoutsKept
    <2>1. [savings[s] EXCEPT !.type = "removed"].type = "removed"
        BY <1>1, SavingShapes
    <2>2. QED
        BY <1>1, <1>4, <2>1 DEF removeSavingByID, PayoutsKept
<1>5. QED
    BY <1>2, <1>3, <1>4 DEF SavingsStep

LEMMA SavingsStepKeepsInvariant ==
    ASSUME WithdrawalsInvariant, SavingsStep
    PROVE  WithdrawalsInvariant'
<1> USE DEF WithdrawalsInvariant
<1>1. UNCHANGED requestVars
    BY DEF SavingsStep
<1>2. RequestsOK'
    BY <1>1 DEF RequestsOK, requestVars
<1>3. PayoutsKept
    BY SavingsStepKeepsPayouts
<1>4. WithdrawalsTypeOK'
    BY SavingsStepTypeOK
<1>5. PaidOnce' /\ PayoutsHaveRequests'
    BY <1>1, <1>3 DEF PaidOnce, PayoutsHaveRequests, PayoutsKept, requestVars
<1>6. QED
    BY <1>2, <1>4, <1>5

-----------------------------------------------------------------------------
LEMMA InitInvariant == WithdrawalsInit => WithdrawalsInvariant
<1> SUFFICES ASSUME WithdrawalsInit PROVE WithdrawalsInvariant
    OBVIOUS
<1>1. RequestsOK
    <2>1. RequestOK(NoWithdrawal, NoReservation, EmptyHistory, NoStage, {})
        BY DEF RequestOK, ReservationFor, ChainOf, NoticesFor, NoWithdrawal, NoReservation
    <2>2. QED
        BY <2>1 DEF WithdrawalsInit, RequestsOK
<1>2. PaidOnce /\ PayoutsHaveRequests
    BY DEF WithdrawalsInit, SavingsInit, NoWithdrawal, NoSaving, PaidOnce, PayoutsHaveRequests
<1>3. QED
    BY <1>1, <1>2, InitTypeOK DEF WithdrawalsInvariant

LEMMA NextInvariant ==
    WithdrawalsInvariant /\ [WithdrawalsNext]_withdrawalsVars => WithdrawalsInvariant'
<1> SUFFICES ASSUME WithdrawalsInvariant, [WithdrawalsNext]_withdrawalsVars
             PROVE  WithdrawalsInvariant'
    OBVIOUS
<1>1. CASE SavingsStep
    BY <1>1, SavingsStepKeepsInvariant
<1>2. ASSUME NEW r \in WithdrawalIds, RequestStep(r) PROVE WithdrawalsInvariant'
    <2>1. WithdrawalsTypeOK' /\ RequestsOK'
        BY <1>2, RequestStepTypeOK, RequestStepKeepsOrder DEF WithdrawalsInvariant
    <2>2. PaidOnce' /\ PayoutsHaveRequests'
        <3>1. CASE \E s \in SavingIds : disburseWithdrawalRequestByID(r, s)
            BY <3>1, DisbursementKeepsPayments DEF WithdrawalsInvariant
        <3>2. CASE \A s \in SavingIds : ~disburseWithdrawalRequestByID(r, s)
            BY <1>2, <2>1, <3>2, DecisionKeepsPayments DEF WithdrawalsInvariant
        <3>3. QED
            BY <3>1, <3>2
    <2>3. QED
        BY <2>1, <2>2 DEF WithdrawalsInvariant
<1>3. CASE UNCHANGED withdrawalsVars
    BY <1>3 DEF withdrawalsVars, savingsVars, requestVars, WithdrawalsInvariant,
                WithdrawalsTypeOK, SavingsTypeOK, RequestsOK, PaidOnce, PayoutsHaveRequests
<1>4. QED
    BY <1>1, <1>2, <1>3 DEF WithdrawalsNext

(***************************************************************************)
(* The inductive invariant holds in every reachable state.                 *)
(***************************************************************************)
THEOREM InvariantHolds == WithdrawalsSpec => []WithdrawalsInvariant
<1>1. QED
    BY InitInvariant, NextInvariant, PTL DEF WithdrawalsSpec

(***************************************************************************)
(* disburseWithdrawalRequestByID pays a request once and in full, and no   *)
(* deposit correction or removal disturbs the row it wrote.                *)
(***************************************************************************)
THEOREM PaidOnceHolds == WithdrawalsSpec => []PaidOnce
<1>1. WithdrawalsInvariant => PaidOnce
    BY DEF WithdrawalsInvariant
<1>2. QED
    BY <1>1, InvariantHolds, PTL

(***************************************************************************)
(* No withdrawal row exists without the disbursement that wrote it.        *)
(***************************************************************************)
THEOREM PayoutsHaveRequestsHolds == WithdrawalsSpec => []PayoutsHaveRequests
<1>1. WithdrawalsInvariant => PayoutsHaveRequests
    BY DEF WithdrawalsInvariant
<1>2. QED
    BY <1>1, InvariantHolds, PTL

(***************************************************************************)
(* Reservation and request agree after every handler: money set aside is   *)
(* released or consumed exactly when the request ends.                     *)
(***************************************************************************)
THEOREM ReservationFollowsRequestHolds == WithdrawalsSpec => []ReservationFollowsRequest
<1>1. WithdrawalsInvariant => ReservationFollowsRequest
    BY DEF WithdrawalsInvariant, RequestsOK, RequestOK, ReservationFollowsRequest
<1>2. QED
    BY <1>1, InvariantHolds, PTL

(***************************************************************************)
(* No approval is skipped, repeated or taken out of turn.                  *)
(***************************************************************************)
THEOREM ApprovalChainHolds == WithdrawalsSpec => []ApprovalChain
<1>1. WithdrawalsInvariant => ApprovalChain
    BY DEF WithdrawalsInvariant, RequestsOK, RequestOK, ApprovalChain
<1>2. QED
    BY <1>1, InvariantHolds, PTL

(***************************************************************************)
(* Open notifications address exactly whoever is concerned by the state of *)
(* the request.                                                            *)
(***************************************************************************)
THEOREM NoticesFollowRequestHolds == WithdrawalsSpec => []NoticesFollowRequest
<1>1. WithdrawalsInvariant => NoticesFollowRequest
    BY DEF WithdrawalsInvariant, RequestsOK, RequestOK, NoticesFollowRequest
<1>2. QED
    BY <1>1, InvariantHolds, PTL

(***************************************************************************)
(* Request, reservation, decisions, override, notifications and withdrawal *)
(* rows keep step through every handler and override.                      *)
(***************************************************************************)
THEOREM TablesKeepStepHolds == WithdrawalsSpec => []TablesKeepStep
<1>1. QED
    BY ReservationFollowsRequestHolds, ApprovalChainHolds, NoticesFollowRequestHolds,
       PayoutsHaveRequestsHolds, PTL DEF TablesKeepStep
-----------------------------------------------------------------------------
(***************************************************************************)
(* What a step may do: closed requests stay as they are, and every step is *)
(* a step of the escrow or a stutter.                                      *)
(***************************************************************************)
\* The request can still take part in a step.
LEMMA OnlyOpenRequestsStep ==
    ASSUME WithdrawalsInvariant, NEW r \in WithdrawalIds, RequestStep(r)
    PROVE  ~Closed(r)
<1>1. \/ withdrawals[r].status \in {"none", "pending"}
      \/ withdrawals[r].status = "approved" /\ ~withdrawals[r].disbursed
    BY DEF RequestStep, insertWithdrawalRequestAs, updateOfficerWithdrawalRequest, Editable,
           approveWithdrawalRequestByID, rejectWithdrawalRequestByID, WaitsFor,
           cancelWithdrawalRequestByID, disburseWithdrawalRequestByID, ReadyForDisbursement,
           approveWithdrawalRequestBySuperAdmin, rejectWithdrawalRequestBySuperAdmin, MayOverride
<1>2. withdrawals[r].disbursed => withdrawals[r].status = "approved"
    BY DEF WithdrawalsInvariant, RequestsOK, RequestOK
<1>3. QED
    BY <1>1, <1>2 DEF Closed

LEMMA PaymentsAreFinal ==
    ASSUME WithdrawalsInvariant, [WithdrawalsNext]_withdrawalsVars,
           NEW r \in WithdrawalIds, withdrawals[r].disbursed
    PROVE  savings'[withdrawals[r].saving] = savings[withdrawals[r].saving]
<1> DEFINE t == withdrawals[r].saving
<1>1. t \in SavingIds
    BY DEF WithdrawalsInvariant, PaidOnce
<1>2. savings[t].type = "withdrawal"
    <2>1. savings[t] = [type |-> "withdrawal", member |-> withdrawals[r].member,
                        category |-> "sukarela", amount |-> withdrawals[r].amount]
        BY DEF WithdrawalsInvariant, PaidOnce
    <2>2. QED
        BY <2>1
<1>3. CASE SavingsStep
    BY <1>1, <1>2, <1>3, SavingsStepKeepsPayouts DEF WithdrawalsInvariant, PayoutsKept
<1>4. ASSUME NEW q \in WithdrawalIds, RequestStep(q)
      PROVE  savings'[t] = savings[t]
    <2>1. ASSUME NEW s \in SavingIds, disburseWithdrawalRequestByID(q, s)
          PROVE  savings'[t] = savings[t]
        BY <1>1, <1>2, <2>1
        DEF disburseWithdrawalRequestByID, WithdrawalsInvariant, WithdrawalsTypeOK, SavingsTypeOK
    <2>2. CASE \A s \in SavingIds : ~disburseWithdrawalRequestByID(q, s)
        <3>1. InOrder(q) /\ WithdrawalsTypeOK
            BY DEF WithdrawalsInvariant, RequestsOK, InOrder
        <3>2. UNCHANGED savings
            BY <1>4, <2>2, <3>1, DecisionKeepsOrder
        <3>3. QED
            BY <3>2
    <2>3. QED
        BY <2>1, <2>2
<1>5. CASE UNCHANGED withdrawalsVars
    BY <1>5 DEF withdrawalsVars, savingsVars
<1>6. QED
    BY <1>3, <1>4, <1>5 DEF WithdrawalsNext

LEMMA ClosedStaysClosed ==
    ASSUME WithdrawalsInvariant, [WithdrawalsNext]_withdrawalsVars,
           NEW r \in WithdrawalIds, Closed(r)
    PROVE  Kept(r)
<1>1. CASE SavingsStep
    BY <1>1 DEF SavingsStep, requestVars, Kept
<1>2. ASSUME NEW q \in WithdrawalIds, RequestStep(q) PROVE Kept(r)
    <2>1. q # r
        BY <1>2, OnlyOpenRequestsStep
    <2>2. QED
        BY <1>2, <2>1, RequestStepKeepsOthers DEF WithdrawalsInvariant
<1>3. CASE UNCHANGED withdrawalsVars
    BY <1>3 DEF withdrawalsVars, requestVars, Kept
<1>4. QED
    BY <1>1, <1>2, <1>3 DEF WithdrawalsNext

(***************************************************************************)
(* No handler, override or correction touches a closed request, its        *)
(* decisions, its reservation or the row it was paid by.                   *)
(***************************************************************************)
THEOREM ClosedIsFinalHolds == WithdrawalsSpec => ClosedIsFinal
<1> DEFINE Final(r) == Closed(r) =>
               /\ withdrawals'[r] = withdrawals[r]
               /\ reservations'[r] = reservations[r]
               /\ withdrawalApprovals'[r] = withdrawalApprovals[r]
               /\ withdrawalOverrides'[r] = withdrawalOverrides[r]
               /\ withdrawals[r].disbursed =>
                      savings'[withdrawals[r].saving] = savings[withdrawals[r].saving]
<1>1. WithdrawalsInvariant /\ [WithdrawalsNext]_withdrawalsVars
          => [\A r \in WithdrawalIds : Final(r)]_withdrawalsVars
    BY ClosedStaysClosed, PaymentsAreFinal DEF Kept
<1>2. QED
    BY <1>1, InvariantHolds, PTL DEF WithdrawalsSpec, ClosedIsFinal

-----------------------------------------------------------------------------
(***************************************************************************)
(* Under the invariant the escrow can be read off the request alone.       *)
(***************************************************************************)
PhaseOf(w) ==
    CASE w.status = "none"     -> "none"
      [] w.status = "pending"  -> IF w.stage = "manager" THEN "held" ELSE "agreed"
      [] w.status = "approved" -> IF w.disbursed THEN "paid" ELSE "agreed"
      [] OTHER                 -> "returned"

LEMMA DecidedOnce ==
    /\ DecidedStages(ApprovedBefore("manager")) = {}
    /\ \A x \in WaitingStages \ {"manager"} : DecidedStages(ApprovedBefore(x)) # {}
<1>1. DecidedStages(ApprovedBefore("manager")) = {}
    BY DEF DecidedStages, ApprovedBefore, StagesBefore
<1>2. ASSUME NEW x \in WaitingStages \ {"manager"}
      PROVE  "manager" \in DecidedStages(ApprovedBefore(x))
    BY DEF DecidedStages, ApprovedBefore, StagesBefore, WaitingStages, Stages
<1>3. QED
    BY <1>1, <1>2

LEMMA EscrowView ==
    ASSUME WithdrawalsInvariant, NEW r \in WithdrawalIds
    PROVE  /\ EscrowPhase(r) = PhaseOf(withdrawals[r])
           /\ EscrowAmount(r) = withdrawals[r].amount
<1> DEFINE w == withdrawals[r]
<1>1. w \in WithdrawalRows
    BY DEF WithdrawalsInvariant, WithdrawalsTypeOK
<1>2. RequestOK(w, reservations[r], withdrawalApprovals[r], withdrawalOverrides[r],
                withdrawalNotices[r])
    BY DEF WithdrawalsInvariant, RequestsOK
<1>3. reservations[r].status = ReservationFor(w) /\ reservations[r].amount = w.amount
    BY <1>2 DEF RequestOK
<1>4. EscrowPhase(r) = PhaseOf(w)
    <2>1. CASE w.status = "pending"
        <3>1. w.stage \in WaitingStages /\ withdrawalApprovals[r] = ApprovedBefore(w.stage)
            BY <1>2, <2>1 DEF RequestOK, ChainOf
        <3>2. AgreedTo(r) <=> w.stage # "manager"
            BY <2>1, <3>1, DecidedOnce DEF AgreedTo
        <3>3. QED
            BY <1>3, <2>1, <3>2 DEF EscrowPhase, PhaseOf, ReservationFor
    <2>2. CASE w.status = "approved"
        BY <1>3, <2>2 DEF EscrowPhase, PhaseOf, ReservationFor, AgreedTo
    <2>3. CASE w.status \in {"none", "rejected", "cancelled"}
        BY <1>3, <2>3 DEF EscrowPhase, PhaseOf, ReservationFor
    <2>4. QED
        BY <1>1, <2>1, <2>2, <2>3 DEF WithdrawalRows
<1>5. EscrowAmount(r) = w.amount
    <2>1. CASE w.disbursed
        <3>1. savings[w.saving] = [type |-> "withdrawal", member |-> w.member,
                                   category |-> "sukarela", amount |-> w.amount]
            BY <2>1 DEF WithdrawalsInvariant, PaidOnce
        <3>2. savings[w.saving].amount = w.amount
            BY <3>1
        <3>3. QED
            BY <1>3, <3>2 DEF EscrowAmount
    <2>2. CASE ~w.disbursed
        <3>1. reservations[r].status # "consumed"
            BY <1>3, <2>2 DEF ReservationFor
        <3>2. QED
            BY <1>3, <3>1 DEF EscrowAmount
    <2>3. QED
        BY <2>1, <2>2
<1>6. QED
    BY <1>4, <1>5

\* What a step may do to one payout.
Move(p, a, q, b) ==
    \/ p = "none" /\ q = "held" /\ b \in WithdrawalAmounts
    \/ p = "held" /\ q = "held" /\ b \in WithdrawalAmounts
    \/ p = "held" /\ q = "agreed" /\ b = a
    \/ p = "agreed" /\ q = "paid" /\ b = a
    \/ p \in {"held", "agreed"} /\ q = "returned" /\ b = a
    \/ q = p /\ b = a

LEMMA EscrowMoves ==
    ASSUME WithdrawalsInvariant, NEW r \in WithdrawalIds, RequestStep(r)
    PROVE  Move(PhaseOf(withdrawals[r]), withdrawals[r].amount,
                PhaseOf(withdrawals'[r]), withdrawals'[r].amount)
<1> DEFINE w == withdrawals[r]
           x == withdrawals'[r]
           Goal == Move(PhaseOf(w), w.amount, PhaseOf(x), x.amount)
<1>1. /\ w \in WithdrawalRows
      /\ withdrawals \in [WithdrawalIds -> WithdrawalRows]
      /\ WithdrawalsTypeOK
    BY DEF WithdrawalsInvariant, WithdrawalsTypeOK
<1>2. RequestOK(w, reservations[r], withdrawalApprovals[r], withdrawalOverrides[r],
                withdrawalNotices[r])
    BY DEF WithdrawalsInvariant, RequestsOK
<1>3. ASSUME NEW m \in Members, NEW amount \in WithdrawalAmounts,
             NEW source \in {"member", "officer"},
             insertWithdrawalRequestAs(r, m, amount, source)
      PROVE  Goal
    <2>1. x = [status |-> "pending", stage |-> "manager", member |-> m,
               source |-> source, amount |-> amount, reviewed |-> FALSE,
               disbursed |-> FALSE, saving |-> NoSavingRecord]
        BY <1>1, <1>3 DEF insertWithdrawalRequestAs
    <2>2. x.status = "pending" /\ x.stage = "manager" /\ x.amount = amount
        BY <2>1
    <2>3. w.status = "none"
        BY <1>3 DEF insertWithdrawalRequestAs
    <2>4. QED
        BY <2>2, <2>3 DEF PhaseOf, Move
<1>4. ASSUME NEW amount \in WithdrawalAmounts, updateOfficerWithdrawalRequest(r, amount)
      PROVE  Goal
    <2>1. w.status = "pending" /\ w.stage = "manager" /\ x = Resized(w, amount)
        BY <1>1, <1>4 DEF updateOfficerWithdrawalRequest, Editable
    <2>2. x.status = "pending" /\ x.stage = "manager" /\ x.amount = amount
        BY <1>1, <2>1, ResizedFields
    <2>3. QED
        BY <2>1, <2>2 DEF PhaseOf, Move
<1>5. ASSUME NEW role \in DecidingRoles, approveWithdrawalRequestByID(r, role)
      PROVE  Goal
    <2> DEFINE next == nextWithdrawalApprovalStage(w.stage)
    <2>1. /\ w.status = "pending" /\ w.stage = approvalStageForOfficer(role)
          /\ w.stage \in WaitingStages /\ ~w.disbursed
        BY <1>2, <1>5 DEF approveWithdrawalRequestByID, WaitsFor, RequestOK, ChainOf
    <2>2. CASE next # NoStage
        <3>1. x = Advanced(w, next)
            BY <1>1, <1>5, <2>1, <2>2 DEF approveWithdrawalRequestByID
        <3>2. x.status = "pending" /\ x.stage = next /\ x.amount = w.amount
            BY <1>1, <2>1, <3>1, AdvancedFields
        <3>3. next # "manager"
            BY <2>1, StageFacts DEF WaitingStages, NoStage
        <3>4. QED
            BY <2>1, <3>2, <3>3 DEF PhaseOf, Move
    <2>3. CASE next = NoStage
        <3>1. x = Approved(w)
            BY <1>1, <1>5, <2>1, <2>3 DEF approveWithdrawalRequestByID
        <3>2. x.status = "approved" /\ ~x.disbursed /\ x.amount = w.amount
            BY <1>1, <2>1, <3>1, ApprovedFields
        <3>3. QED
            BY <2>1, <3>2 DEF PhaseOf, Move
    <2>4. QED
        BY <2>2, <2>3
<1>6. ASSUME w.status = "pending", NEW row \in {Rejected(w), Cancelled(w)},
             NEW audiences, GivenUp(r, row, audiences)
      PROVE  Goal
    <2>1. x = row
        BY <1>1, <1>6, GivenUpKeeps
    <2>2. x.status \in {"rejected", "cancelled"} /\ x.amount = w.amount
        <3>1. w \in WithdrawalRows
            BY <1>1
        <3> HIDE DEF w
        <3>2. Rejected(w).status = "rejected" /\ Rejected(w).amount = w.amount
            BY <3>1, RejectedFields
        <3>3. Cancelled(w).status = "cancelled" /\ Cancelled(w).amount = w.amount
            BY <3>1, CancelledFields
        <3>4. QED
            BY <2>1, <3>2, <3>3
    <2>3. QED
        BY <1>6, <2>2 DEF PhaseOf, Move
<1>7. ASSUME NEW s \in SavingIds, disburseWithdrawalRequestByID(r, s)
      PROVE  Goal
    <2>1. w.status = "approved" /\ ~w.disbursed /\ x = Disbursed(w, s)
        BY <1>1, <1>7 DEF disburseWithdrawalRequestByID, ReadyForDisbursement
    <2>2. x.status = "approved" /\ x.disbursed /\ x.amount = w.amount
        <3>1. w \in WithdrawalRows
            BY <1>1
        <3> HIDE DEF w
        <3>2. /\ Disbursed(w, s).status = w.status
              /\ Disbursed(w, s).disbursed
              /\ Disbursed(w, s).amount = w.amount
            BY <3>1, DisbursedFields
        <3>3. QED
            BY <2>1, <3>2
    <2>3. QED
        BY <2>1, <2>2 DEF PhaseOf, Move
<1>8. CASE approveWithdrawalRequestBySuperAdmin(r)
    <2>1. w.status = "pending" /\ x = Approved(w)
        BY <1>1, <1>8 DEF approveWithdrawalRequestBySuperAdmin, MayOverride
    <2>2. ~w.disbursed
        BY <1>2, <2>1 DEF RequestOK
    <2>3. x.status = "approved" /\ ~x.disbursed /\ x.amount = w.amount
        BY <1>1, <2>1, <2>2, ApprovedFields
    <2>4. QED
        BY <2>1, <2>3 DEF PhaseOf, Move
<1>9. QED
    BY <1>3, <1>4, <1>5, <1>6, <1>7, <1>8
    DEF RequestStep, rejectWithdrawalRequestByID, cancelWithdrawalRequestByID, WaitsFor,
        rejectWithdrawalRequestBySuperAdmin, MayOverride

View ==
    \A r \in WithdrawalIds : /\ EscrowPhase(r) = PhaseOf(withdrawals[r])
                             /\ EscrowAmount(r) = withdrawals[r].amount

LEMMA EscrowViews == WithdrawalsInvariant => View
BY EscrowView DEF View

LEMMA EscrowStep ==
    ASSUME WithdrawalsInvariant, WithdrawalsInvariant', [WithdrawalsNext]_withdrawalsVars
    PROVE  [Escrow!Next]_(Escrow!escrowVars)
<1> DEFINE phase == [r \in WithdrawalIds |-> EscrowPhase(r)]
           amount == [r \in WithdrawalIds |-> EscrowAmount(r)]
<1>1. \A r \in WithdrawalIds : /\ EscrowPhase(r) = PhaseOf(withdrawals[r])
                               /\ EscrowAmount(r) = withdrawals[r].amount
    BY EscrowView
<1>2. \A r \in WithdrawalIds : /\ EscrowPhase(r)' = PhaseOf(withdrawals'[r])
                               /\ EscrowAmount(r)' = withdrawals'[r].amount
    <2>1. View'
        BY EscrowViews, PTL
    <2>2. QED
        BY <2>1 DEF View
<1>3. CASE UNCHANGED withdrawals
    <2>1. \A r \in WithdrawalIds : /\ EscrowPhase(r)' = EscrowPhase(r)
                                   /\ EscrowAmount(r)' = EscrowAmount(r)
        BY <1>1, <1>2, <1>3
    <2>2. QED
        BY <2>1 DEF Escrow!escrowVars
<1>4. ASSUME NEW r \in WithdrawalIds, RequestStep(r)
      PROVE  [Escrow!Next]_(Escrow!escrowVars)
    <2>1. \A q \in WithdrawalIds \ {r} : withdrawals'[q] = withdrawals[q]
        BY <1>4, RequestStepKeepsOthers DEF WithdrawalsInvariant, Kept
    <2>2. \A q \in WithdrawalIds \ {r} : phase'[q] = phase[q] /\ amount'[q] = amount[q]
        BY <1>1, <1>2, <2>1
    <2>3. Move(phase[r], amount[r], phase'[r], amount'[r])
        BY <1>1, <1>2, <1>4, EscrowMoves
    <2>4. /\ phase' = [phase EXCEPT ![r] = phase'[r]]
          /\ amount' = [amount EXCEPT ![r] = amount'[r]]
        BY <2>2
    <2>5. /\ phase'[r] = phase[r] => UNCHANGED phase
          /\ amount'[r] = amount[r] => UNCHANGED amount
        BY <2>2
    <2>6. CASE phase[r] = "none" /\ phase'[r] = "held" /\ amount'[r] \in WithdrawalAmounts
        <3>1. Escrow!Hold(r, amount'[r])
            BY <2>4, <2>6 DEF Escrow!Hold
        <3>2. QED
            BY <2>6, <3>1 DEF Escrow!Next
    <2>7. CASE phase[r] = "held" /\ phase'[r] = "held" /\ amount'[r] \in WithdrawalAmounts
        <3>1. Escrow!Adjust(r, amount'[r])
            BY <2>4, <2>5, <2>7 DEF Escrow!Adjust
        <3>2. QED
            BY <2>7, <3>1 DEF Escrow!Next
    <2>8. CASE phase[r] = "held" /\ phase'[r] = "agreed" /\ amount'[r] = amount[r]
        <3>1. Escrow!Agree(r)
            BY <2>4, <2>5, <2>8 DEF Escrow!Agree
        <3>2. QED
            BY <3>1 DEF Escrow!Next
    <2>9. CASE phase[r] = "agreed" /\ phase'[r] = "paid" /\ amount'[r] = amount[r]
        <3>1. Escrow!Pay(r)
            BY <2>4, <2>5, <2>9 DEF Escrow!Pay
        <3>2. QED
            BY <3>1 DEF Escrow!Next
    <2>10. CASE /\ phase[r] \in {"held", "agreed"} /\ phase'[r] = "returned"
                /\ amount'[r] = amount[r]
        <3>1. phase' = [q \in WithdrawalIds |->
                           IF q \in {r} THEN "returned" ELSE phase[q]]
            BY <2>2, <2>10
        <3>2. Escrow!GiveBack({r})
            BY <2>5, <2>10, <3>1 DEF Escrow!GiveBack
        <3>3. {r} \in SUBSET WithdrawalIds
            OBVIOUS
        <3>4. QED
            BY <3>2, <3>3 DEF Escrow!Next
    <2>11. CASE phase'[r] = phase[r] /\ amount'[r] = amount[r]
        BY <2>5, <2>11 DEF Escrow!escrowVars
    <2>12. QED
        BY <2>3, <2>6, <2>7, <2>8, <2>9, <2>10, <2>11 DEF Move
<1>5. CASE SavingsStep
    BY <1>3, <1>5 DEF SavingsStep, requestVars
<1>6. QED
    BY <1>3, <1>4, <1>5 DEF WithdrawalsNext, withdrawalsVars, requestVars

(***************************************************************************)
(* The withdrawal tables implement the escrow: each amount is held once,   *)
(* adjusted only before anyone agreed to it, and paid in full once or      *)
(* given back.                                                             *)
(***************************************************************************)
THEOREM Implementation == WithdrawalsSpec => ImplementsEscrow
<1>1. WithdrawalsInit => Escrow!Init
    BY DEF WithdrawalsInit, Escrow!Init, EscrowPhase, EscrowAmount, NoReservation
<1>2. WithdrawalsInvariant /\ WithdrawalsInvariant' /\ [WithdrawalsNext]_withdrawalsVars
          => [Escrow!Next]_(Escrow!escrowVars)
    BY EscrowStep
<1>3. QED
    BY <1>1, <1>2, InvariantHolds, PTL DEF WithdrawalsSpec, ImplementsEscrow, Escrow!Spec

-----------------------------------------------------------------------------
(***************************************************************************)
(* While no super admin corrects or removes a deposit, what is promised to *)
(* a member stays covered by the member's Sukarela balance.                *)
(*                                                                         *)
(* The handlers compare an amount with the balance and with what the other *)
(* requests reserve, each a sum over a table.  Here the sums run over all  *)
(* rows, a row that does not count adding nothing, so that a step changes  *)
(* one term, and SumProofs says what that does to the sum.                 *)
(***************************************************************************)

(***************************************************************************)
(* Balances, reservations and promises as sums over whole tables.          *)
(***************************************************************************)
\* What row v adds to the Sukarela balance of m.
Worth(v, m) ==
    IF v.member = m /\ v.category = "sukarela"
    THEN CASE v.type = "deposit"    -> v.amount
           [] v.type = "withdrawal" -> -v.amount
           [] OTHER                 -> 0
    ELSE 0

\* What request w sets aside for m.
Share(w, m) == IF w.member = m /\ Unpaid(w) THEN w.amount ELSE 0

Worths(m) == [s \in SavingIds |-> Worth(savings[s], m)]
Shares(m) == [r \in WithdrawalIds |-> Share(withdrawals[r], m)]

LEMMA WorthType ==
    ASSUME NEW v \in SavingRows, NEW m
    PROVE  Worth(v, m) \in Int
BY DEF Worth, SavingRows

LEMMA ShareType ==
    ASSUME NEW w \in WithdrawalRows, NEW m
    PROVE  Share(w, m) \in Nat
BY DEF Share, WithdrawalRows

LEMMA BalanceIsWorths ==
    ASSUME WithdrawalsTypeOK, NEW m
    PROVE  /\ SukarelaBalance(m) = SumFunctionOnSet(Worths(m), SavingIds)
           /\ SukarelaBalance(m) \in Int
<1> DEFINE signed == [s \in SavingIds |-> CASE savings[s].type = "deposit"    -> savings[s].amount
                               [] savings[s].type = "withdrawal" -> -savings[s].amount
                               [] OTHER                          -> 0]
           rows == {s \in SavingIds : savings[s].member = m /\ savings[s].category = "sukarela"}
           worth == Worths(m)
<1>1. \A s \in SavingIds : savings[s] \in SavingRows
    BY DEF WithdrawalsTypeOK, SavingsTypeOK
<1>2. \A s \in SavingIds : worth[s] \in Int
    BY <1>1, WorthType DEF Worths
<1>3. \A s \in rows : signed[s] \in Int /\ worth[s] = signed[s]
    BY <1>2 DEF Worths, Worth
<1>4. \A s \in SavingIds \ rows : worth[s] = 0
    BY DEF Worths, Worth
<1>5. SukarelaBalance(m) = SumFunctionOnSet(signed, rows)
    BY DEF SukarelaBalance
<1>6. rows \subseteq SavingIds
    OBVIOUS
<1> HIDE DEF signed, rows, worth
<1>7. SukarelaBalance(m) = SumFunctionOnSet(worth, SavingIds)
    BY <1>3, <1>4, <1>5, <1>6, SumFilter, SavingsAssumption
<1>8. SumFunctionOnSet(worth, SavingIds) \in Int
    BY <1>2, SumType, SavingsAssumption
<1>9. QED
    BY <1>7, <1>8 DEF worth

LEMMA OpenRow ==
    \A m, r : r \in OpenRequests(m) <=>
        r \in WithdrawalIds /\ withdrawals[r].member = m /\ Unpaid(withdrawals[r])
BY DEF OpenRequests, Unpaid

LEMMA PromisedIsShares ==
    ASSUME WithdrawalsTypeOK, NEW m
    PROVE  /\ Promised(m) = SumFunctionOnSet(Shares(m), WithdrawalIds)
           /\ Promised(m) \in Nat
<1> DEFINE amounts == [r \in WithdrawalIds |-> withdrawals[r].amount]
           rows == OpenRequests(m)
           share == Shares(m)
<1>1. \A r \in WithdrawalIds : withdrawals[r] \in WithdrawalRows
    BY DEF WithdrawalsTypeOK
<1>2. \A r \in WithdrawalIds : share[r] \in Nat
    BY <1>1, ShareType DEF Shares
<1>0. \A r \in WithdrawalIds : amounts[r] \in Nat
    BY <1>1 DEF WithdrawalRows
<1>3. \A r \in rows : amounts[r] \in Int /\ share[r] = amounts[r]
    BY <1>0, OpenRow DEF Shares, Share
<1>4. \A r \in WithdrawalIds \ rows : share[r] = 0
    BY OpenRow DEF Shares, Share
<1>5. Promised(m) = SumFunctionOnSet(amounts, rows) /\ rows \subseteq WithdrawalIds
    BY DEF Promised, OpenRequests
<1> HIDE DEF amounts, rows, share
<1>6. Promised(m) = SumFunctionOnSet(share, WithdrawalIds)
    BY <1>3, <1>4, <1>5, SumFilter, WithdrawalsAssumption
<1>7. SumFunctionOnSet(share, WithdrawalIds) \in Nat
    BY <1>2, SumNat, WithdrawalsAssumption
<1>8. QED
    BY <1>6, <1>7 DEF share

\* The balance the handlers compute, deposits less withdrawals, is the balance above.
LEMMA CategoryBalance ==
    ASSUME WithdrawalsTypeOK, NEW m
    PROVE  categoryBalance(m, "sukarela") = SukarelaBalance(m)
<1> DEFINE amounts == [s \in SavingIds |-> savings[s].amount]
           worth == Worths(m)
           D == RowsOf(m, "sukarela", "deposit")
           W == RowsOf(m, "sukarela", "withdrawal")
           R == SavingIds \ (D \cup W)
<1>1. \A s \in SavingIds : savings[s] \in SavingRows /\ amounts[s] \in Nat
    BY DEF WithdrawalsTypeOK, SavingsTypeOK, SavingRows
<1>2. \A s \in SavingIds : worth[s] \in Int
    BY <1>1, WorthType DEF Worths
<1>3. \A s \in D : worth[s] = amounts[s]
    BY DEF Worths, Worth, RowsOf
<1>4. \A s \in W : worth[s] = -amounts[s]
    BY DEF Worths, Worth, RowsOf
<1>5. \A s \in R : worth[s] = 0
    BY DEF Worths, Worth, RowsOf
<1>6. D \subseteq SavingIds /\ W \subseteq SavingIds /\ D \cap W = {}
    BY DEF RowsOf
<1>7. categoryBalance(m, "sukarela")
          = SumFunctionOnSet(amounts, D) - SumFunctionOnSet(amounts, W)
    BY DEF categoryBalance, AmountOf
<1> HIDE DEF amounts, worth, D, W
<1>8. IsFiniteSet(D) /\ IsFiniteSet(W) /\ IsFiniteSet(D \cup W)
    BY <1>6, FS_Subset, FS_Union, SavingsAssumption
<1>9. SumFunctionOnSet(worth, D) = SumFunctionOnSet(amounts, D)
    BY <1>3, <1>8, SumSame
<1>10. SumFunctionOnSet(worth, W) = -SumFunctionOnSet(amounts, W)
    <2>1. \A s \in W : amounts[s] \in Int /\ worth[s] = -amounts[s]
        BY <1>1, <1>4, <1>6
    <2>2. QED
        BY <1>8, <2>1, SumNegated
<1>11. SumFunctionOnSet(worth, D \cup W)
           = SumFunctionOnSet(worth, D) + SumFunctionOnSet(worth, W)
    <2>1. \A s \in D \cup W : worth[s] \in Int
        BY <1>2, <1>6
    <2>2. QED
        BY <1>6, <1>8, <2>1, SumUnion
<1>12. SumFunctionOnSet(worth, D \cup W) = SumFunctionOnSet(worth, SavingIds)
    <2>1. D \cup W \in SUBSET SavingIds
        BY <1>6
    <2>2. \A s \in D \cup W : worth[s] \in Int /\ worth[s] = worth[s]
        BY <1>2, <1>6
    <2>3. QED
        BY <1>5, <2>1, <2>2, SumFilter, SavingsAssumption
<1>13. SumFunctionOnSet(amounts, D) \in Int /\ SumFunctionOnSet(amounts, W) \in Int
    BY <1>1, <1>6, <1>8, SumType
<1>14. QED
    BY <1>7, <1>9, <1>10, <1>11, <1>12, <1>13, BalanceIsWorths DEF worth

\* What the active reservations hold is what the open requests were promised.
LEMMA ReservedIsPromised ==
    ASSUME WithdrawalsInvariant, NEW m
    PROVE  /\ Reserved(m, {}) = Promised(m)
           /\ \A r \in WithdrawalIds :
                  /\ Reserved(m, {r}) = Promised(m) - Share(withdrawals[r], m)
                  /\ Promised(m) - Share(withdrawals[r], m) \in Nat
<1> DEFINE amounts == [r \in WithdrawalIds |-> reservations[r].amount]
           share == Shares(m)
           held(except) == {r \in WithdrawalIds \ except :
                                withdrawals[r].member = m /\ reservations[r].status = "active"}
<1>1. \A r \in WithdrawalIds : withdrawals[r] \in WithdrawalRows
    BY DEF WithdrawalsInvariant, WithdrawalsTypeOK
<1>2. \A r \in WithdrawalIds : share[r] \in Nat /\ share[r] = Share(withdrawals[r], m)
    BY <1>1, ShareType DEF Shares
<1>3. \A r \in WithdrawalIds :
          /\ reservations[r].status = "active" <=> Unpaid(withdrawals[r])
          /\ amounts[r] = withdrawals[r].amount
    <2>1. SUFFICES ASSUME NEW r \in WithdrawalIds
                   PROVE  /\ reservations[r].status = "active" <=> Unpaid(withdrawals[r])
                          /\ amounts[r] = withdrawals[r].amount
        OBVIOUS
    <2>2. reservations[r] = [status |-> ReservationFor(withdrawals[r]),
                             amount |-> withdrawals[r].amount]
        BY DEF WithdrawalsInvariant, RequestsOK, RequestOK
    <2>3. ReservationFor(withdrawals[r]) = "active" <=> Unpaid(withdrawals[r])
        BY DEF ReservationFor, Unpaid
    <2>4. QED
        BY <2>2, <2>3
<1>4. ASSUME NEW except, except \subseteq WithdrawalIds
      PROVE  Reserved(m, except) = SumFunctionOnSet(share, WithdrawalIds \ except)
    <2>1. Reserved(m, except) = SumFunctionOnSet(amounts, held(except))
        BY DEF Reserved
    <2>2. \A r \in held(except) : amounts[r] \in Int /\ share[r] = amounts[r]
        BY <1>2, <1>3 DEF Share
    <2>3. \A r \in (WithdrawalIds \ except) \ held(except) : share[r] = 0
        BY <1>2, <1>3 DEF Share
    <2>4. held(except) \in SUBSET (WithdrawalIds \ except)
        OBVIOUS
    <2>5. IsFiniteSet(WithdrawalIds \ except)
        BY FS_Subset, WithdrawalsAssumption
    <2> HIDE DEF amounts, share, held
    <2>6. QED
        BY <2>1, <2>2, <2>3, <2>4, <2>5, SumFilter
<1>5. Promised(m) = SumFunctionOnSet(share, WithdrawalIds) /\ Promised(m) \in Nat
    BY PromisedIsShares DEF WithdrawalsInvariant
<1> HIDE DEF share
<1>6. Reserved(m, {}) = Promised(m)
    <2>1. WithdrawalIds \ {} = WithdrawalIds
        OBVIOUS
    <2>2. SumFunctionOnSet(share, WithdrawalIds \ {}) = SumFunctionOnSet(share, WithdrawalIds)
        BY <2>1, Zenon
    <2>3. QED
        BY <1>4, <1>5, <2>2
<1>7. ASSUME NEW r \in WithdrawalIds
      PROVE  /\ Reserved(m, {r}) = Promised(m) - Share(withdrawals[r], m)
             /\ Promised(m) - Share(withdrawals[r], m) \in Nat
    <2>1. SumFunctionOnSet(share, WithdrawalIds)
              = share[r] + SumFunctionOnSet(share, WithdrawalIds \ {r})
        BY <1>2, SumRemove, WithdrawalsAssumption
    <2>2. SumFunctionOnSet(share, WithdrawalIds \ {r}) \in Nat
        BY <1>2, SumNat, FS_Subset, WithdrawalsAssumption
    <2>3. Reserved(m, {r}) = SumFunctionOnSet(share, WithdrawalIds \ {r})
        BY <1>4
    <2>4. QED
        BY <1>2, <1>5, <2>1, <2>2, <2>3
<1>8. QED
    BY <1>6, <1>7

(***************************************************************************)
(* The rounding of the withdrawable share never rounds up.                 *)
(***************************************************************************)
LEMMA WithdrawableShare ==
    ASSUME NEW balance \in Int
    PROVE  /\ maxWithdrawalAmountForSukarelaBalance(balance) \in Nat
           /\ maxWithdrawalAmountForSukarelaBalance(balance) > 0 =>
                  4 * maxWithdrawalAmountForSukarelaBalance(balance) <= 3 * balance
<1>1. CASE balance <= 0
    BY <1>1 DEF maxWithdrawalAmountForSukarelaBalance
<1>2. CASE balance > 0
    <2> DEFINE q == balance \div 100
               rest == balance % 100
               part == (rest * 75) \div 100
    <2>1. q \in Nat /\ rest \in 0 .. 99 /\ balance = 100 * q + rest
        BY <1>2
    <2>2. maxWithdrawalAmountForSukarelaBalance(balance) = q * 75 + part
        BY <1>2 DEF maxWithdrawalAmountForSukarelaBalance
    <2> HIDE DEF q, rest
    <2>3. part \in Nat /\ 100 * part <= 75 * rest
        BY <2>1
    <2> HIDE DEF part
    <2>4. QED
        BY <2>1, <2>2, <2>3
<1>3. QED
    BY <1>1, <1>2

LEMMA AvailableShare ==
    ASSUME NEW balance \in Int, NEW reserved \in Nat, NEW amount \in Nat \ {0},
           amount <= availableWithdrawalAmountForSukarelaBalance(balance, reserved)
    PROVE  4 * (amount + reserved) <= 3 * balance
<1> DEFINE maximum == maxWithdrawalAmountForSukarelaBalance(balance)
<1>1. maximum \in Nat /\ (maximum > 0 => 4 * maximum <= 3 * balance)
    BY WithdrawableShare
<1>2. amount <= (IF reserved >= maximum THEN 0 ELSE maximum - reserved)
    BY DEF availableWithdrawalAmountForSukarelaBalance
<1> HIDE DEF maximum
<1>3. QED
    BY <1>1, <1>2

\* The sums above, as one formula that also holds after a step.
SumsAgree ==
    WithdrawalsTypeOK => \A m :
        /\ SukarelaBalance(m) = SumFunctionOnSet(Worths(m), SavingIds)
        /\ SukarelaBalance(m) \in Int
        /\ Promised(m) = SumFunctionOnSet(Shares(m), WithdrawalIds)
        /\ Promised(m) \in Nat

LEMMA SumsAgreeNow == SumsAgree
BY BalanceIsWorths, PromisedIsShares DEF SumsAgree

LEMMA SumsAgreeThen == SumsAgree'
<1>1. QED
    BY SumsAgreeNow, PTL

-----------------------------------------------------------------------------
(***************************************************************************)
(* What one step does to the two sums.                                     *)
(***************************************************************************)
LEMMA PromiseChange ==
    ASSUME WithdrawalsTypeOK, WithdrawalsTypeOK', NEW m, NEW r \in WithdrawalIds,
           \A q \in WithdrawalIds \ {r} : withdrawals'[q] = withdrawals[q]
    PROVE  Promised(m)' = Promised(m) + Share(withdrawals'[r], m) - Share(withdrawals[r], m)
<1> DEFINE now == Shares(m)
           then == Shares(m)'
<1>1. /\ Promised(m) = SumFunctionOnSet(now, WithdrawalIds)
      /\ Promised(m)' = SumFunctionOnSet(then, WithdrawalIds)
    BY SumsAgreeNow, SumsAgreeThen DEF SumsAgree
<1>2. \A q \in WithdrawalIds : now[q] = Share(withdrawals[q], m)
                               /\ then[q] = Share(withdrawals'[q], m)
    BY DEF Shares
<1>3. \A q \in WithdrawalIds : Share(withdrawals[q], m) \in Nat
                               /\ Share(withdrawals'[q], m) \in Nat
    BY ShareType DEF WithdrawalsTypeOK
<1> HIDE DEF now, then
<1>4. \A q \in WithdrawalIds : now[q] \in Int /\ then[q] \in Int
    BY <1>2, <1>3
<1>5. \A q \in WithdrawalIds \ {r} : then[q] = now[q]
    BY <1>2
<1>6. SumFunctionOnSet(then, WithdrawalIds)
          = SumFunctionOnSet(now, WithdrawalIds) + then[r] - now[r]
    BY <1>4, <1>5, SumChange, WithdrawalsAssumption
<1>7. QED
    BY <1>1, <1>2, <1>6

LEMMA BalanceChange ==
    ASSUME WithdrawalsTypeOK, WithdrawalsTypeOK', NEW m, NEW s \in SavingIds,
           \A t \in SavingIds \ {s} : savings'[t] = savings[t]
    PROVE  SukarelaBalance(m)'
               = SukarelaBalance(m) + Worth(savings'[s], m) - Worth(savings[s], m)
<1> DEFINE now == Worths(m)
           then == Worths(m)'
<1>1. /\ SukarelaBalance(m) = SumFunctionOnSet(now, SavingIds)
      /\ SukarelaBalance(m)' = SumFunctionOnSet(then, SavingIds)
    BY SumsAgreeNow, SumsAgreeThen DEF SumsAgree
<1>2. \A t \in SavingIds : now[t] = Worth(savings[t], m) /\ then[t] = Worth(savings'[t], m)
    BY DEF Worths
<1>3. \A t \in SavingIds : Worth(savings[t], m) \in Int /\ Worth(savings'[t], m) \in Int
    BY WorthType DEF WithdrawalsTypeOK, SavingsTypeOK
<1> HIDE DEF now, then
<1>4. \A t \in SavingIds : now[t] \in Int /\ then[t] \in Int
    BY <1>2, <1>3
<1>5. \A t \in SavingIds \ {s} : then[t] = now[t]
    BY <1>2
<1>6. SumFunctionOnSet(then, SavingIds)
          = SumFunctionOnSet(now, SavingIds) + then[s] - now[s]
    BY <1>4, <1>5, SumChange, SavingsAssumption
<1>7. QED
    BY <1>1, <1>2, <1>6

LEMMA SumsKept ==
    ASSUME NEW m
    PROVE  /\ UNCHANGED savings => SukarelaBalance(m)' = SukarelaBalance(m)
           /\ UNCHANGED withdrawals => Promised(m)' = Promised(m)
BY DEF SukarelaBalance, Promised, OpenRequests

-----------------------------------------------------------------------------
\* Recording a deposit and enlarging one add to the balance; shrinking and removing
\* one is what the property excludes.
LEMMA SavingsStepKeepsCover ==
    ASSUME WithdrawalsInvariant, WithdrawalsTypeOK', SavingsStep,
           NEW m \in Members, ~DepositShrinks(m)
    PROVE  SukarelaBalance(m) <= SukarelaBalance(m)' /\ Promised(m)' = Promised(m)
<1> USE DEF WithdrawalsInvariant
<1>1. Promised(m)' = Promised(m)
    BY SumsKept DEF SavingsStep, requestVars
<1>0. \A t \in SavingIds : savings[t] \in SavingRows
    BY DEF WithdrawalsTypeOK, SavingsTypeOK
<1>a. savings \in [SavingIds -> SavingRows]
    BY DEF WithdrawalsTypeOK, SavingsTypeOK
<1> DEFINE Grows(s) ==
        /\ \A t \in SavingIds \ {s} : savings'[t] = savings[t]
        /\ Worth(savings[s], m) <= Worth(savings'[s], m)
<1>2. ASSUME NEW s \in SavingIds, NEW n \in Members, NEW c \in Categories,
             NEW amount \in DepositAmounts, insertSaving(s, n, c, amount)
      PROVE  Grows(s)
    <2>1. amount \in Nat
        BY SavingsAssumption
    <2>2. savings[s].type = "none"
        BY <1>2 DEF insertSaving
    <2>3. savings' = [savings EXCEPT ![s] = 
              [type |-> "deposit", member |-> n, category |-> c, amount |-> amount]]
        BY <1>2 DEF insertSaving
    <2>4. savings'[s] = [type |-> "deposit", member |-> n, category |-> c, amount |-> amount]
        BY <2>3, <1>a
    <2>5. Worth(savings[s], m) = 0
        BY <2>2 DEF Worth
    <2>6. Worth(savings'[s], m) \in Nat
        BY <2>1, <2>4 DEF Worth
    <2>7. QED
        BY <1>a, <2>3, <2>5, <2>6
<1>3. ASSUME NEW s \in SavingIds, NEW amount \in DepositAmounts, correctSavingByID(s, amount)
      PROVE  Grows(s)
    <2>1. savings[s].type = "deposit" /\ amount \in Nat /\ savings[s].amount \in Nat
        BY <1>0, <1>3, SavingsAssumption DEF correctSavingByID, SavingRows
    <2>2. savings'[s] = [type |-> savings[s].type, member |-> savings[s].member,
                         category |-> savings[s].category, amount |-> amount]
        BY <1>a, <1>3, SavingShapes DEF correctSavingByID
    <2>3. savings[s].member = m => savings[s].amount <= amount
        BY <2>1, <2>2 DEF DepositShrinks
    <2>4. Worth(savings[s], m) <= Worth(savings'[s], m)
        BY <2>1, <2>2, <2>3 DEF Worth
    <2>5. QED
        BY <1>a, <1>3, <2>4 DEF correctSavingByID
<1>4. ASSUME NEW s \in SavingIds, removeSavingByID(s)
      PROVE  Grows(s)
    <2>1. savings[s].type = "deposit"
        BY <1>4 DEF removeSavingByID
    <2>2. savings'[s] = [type |-> "removed", member |-> savings[s].member,
                         category |-> savings[s].category, amount |-> savings[s].amount]
        BY <1>a, <1>4, SavingShapes DEF removeSavingByID
    <2>3. savings[s].member # m
        BY <2>1, <2>2 DEF DepositShrinks
    <2>4. Worth(savings[s], m) = 0 /\ Worth(savings'[s], m) = 0
        BY <2>2, <2>3 DEF Worth
    <2>5. QED
        BY <1>a, <1>4, <2>4 DEF removeSavingByID
<1>5. PICK s \in SavingIds : Grows(s)
    BY <1>2, <1>3, <1>4 DEF SavingsStep
<1>6. /\ Worth(savings[s], m) \in Int /\ Worth(savings'[s], m) \in Int
      /\ SukarelaBalance(m) \in Int
    BY WorthType, SumsAgreeNow DEF WithdrawalsTypeOK, SavingsTypeOK, SumsAgree
<1>7. SukarelaBalance(m)'
          = SukarelaBalance(m) + Worth(savings'[s], m) - Worth(savings[s], m)
    BY <1>5, BalanceChange
<1>8. QED
    BY <1>1, <1>5, <1>6, <1>7

\* A step that pays nothing keeps the promises covered if it promises no more, or
\* only what is available.
LEMMA NoPaymentKeepsCover ==
    ASSUME WithdrawalsInvariant, WithdrawalsTypeOK', NEW r \in WithdrawalIds,
           UNCHANGED savings,
           \A q \in WithdrawalIds \ {r} : withdrawals'[q] = withdrawals[q],
           NEW m, Covered(m),
           \/ Share(withdrawals'[r], m) <= Share(withdrawals[r], m)
           \/ \E amount \in Nat \ {0} :
                 /\ Share(withdrawals'[r], m) = amount
                 /\ amount <= availableWithdrawalAmountForSukarelaBalance(
                                  categoryBalance(m, "sukarela"),
                                  Promised(m) - Share(withdrawals[r], m))
    PROVE  Covered(m)'
<1> DEFINE P == Promised(m)
           B == SukarelaBalance(m)
           a == Share(withdrawals[r], m)
           b == Share(withdrawals'[r], m)
<1>1. P \in Nat /\ B \in Int /\ B' = B /\ P' = P + b - a /\ P' \in Nat
    BY SumsKept, SumsAgreeNow, SumsAgreeThen, PromiseChange
    DEF WithdrawalsInvariant, SumsAgree
<1>2. a \in Nat /\ b \in Nat
    BY ShareType DEF WithdrawalsInvariant, WithdrawalsTypeOK
<1>3. categoryBalance(m, "sukarela") = B
    BY CategoryBalance DEF WithdrawalsInvariant
<1>4. P - a \in Nat
    BY ReservedIsPromised
<1>5. Covered(m) <=> 4 * P <= 3 * B \/ P = 0
    BY DEF Covered
<1>6. Covered(m)' <=> 4 * P' <= 3 * B' \/ P' = 0
    BY DEF Covered
<1> HIDE DEF P, B, a, b
<1>7. CASE b <= a
    BY <1>1, <1>2, <1>5, <1>6, <1>7
<1>8. CASE b \in Nat \ {0} /\ b <= availableWithdrawalAmountForSukarelaBalance(B, P - a)
    <2>1. 4 * (b + (P - a)) <= 3 * B
        BY <1>1, <1>4, <1>8, AvailableShare
    <2>2. QED
        BY <1>1, <1>2, <1>6, <2>1
<1>9. QED
    BY <1>3, <1>7, <1>8 DEF P, B, a, b

LEMMA DisbursementKeepsCover ==
    ASSUME WithdrawalsInvariant, WithdrawalsTypeOK', NEW r \in WithdrawalIds,
           NEW s \in SavingIds, disburseWithdrawalRequestByID(r, s),
           NEW m \in Members, Covered(m)
    PROVE  Covered(m)'
<1> DEFINE w == withdrawals[r]
           P == Promised(m)
           B == SukarelaBalance(m)
           a == Share(w, m)
<1>1. w \in WithdrawalRows /\ Unpaid(w)
    BY DEF WithdrawalsInvariant, WithdrawalsTypeOK, disburseWithdrawalRequestByID,
           ReadyForDisbursement, Unpaid
<1>2. /\ withdrawals'[r] = Disbursed(w, s)
      /\ \A q \in WithdrawalIds \ {r} : withdrawals'[q] = withdrawals[q]
    BY DEF WithdrawalsInvariant, WithdrawalsTypeOK, disburseWithdrawalRequestByID
<1>3. /\ savings[s].type = "none"
      /\ savings'[s] = [type |-> "withdrawal", member |-> w.member,
                        category |-> "sukarela", amount |-> w.amount]
      /\ \A t \in SavingIds \ {s} : savings'[t] = savings[t]
    BY DEF WithdrawalsInvariant, WithdrawalsTypeOK, SavingsTypeOK,
           disburseWithdrawalRequestByID
<1>4. Share(withdrawals'[r], m) = 0
    <2>1. w.status = "approved"
        BY DEF disburseWithdrawalRequestByID, ReadyForDisbursement
    <2>2. Disbursed(w, s).status = w.status /\ Disbursed(w, s).disbursed
        BY <1>1, DisbursedFields
    <2>3. QED
        BY <1>2, <2>1, <2>2 DEF Share, Unpaid
<1>5. Worth(savings[s], m) = 0 /\ Worth(savings'[s], m) = -a
    BY <1>1, <1>3 DEF Worth, Share
<1>6. P \in Nat /\ B \in Int /\ P' \in Nat /\ P' = P - a /\ B' = B - a
    <2>1. P \in Nat /\ B \in Int /\ P' \in Nat
        BY SumsAgreeNow, SumsAgreeThen DEF WithdrawalsInvariant, SumsAgree
    <2>2. P' = P + 0 - a
        BY <1>2, <1>4, PromiseChange DEF WithdrawalsInvariant
    <2>3. B' = B + (-a) - 0
        BY <1>3, <1>5, BalanceChange DEF WithdrawalsInvariant
    <2>4. a \in Nat
        BY <1>1, ShareType
    <2> HIDE DEF P, B, a
    <2>5. QED
        BY <2>1, <2>2, <2>3, <2>4
<1>7. a \in Nat
    BY <1>1, ShareType
<1>8. Covered(m) <=> 4 * P <= 3 * B \/ P = 0
    BY DEF Covered
<1>9. Covered(m)' <=> 4 * P' <= 3 * B' \/ P' = 0
    BY DEF Covered
<1> HIDE DEF P, B, a
<1>10. QED
    BY <1>6, <1>7, <1>8, <1>9

LEMMA RequestStepKeepsCover ==
    ASSUME WithdrawalsInvariant, WithdrawalsTypeOK', NEW r \in WithdrawalIds, RequestStep(r),
           NEW m \in Members, Covered(m)
    PROVE  Covered(m)'
<1> USE DEF WithdrawalsInvariant
<1> DEFINE w == withdrawals[r]
           row == withdrawals'[r]
<1>1. CASE \E s \in SavingIds : disburseWithdrawalRequestByID(r, s)
    BY <1>1, DisbursementKeepsCover
<1>2. CASE \A s \in SavingIds : ~disburseWithdrawalRequestByID(r, s)
    <2>1. InOrder(r)
        BY DEF RequestsOK, InOrder
    <2>2. UNCHANGED savings
        BY <1>2, <2>1, DecisionKeepsOrder
    <2>3. \A q \in WithdrawalIds \ {r} : withdrawals'[q] = withdrawals[q]
        BY RequestStepKeepsOthers DEF Kept
    <2>4. w \in WithdrawalRows
        BY DEF WithdrawalsTypeOK
    <2>5. row \in WithdrawalRows
        BY DEF WithdrawalsTypeOK
    <2>a. Share(w, m) \in Nat /\ Share(row, m) \in Nat
        BY <2>4, <2>5, ShareType
    <2>6. ASSUME NEW n \in Members, NEW amount \in WithdrawalAmounts,
                 NEW source \in {"member", "officer"},
                 insertWithdrawalRequestAs(r, n, amount, source)
          PROVE  Covered(m)'
        <3>1. w.status = "none" /\ amount <= availableWithdrawal(n, {}) /\ amount \in Nat \ {0}
            BY <2>6, WithdrawalsAssumption DEF insertWithdrawalRequestAs
        <3>2. row = [status |-> "pending", stage |-> "manager", member |-> n,
                     source |-> source, amount |-> amount, reviewed |-> FALSE,
                     disbursed |-> FALSE, saving |-> NoSavingRecord]
            BY <2>6 DEF insertWithdrawalRequestAs, WithdrawalsTypeOK
        <3>3. Share(w, m) = 0
            BY <3>1 DEF Share, Unpaid
        <3>4. Share(row, m) = IF n = m THEN amount ELSE 0
            BY <3>2 DEF Share, Unpaid
        <3>5. CASE n = m
            <4>1. Reserved(m, {}) = Promised(m) /\ Promised(m) \in Nat
                BY ReservedIsPromised, SumsAgreeNow DEF SumsAgree
            <4>2. Promised(m) - Share(w, m) = Promised(m)
                BY <3>3, <4>1
            <4>3. amount <= availableWithdrawalAmountForSukarelaBalance(
                                categoryBalance(m, "sukarela"), Promised(m))
                BY <3>1, <3>5, <4>1 DEF availableWithdrawal
            <4>4. QED
                BY <2>2, <2>3, <3>1, <3>4, <3>5, <4>2, <4>3, NoPaymentKeepsCover
        <3>6. CASE n # m
            BY <2>2, <2>3, <3>3, <3>4, <3>6, NoPaymentKeepsCover
        <3>7. QED
            BY <3>5, <3>6
    <2>7. ASSUME NEW amount \in WithdrawalAmounts, updateOfficerWithdrawalRequest(r, amount)
          PROVE  Covered(m)'
        <3>1. /\ w.status = "pending" /\ amount \in Nat \ {0}
              /\ amount <= availableWithdrawal(w.member, {r})
            BY <2>7, WithdrawalsAssumption DEF updateOfficerWithdrawalRequest, Editable
        <3>2. row = Resized(w, amount)
            BY <2>7 DEF updateOfficerWithdrawalRequest, WithdrawalsTypeOK
        <3>3. Share(row, m) = IF w.member = m THEN amount ELSE 0
            <4>1. /\ Resized(w, amount).status = w.status
                  /\ Resized(w, amount).member = w.member
                  /\ Resized(w, amount).amount = amount
                BY <2>4, ResizedFields
            <4> HIDE DEF w, row
            <4>2. QED
                BY <3>1, <3>2, <4>1 DEF Share, Unpaid
        <3>4. CASE w.member = m
            <4>1. Reserved(m, {r}) = Promised(m) - Share(w, m)
                BY ReservedIsPromised
            <4>2. amount <= availableWithdrawalAmountForSukarelaBalance(
                                categoryBalance(m, "sukarela"), Promised(m) - Share(w, m))
                BY <3>1, <3>4, <4>1 DEF availableWithdrawal
            <4>3. QED
                BY <2>2, <2>3, <3>1, <3>3, <3>4, <4>2, NoPaymentKeepsCover
        <3>5. CASE w.member # m
            BY <2>2, <2>3, <2>a, <3>3, <3>5, NoPaymentKeepsCover
        <3>6. QED
            BY <3>4, <3>5
    <2>8. CASE /\ row.member = w.member /\ row.amount = w.amount
               /\ Unpaid(row) => Unpaid(w)
        <3>1. Share(row, m) <= Share(w, m)
            BY <2>8, <2>a DEF Share
        <3>2. QED
            BY <2>2, <2>3, <3>1, NoPaymentKeepsCover
    <2>9. ASSUME NEW role \in DecidingRoles, approveWithdrawalRequestByID(r, role)
          PROVE  Covered(m)'
        <3>1. w.status = "pending"
            BY <2>9 DEF approveWithdrawalRequestByID, WaitsFor
        <3>2. \/ row = Approved(w)
              \/ \E stage : row = Advanced(w, stage)
            BY <2>9 DEF approveWithdrawalRequestByID, WithdrawalsTypeOK
        <3>3. row.member = w.member /\ row.amount = w.amount
            <4>1. /\ Approved(w).member = w.member /\ Approved(w).amount = w.amount
                  /\ \A stage : /\ Advanced(w, stage).member = w.member
                                /\ Advanced(w, stage).amount = w.amount
                BY <2>4, ApprovedFields, AdvancedFields
            <4> HIDE DEF w, row
            <4>2. QED
                BY <3>2, <4>1
        <3>4. Unpaid(w)
            BY <3>1 DEF Unpaid
        <3>5. QED
            BY <2>8, <3>3, <3>4
    <2>10. CASE row \in {Approved(w), Rejected(w), Cancelled(w)} /\ w.status = "pending"
        <3>1. row.member = w.member /\ row.amount = w.amount
            <4>1. /\ Approved(w).member = w.member /\ Approved(w).amount = w.amount
                  /\ Rejected(w).member = w.member /\ Rejected(w).amount = w.amount
                  /\ Cancelled(w).member = w.member /\ Cancelled(w).amount = w.amount
                BY <2>4, ApprovedFields, RejectedFields, CancelledFields
            <4> HIDE DEF w, row
            <4>2. QED
                BY <2>10, <4>1
        <3>2. Unpaid(w)
            BY <2>10 DEF Unpaid
        <3>3. QED
            BY <2>8, <3>1, <3>2
    <2>11. CASE \E role \in DecidingRoles : rejectWithdrawalRequestByID(r, role)
        BY <2>10, <2>11, GivenUpKeeps DEF rejectWithdrawalRequestByID, WaitsFor
    <2>12. CASE \E n \in Members : cancelWithdrawalRequestByID(r, n)
        BY <2>10, <2>12, GivenUpKeeps DEF cancelWithdrawalRequestByID
    <2>13. CASE approveWithdrawalRequestBySuperAdmin(r)
        BY <2>10, <2>13 DEF approveWithdrawalRequestBySuperAdmin, MayOverride, WithdrawalsTypeOK
    <2>14. CASE rejectWithdrawalRequestBySuperAdmin(r)
        BY <2>10, <2>14, GivenUpKeeps DEF rejectWithdrawalRequestBySuperAdmin, MayOverride
    <2>15. QED
        BY <1>2, <2>6, <2>7, <2>9, <2>11, <2>12, <2>13, <2>14 DEF RequestStep
<1>3. QED
    BY <1>1, <1>2

(***************************************************************************)
(* The open requests of a member never promise more than the withdrawable  *)
(* share of the balance, unless a super admin shrinks a deposit.           *)
(***************************************************************************)
THEOREM PromisesStayCoveredHolds == WithdrawalsSpec => PromisesStayCovered
<1>1. ASSUME WithdrawalsInvariant, WithdrawalsTypeOK', [WithdrawalsNext]_withdrawalsVars,
             NEW m \in Members, Covered(m), ~DepositShrinks(m)
      PROVE  Covered(m)'
    <2>1. CASE SavingsStep
        <3>1. SukarelaBalance(m) <= SukarelaBalance(m)' /\ Promised(m)' = Promised(m)
            BY <1>1, <2>1, SavingsStepKeepsCover
        <3>2. SukarelaBalance(m) \in Int /\ SukarelaBalance(m)' \in Int
            BY <1>1, SumsAgreeNow, SumsAgreeThen DEF SumsAgree, WithdrawalsInvariant
        <3> DEFINE P == Promised(m)
                   B == SukarelaBalance(m)
        <3>3. Covered(m) <=> 4 * P <= 3 * B \/ P = 0
            BY DEF Covered
        <3>4. Covered(m)' <=> 4 * P' <= 3 * B' \/ P' = 0
            BY DEF Covered
        <3> HIDE DEF P, B
        <3>5. P \in Int /\ P' \in Int /\ P' = P /\ B \in Int /\ B' \in Int /\ B <= B'
            BY <1>1, <3>1, <3>2, SumsAgreeNow DEF P, B, SumsAgree, WithdrawalsInvariant
        <3>6. 4 * P <= 3 * B \/ P = 0
            BY <1>1, <3>3
        <3>7. \A p, q, b, c \in Int : /\ 4 * p <= 3 * b \/ p = 0
                                     /\ q = p /\ b <= c
                                     => 4 * q <= 3 * c \/ q = 0
            OBVIOUS
        <3>8. 4 * P' <= 3 * B' \/ P' = 0
            BY <3>5, <3>6, <3>7
        <3>9. QED
            BY <3>4, <3>8
    <2>2. CASE \E r \in WithdrawalIds : RequestStep(r)
        BY <1>1, <2>2, RequestStepKeepsCover
    <2>3. CASE UNCHANGED withdrawalsVars
        <3>1. SukarelaBalance(m)' = SukarelaBalance(m) /\ Promised(m)' = Promised(m)
            BY <2>3, SumsKept DEF withdrawalsVars, savingsVars, requestVars
        <3>2. QED
            BY <1>1, <3>1 DEF Covered
    <2>4. QED
        BY <1>1, <2>1, <2>2, <2>3 DEF WithdrawalsNext
<1>2. WithdrawalsInvariant /\ WithdrawalsInvariant' /\ [WithdrawalsNext]_withdrawalsVars
      => [\A m \in Members : Covered(m) /\ ~DepositShrinks(m) => Covered(m)']_withdrawalsVars
    BY <1>1 DEF WithdrawalsInvariant
<1>3. QED
    BY <1>2, InvariantHolds, PTL DEF WithdrawalsSpec, PromisesStayCovered

-----------------------------------------------------------------------------
(***************************************************************************)
(* Memberships that end.                                                   *)
(***************************************************************************)
DeactivationOK(d) ==
    LET row == deactivations[d] IN
    /\ row.status # "none" => row.member \in Members
    /\ row.status = "none" => deactivationApprovals[d] = EmptyHistory
    /\ row.status = "pending" =>
          /\ row.stage \in Stages
          /\ memberStatus[row.member] = "active"
          /\ Payable(row.balances)
          /\ deactivationApprovals[d] = DeactivationApprovedBefore(row.stage)
          /\ row.stage = "manager" <=> row.payoutSource = ""
    /\ row.status = "approved" =>
          deactivationApprovals[d] = DeactivationApprovedBefore(NoStage)
    /\ row.status # "approved" => deactivationPayouts[d] = {}

OneRequestEach ==
    \A d1, d2 \in DeactivationIds :
        /\ deactivations[d1].status = "pending"
        /\ deactivations[d2].status = "pending"
        /\ deactivations[d1].member = deactivations[d2].member
        => d1 = d2

PaidOut(d) ==
    LET row == deactivations[d] IN
    row.status = "approved" =>
        /\ \A s \in deactivationPayouts[d] :
              /\ savings[s] = [type |-> "withdrawal", member |-> row.member,
                               category |-> savings[s].category,
                               amount |-> row.balances[savings[s].category]]
              /\ row.balances[savings[s].category] # 0
        /\ \A s, t \in deactivationPayouts[d] :
              savings[s].category = savings[t].category => s = t
        /\ \A c \in Categories : row.balances[c] # 0 =>
              \E s \in deactivationPayouts[d] : savings[s].category = c

OneOrigin ==
    /\ \A s \in SavingIds : savings[s].type = "withdrawal" =>
          \/ \E r \in WithdrawalIds : withdrawals[r].disbursed /\ withdrawals[r].saving = s
          \/ \E d \in DeactivationIds : s \in deactivationPayouts[d]
    /\ \A r \in WithdrawalIds, d \in DeactivationIds :
          withdrawals[r].disbursed => withdrawals[r].saving \notin deactivationPayouts[d]
    /\ \A d1, d2 \in DeactivationIds :
          d1 # d2 => deactivationPayouts[d1] \cap deactivationPayouts[d2] = {}

AllInOrder == \A d \in DeactivationIds : DeactivationOK(d)

AllPaidOut == \A d \in DeactivationIds : PaidOut(d)

CooperativeInvariant ==
    /\ DeactivationTypeOK
    /\ RequestsOK
    /\ PaidOnce
    /\ NoOpenWithdrawals
    /\ AllInOrder
    /\ AllPaidOut
    /\ OneRequestEach
    /\ OneOrigin

-----------------------------------------------------------------------------
(***************************************************************************)
(* Balances and the rows they are made of.                                 *)
(***************************************************************************)
LEMMA BalanceType ==
    ASSUME WithdrawalsTypeOK, NEW m, NEW c
    PROVE  categoryBalance(m, c) \in Int
<1> DEFINE amounts == [s \in SavingIds |-> savings[s].amount]
           D == RowsOf(m, c, "deposit")
           W == RowsOf(m, c, "withdrawal")
<1>1. \A s \in SavingIds : amounts[s] \in Int
    BY DEF WithdrawalsTypeOK, SavingsTypeOK, SavingRows
<1>2. D \subseteq SavingIds /\ W \subseteq SavingIds
    BY DEF RowsOf
<1>3. IsFiniteSet(D) /\ IsFiniteSet(W)
    BY <1>2, FS_Subset, SavingsAssumption
<1>4. categoryBalance(m, c) = SumFunctionOnSet(amounts, D) - SumFunctionOnSet(amounts, W)
    BY DEF categoryBalance, AmountOf
<1> HIDE DEF amounts, D, W
<1>5. SumFunctionOnSet(amounts, D) \in Int /\ SumFunctionOnSet(amounts, W) \in Int
    BY <1>1, <1>2, <1>3, SumType
<1>6. QED
    BY <1>4, <1>5

\* A row that counts towards the balance of m in category c.
Counts(v, m, c) ==
    v.member = m /\ v.category = c /\ v.type \in {"deposit", "withdrawal"}

\* A balance moves only if a row that counts, or will count, is written.
LEMMA BalanceKept ==
    ASSUME NEW m, NEW c,
           \A s \in SavingIds :
               Counts(savings[s], m, c) \/ Counts(savings'[s], m, c)
               => savings'[s] = savings[s]
    PROVE  categoryBalance(m, c)' = categoryBalance(m, c)
<1> DEFINE now == [s \in SavingIds |-> savings[s].amount]
           then == [s \in SavingIds |-> savings'[s].amount]
           D == RowsOf(m, c, "deposit")
           W == RowsOf(m, c, "withdrawal")
<1>1. RowsOf(m, c, "deposit")' = D /\ RowsOf(m, c, "withdrawal")' = W
    BY DEF RowsOf, Counts
<1>2. D \subseteq SavingIds /\ W \subseteq SavingIds
    BY DEF RowsOf
<1>3. \A s \in D \cup W : then[s] = now[s]
    BY DEF RowsOf, Counts
<1>4. IsFiniteSet(D) /\ IsFiniteSet(W)
    BY <1>2, FS_Subset, SavingsAssumption
<1>5. categoryBalance(m, c) = SumFunctionOnSet(now, D) - SumFunctionOnSet(now, W)
    BY DEF categoryBalance, AmountOf
<1>6. categoryBalance(m, c)' = SumFunctionOnSet(then, RowsOf(m, c, "deposit")')
                                 - SumFunctionOnSet(then, RowsOf(m, c, "withdrawal")')
    BY DEF categoryBalance, AmountOf
<1>7. categoryBalance(m, c)' = SumFunctionOnSet(then, D) - SumFunctionOnSet(then, W)
    BY <1>1, <1>6
<1> HIDE DEF now, then, D, W
<1>8. /\ SumFunctionOnSet(then, D) = SumFunctionOnSet(now, D)
      /\ SumFunctionOnSet(then, W) = SumFunctionOnSet(now, W)
    BY <1>3, <1>4, SumSame
<1>9. QED
    BY <1>5, <1>7, <1>8

\* A withdrawal row that is new lowers the balance of its category by its amount.
LEMMA BalanceLowered ==
    ASSUME WithdrawalsTypeOK, NEW m, NEW c, NEW s \in SavingIds, NEW amount \in Nat,
           savings[s].type = "none",
           savings'[s] = [type |-> "withdrawal", member |-> m, category |-> c,
                          amount |-> amount],
           \A t \in SavingIds \ {s} :
               Counts(savings[t], m, c) \/ Counts(savings'[t], m, c)
               => savings'[t] = savings[t]
    PROVE  categoryBalance(m, c)' = categoryBalance(m, c) - amount
<1> DEFINE now == [t \in SavingIds |-> savings[t].amount]
           then == [t \in SavingIds |-> savings'[t].amount]
           D == RowsOf(m, c, "deposit")
           W == RowsOf(m, c, "withdrawal")
<1>1. RowsOf(m, c, "deposit")' = D /\ RowsOf(m, c, "withdrawal")' = W \cup {s}
    BY DEF RowsOf, Counts
<1>2. D \subseteq SavingIds /\ W \subseteq SavingIds /\ s \notin D /\ s \notin W
    BY DEF RowsOf
<1>3. \A t \in D \cup W : then[t] = now[t]
    BY DEF RowsOf, Counts
<1>4. IsFiniteSet(D) /\ IsFiniteSet(W)
    BY <1>2, FS_Subset, SavingsAssumption
<1>5. categoryBalance(m, c) = SumFunctionOnSet(now, D) - SumFunctionOnSet(now, W)
    BY DEF categoryBalance, AmountOf
<1>6. categoryBalance(m, c)' = SumFunctionOnSet(then, RowsOf(m, c, "deposit")')
                                 - SumFunctionOnSet(then, RowsOf(m, c, "withdrawal")')
    BY DEF categoryBalance, AmountOf
<1>7. categoryBalance(m, c)' = SumFunctionOnSet(then, D) - SumFunctionOnSet(then, W \cup {s})
    BY <1>1, <1>6
<1>8. then[s] = amount /\ (\A t \in SavingIds : now[t] \in Int)
    BY DEF WithdrawalsTypeOK, SavingsTypeOK, SavingRows
<1> HIDE DEF now, then, D, W
<1>9. /\ SumFunctionOnSet(then, D) = SumFunctionOnSet(now, D)
      /\ SumFunctionOnSet(then, W) = SumFunctionOnSet(now, W)
    BY <1>3, <1>4, SumSame
<1>10. SumFunctionOnSet(then, W \cup {s}) = SumFunctionOnSet(then, W) + then[s]
    <2>1. \A t \in W \cup {s} : then[t] \in Int
        BY <1>2, <1>3, <1>8
    <2>2. QED
        BY <1>2, <1>4, <2>1, SumAdd
<1>11. SumFunctionOnSet(now, D) \in Int /\ SumFunctionOnSet(now, W) \in Int
    BY <1>2, <1>4, <1>8, SumType
<1>12. QED
    BY <1>5, <1>7, <1>8, <1>9, <1>10, <1>11

-----------------------------------------------------------------------------
(***************************************************************************)
(* The row operators and the chain of a deactivation.                      *)
(***************************************************************************)
LEMMA ForwardedFields ==
    ASSUME NEW row \in DeactivationRows, NEW stage, NEW source
    PROVE  /\ Forwarded(row, stage, source).status = row.status
           /\ Forwarded(row, stage, source).stage = stage
           /\ Forwarded(row, stage, source).member = row.member
           /\ Forwarded(row, stage, source).balances = row.balances
           /\ Forwarded(row, stage, source).payoutSource = source
BY DEF DeactivationRows, Forwarded

LEMMA EndedFields ==
    ASSUME NEW row \in DeactivationRows, NEW status
    PROVE  /\ Ended(row, status).status = status
           /\ Ended(row, status).stage = NoStage
           /\ Ended(row, status).member = row.member
           /\ Ended(row, status).balances = row.balances
           /\ Ended(row, status).payoutSource = row.payoutSource
BY DEF DeactivationRows, Ended

LEMMA DeactivationRowTypes ==
    ASSUME NEW row \in DeactivationRows
    PROVE  /\ \A stage \in Stages, source \in {"", "cash", "bank"} :
                  Forwarded(row, stage, source) \in DeactivationRows
           /\ \A status \in {"approved", "rejected", "cancelled"} :
                  Ended(row, status) \in DeactivationRows
<1>1. \A stage \in Stages, source \in {"", "cash", "bank"} :
          Forwarded(row, stage, source) \in DeactivationRows
    BY DEF DeactivationRows, Forwarded
<1>2. \A status \in {"approved", "rejected", "cancelled"} :
          Ended(row, status) \in DeactivationRows
    BY DEF DeactivationRows, Ended
<1>3. QED
    BY <1>1, <1>2

LEMMA DeactivationStages ==
    /\ NoStage \notin Stages /\ "manager" \in Stages
    /\ \A stage \in Stages : nextApprovalStage(stage) \in Stages \cup {NoStage}
    /\ \A stage \in Stages : nextApprovalStage(stage) # "manager"
    /\ DeactivationApprovedBefore("manager") = EmptyHistory
BY DEF Stages, NoStage, nextApprovalStage, DeactivationApprovedBefore,
       DeactivationStagesBefore, EmptyHistory

LEMMA DeactivationApprovalExtends ==
    ASSUME NEW stage \in Stages
    PROVE  insertApprovalDecision(DeactivationApprovedBefore(stage), stage, "approved")
               = DeactivationApprovedBefore(nextApprovalStage(stage))
<1> USE DEF Stages, NoStage, nextApprovalStage, insertApprovalDecision,
            DeactivationApprovedBefore, DeactivationStagesBefore
<1>1. CASE stage = "manager"
    BY <1>1
<1>2. CASE stage = "ketua_i"
    BY <1>2
<1>3. CASE stage = "ketua_ii"
    BY <1>3
<1>4. CASE stage = "ketua_utama"
    BY <1>4
<1>5. QED
    BY <1>1, <1>2, <1>3, <1>4

-----------------------------------------------------------------------------
(***************************************************************************)
(* The rows a payout writes: records says which row each category got.     *)
(***************************************************************************)
NotEmpty(row) == {c \in Categories : row.balances[c] # 0}

PaidBy(d, records) ==
    LET row == deactivations[d] IN
    /\ records \in [NotEmpty(row) -> SavingIds]
    /\ \A c \in NotEmpty(row) :
          /\ savings[records[c]].type = "none"
          /\ savings'[records[c]] = [type |-> "withdrawal", member |-> row.member,
                                     category |-> c, amount |-> row.balances[c]]
    /\ \A s \in SavingIds :
          (\A c \in NotEmpty(row) : s # records[c]) => savings'[s] = savings[s]
    /\ savings' = [s \in SavingIds |-> savings'[s]]
    /\ deactivationPayouts'[d] = {records[c] : c \in NotEmpty(row)}
    /\ \A e \in DeactivationIds \ {d} : deactivationPayouts'[e] = deactivationPayouts[e]
    /\ deactivationPayouts' = [e \in DeactivationIds |-> deactivationPayouts'[e]]

LEMMA PayOutRecords ==
    ASSUME DeactivationTypeOK, NEW d \in DeactivationIds, PayOut(d)
    PROVE  \E records : PaidBy(d, records)
<1> DEFINE row == deactivations[d]
           paid == NotEmpty(row)
           free == {s \in SavingIds : savings[s].type = "none"}
<1>1. PICK records \in Injection(paid, free) :
          /\ savings' = [s \in SavingIds |->
                 IF s \in Range(records)
                 THEN LET c == AntiFunction(records)[s] IN
                      [type |-> "withdrawal", member |-> row.member, category |-> c,
                       amount |-> row.balances[c]]
                 ELSE savings[s]]
          /\ deactivationPayouts' = [deactivationPayouts EXCEPT ![d] = Range(records)]
    BY DEF PayOut, NotEmpty
<1>2. /\ records \in [paid -> free]
      /\ \A a, b \in paid : records[a] = records[b] => a = b
    BY DEF Injection, IsInjective
<1>3. Range(records) = {records[c] : c \in paid}
    BY <1>2 DEF Range
<1>4. ASSUME NEW c \in paid
      PROVE  AntiFunction(records)[records[c]] = c
    <2>1. records[c] \in Range(records) /\ DOMAIN records = paid
        BY <1>2, <1>3
    <2>2. AntiFunction(records)[records[c]]
              = CHOOSE a \in paid : records[c] \in Range(records) => records[a] = records[c]
        BY <2>1 DEF AntiFunction, Inverse
    <2> HIDE DEF paid
    <2>3. \E a \in paid : records[c] \in Range(records) => records[a] = records[c]
        OBVIOUS
    <2>4. QED
        BY <1>2, <2>1, <2>2, <2>3
<1> HIDE DEF paid, row
<1>5. \A c \in paid :
          /\ records[c] \in SavingIds /\ savings[records[c]].type = "none"
          /\ savings'[records[c]] = [type |-> "withdrawal", member |-> row.member,
                                     category |-> c, amount |-> row.balances[c]]
    BY <1>1, <1>2, <1>3, <1>4
<1>6. \A s \in SavingIds : (\A c \in paid : s # records[c]) => savings'[s] = savings[s]
    BY <1>1, <1>3
<1>7. records \in [paid -> SavingIds]
    BY <1>2
<1>8. savings' = [s \in SavingIds |-> savings'[s]]
    BY <1>1
<1>9. /\ deactivationPayouts'[d] = {records[c] : c \in paid}
      /\ \A e \in DeactivationIds \ {d} : deactivationPayouts'[e] = deactivationPayouts[e]
      /\ deactivationPayouts' = [e \in DeactivationIds |-> deactivationPayouts'[e]]
    BY <1>1, <1>3 DEF DeactivationTypeOK
<1>10. QED
    BY <1>5, <1>6, <1>7, <1>8, <1>9 DEF PaidBy, paid, row

-----------------------------------------------------------------------------
(***************************************************************************)
(* Steps that pay no deactivation leave what was paid alone.               *)
(***************************************************************************)
PaymentsKept ==
    \A r \in WithdrawalIds :
        /\ withdrawals'[r].disbursed = withdrawals[r].disbursed
        /\ withdrawals'[r].saving = withdrawals[r].saving

LEMMA PayoutType ==
    ASSUME CooperativeInvariant, NEW d \in DeactivationIds, NEW s \in deactivationPayouts[d]
    PROVE  s \in SavingIds /\ savings[s].type = "withdrawal" /\ deactivations[d].status = "approved"
<1>1. s \in SavingIds
    BY DEF CooperativeInvariant, DeactivationTypeOK
<1>2. deactivations[d].status = "approved"
    BY DEF CooperativeInvariant, AllInOrder, DeactivationOK
<1>3. savings[s] = [type |-> "withdrawal", member |-> deactivations[d].member,
                    category |-> savings[s].category,
                    amount |-> deactivations[d].balances[savings[s].category]]
    BY <1>2 DEF CooperativeInvariant, AllPaidOut, PaidOut
<1>4. savings[s].type = "withdrawal"
    BY <1>3
<1>5. QED
    BY <1>1, <1>2, <1>4

LEMMA NoPayoutKeepsPaid ==
    ASSUME CooperativeInvariant, PayoutsKept, PaymentsKept, UNCHANGED deactivationPayouts,
           \A d \in DeactivationIds :
               \/ deactivations'[d] = deactivations[d]
               \/ deactivations'[d].status # "approved"
    PROVE  AllPaidOut' /\ OneOrigin'
<1>1. \A d \in DeactivationIds : \A s \in deactivationPayouts[d] :
          s \in SavingIds /\ savings'[s] = savings[s]
    BY PayoutType DEF PayoutsKept
<1>2. ASSUME NEW d \in DeactivationIds
      PROVE  PaidOut(d)'
    <2>1. CASE deactivations'[d] = deactivations[d]
        BY <1>1, <2>1 DEF CooperativeInvariant, AllPaidOut, PaidOut
    <2>2. CASE deactivations'[d].status # "approved"
        BY <2>2 DEF PaidOut
    <2>3. QED
        BY <2>1, <2>2
<1>3. OneOrigin'
    BY DEF CooperativeInvariant, OneOrigin, PayoutsKept, PaymentsKept
<1>4. QED
    BY <1>2, <1>3 DEF AllPaidOut

LEMMA DisbursementKeepsPaid ==
    ASSUME CooperativeInvariant, NEW r \in WithdrawalIds, NEW s \in SavingIds,
           disburseWithdrawalRequestByID(r, s), UNCHANGED deactivationPayouts
    PROVE  AllPaidOut' /\ OneOrigin'
<1> DEFINE w == withdrawals[r]
<1>1. w \in WithdrawalRows /\ ~w.disbursed /\ savings[s].type = "none"
    BY DEF CooperativeInvariant, DeactivationTypeOK, WithdrawalsTypeOK,
           disburseWithdrawalRequestByID, ReadyForDisbursement
<1>2. /\ \A t \in SavingIds \ {s} : savings'[t] = savings[t]
      /\ UNCHANGED deactivations
    BY DEF CooperativeInvariant, DeactivationTypeOK, WithdrawalsTypeOK, SavingsTypeOK,
           disburseWithdrawalRequestByID
<1>3. /\ withdrawals'[r] = Disbursed(w, s)
      /\ \A q \in WithdrawalIds \ {r} : withdrawals'[q] = withdrawals[q]
    BY DEF CooperativeInvariant, DeactivationTypeOK, WithdrawalsTypeOK,
           disburseWithdrawalRequestByID
<1>4. withdrawals'[r].disbursed /\ withdrawals'[r].saving = s
    <2>1. Disbursed(w, s).disbursed /\ Disbursed(w, s).saving = s
        BY <1>1, DisbursedFields
    <2> HIDE DEF w
    <2>2. QED
        BY <1>3, <2>1
<1>5. \A d \in DeactivationIds : s \notin deactivationPayouts[d]
    BY <1>1, PayoutType
<1>6. \A d \in DeactivationIds : \A t \in deactivationPayouts[d] :
          t \in SavingIds /\ savings'[t] = savings[t]
    BY <1>2, <1>5, PayoutType
<1>7. AllPaidOut'
    BY <1>2, <1>6 DEF CooperativeInvariant, AllPaidOut, PaidOut
<1>8. OneOrigin'
    <2>1. ASSUME NEW t \in SavingIds, savings'[t].type = "withdrawal"
          PROVE  \/ \E q \in WithdrawalIds : withdrawals'[q].disbursed /\ withdrawals'[q].saving = t
                 \/ \E d \in DeactivationIds : t \in deactivationPayouts'[d]
        <3>1. CASE t = s
            BY <1>4, <3>1
        <3>2. CASE t # s
            BY <1>1, <1>2, <1>3, <2>1, <3>2 DEF CooperativeInvariant, OneOrigin
        <3>3. QED
            BY <3>1, <3>2
    <2>2. ASSUME NEW q \in WithdrawalIds, NEW d \in DeactivationIds, withdrawals'[q].disbursed
          PROVE  withdrawals'[q].saving \notin deactivationPayouts'[d]
        <3>1. CASE q = r
            BY <1>4, <1>5, <3>1
        <3>2. CASE q # r
            BY <1>3, <2>2, <3>2 DEF CooperativeInvariant, OneOrigin
        <3>3. QED
            BY <3>1, <3>2
    <2>3. QED
        BY <2>1, <2>2 DEF CooperativeInvariant, OneOrigin
<1>9. QED
    BY <1>7, <1>8

-----------------------------------------------------------------------------
(***************************************************************************)
(* A step of the savings or the withdrawals keeps the invariant.           *)
(***************************************************************************)
LEMMA WithdrawalsKeepMembers ==
    ASSUME WithdrawalsNext
    PROVE  UNCHANGED <<memberStatus, deactivations>>
<1>1. CASE SavingsStep
    BY <1>1 DEF SavingsStep, insertSaving, correctSavingByID, removeSavingByID
<1>2. CASE \E r \in WithdrawalIds : RequestStep(r)
    BY <1>2 DEF RequestStep, insertWithdrawalRequestAs, updateOfficerWithdrawalRequest,
                approveWithdrawalRequestByID, rejectWithdrawalRequestByID,
                cancelWithdrawalRequestByID, disburseWithdrawalRequestByID,
                approveWithdrawalRequestBySuperAdmin,
                rejectWithdrawalRequestBySuperAdmin, savingsVars
<1>3. QED
    BY <1>1, <1>2 DEF WithdrawalsNext

MayNotAsk(m) == memberStatus[m] # "active" \/ hasPendingMemberDeactivation(m)

LEMMA NothingOpens ==
    ASSUME WithdrawalsTypeOK, NEW r \in WithdrawalIds, RequestStep(r),
           NEW m \in Members, MayNotAsk(m),
           withdrawals'[r].member = m, Unpaid(withdrawals'[r])
    PROVE  withdrawals[r].member = m /\ Unpaid(withdrawals[r])
<1> DEFINE w == withdrawals[r]
           row == withdrawals'[r]
           Goal == w.member = m /\ Unpaid(w)
<1>w. w \in WithdrawalRows
    BY DEF WithdrawalsTypeOK
<1>1. ASSUME NEW n \in Members, NEW amount \in WithdrawalAmounts,
             NEW source \in {"member", "officer"},
             insertWithdrawalRequestAs(r, n, amount, source)
      PROVE  Goal
    <2>1. row = [status |-> "pending", stage |-> "manager", member |-> n,
                 source |-> source, amount |-> amount, reviewed |-> FALSE,
                 disbursed |-> FALSE, saving |-> NoSavingRecord]
        BY <1>1 DEF insertWithdrawalRequestAs, WithdrawalsTypeOK
    <2>2. n = m
        BY <2>1
    <2>3. QED
        BY <1>1, <2>2 DEF insertWithdrawalRequestAs, MayNotAsk
<1>2. ASSUME NEW amount \in WithdrawalAmounts, updateOfficerWithdrawalRequest(r, amount)
      PROVE  Goal
    <2>1. row = Resized(w, amount)
        BY <1>2 DEF updateOfficerWithdrawalRequest, WithdrawalsTypeOK
    <2>2. /\ Resized(w, amount).status = w.status
          /\ Resized(w, amount).member = w.member
          /\ Resized(w, amount).disbursed = w.disbursed
        BY <1>w, ResizedFields
    <2> HIDE DEF w, row
    <2>3. row.status = w.status /\ row.member = w.member /\ row.disbursed = w.disbursed
        BY <2>1, <2>2
    <2>4. QED
        BY <2>3 DEF Unpaid, row, w
<1>3. ASSUME NEW role \in DecidingRoles, approveWithdrawalRequestByID(r, role)
      PROVE  Goal
    <2>1. w.status = "pending"
        BY <1>3 DEF approveWithdrawalRequestByID, WaitsFor
    <2>2. row = Approved(w) \/ \E stage : row = Advanced(w, stage)
        BY <1>3 DEF approveWithdrawalRequestByID, WithdrawalsTypeOK
    <2>3. Approved(w).member = w.member /\ \A stage : Advanced(w, stage).member = w.member
        BY <1>w, ApprovedFields, AdvancedFields
    <2> HIDE DEF w, row
    <2>4. row.member = w.member
        BY <2>2, <2>3
    <2>5. QED
        BY <2>1, <2>4 DEF Unpaid, row
<1>4. CASE row = Rejected(w) \/ row = Cancelled(w)
    <2>1. Rejected(w).status = "rejected" /\ Cancelled(w).status = "cancelled"
        BY <1>w, RejectedFields, CancelledFields
    <2> HIDE DEF w, row
    <2>2. row.status \in {"rejected", "cancelled"}
        BY <1>4, <2>1
    <2>3. QED
        BY <2>2 DEF Unpaid, row
<1>5. ASSUME NEW role \in DecidingRoles, rejectWithdrawalRequestByID(r, role)
      PROVE  Goal
    BY <1>4, <1>5, GivenUpKeeps DEF rejectWithdrawalRequestByID
<1>6. ASSUME NEW n \in Members, cancelWithdrawalRequestByID(r, n)
      PROVE  Goal
    BY <1>4, <1>6, GivenUpKeeps DEF cancelWithdrawalRequestByID
<1>7. ASSUME NEW s \in SavingIds, disburseWithdrawalRequestByID(r, s)
      PROVE  Goal
    <2>1. row = Disbursed(w, s)
        BY <1>7 DEF disburseWithdrawalRequestByID, WithdrawalsTypeOK
    <2>2. /\ Disbursed(w, s).status = w.status /\ Disbursed(w, s).disbursed
        BY <1>w, DisbursedFields
    <2>3. w.status = "approved"
        BY <1>7 DEF disburseWithdrawalRequestByID, ReadyForDisbursement
    <2> HIDE DEF w, row
    <2>4. row.status = "approved" /\ row.disbursed
        BY <2>1, <2>2, <2>3
    <2>5. QED
        BY <2>4 DEF Unpaid, row
<1>8. CASE approveWithdrawalRequestBySuperAdmin(r)
    <2>1. w.status = "pending" /\ row = Approved(w)
        BY <1>8 DEF approveWithdrawalRequestBySuperAdmin, MayOverride, WithdrawalsTypeOK
    <2>2. Approved(w).member = w.member
        BY <1>w, ApprovedFields
    <2> HIDE DEF w, row
    <2>3. row.member = w.member
        BY <2>1, <2>2
    <2>4. QED
        BY <2>1, <2>3 DEF Unpaid, row, w
<1>9. CASE rejectWithdrawalRequestBySuperAdmin(r)
    BY <1>4, <1>9, GivenUpKeeps DEF rejectWithdrawalRequestBySuperAdmin
<1>10. QED
    BY <1>1, <1>2, <1>3, <1>5, <1>6, <1>7, <1>8, <1>9 DEF RequestStep

LEMMA OpenRequest ==
    \A m, r : r \in OpenRequests(m) <=>
        r \in WithdrawalIds /\ withdrawals[r].member = m /\ Unpaid(withdrawals[r])
BY DEF OpenRequests, Unpaid

\* OpenRequest holds after a step too.
OpenRequestFact ==
    \A m, r : r \in OpenRequests(m) <=>
        r \in WithdrawalIds /\ withdrawals[r].member = m /\ Unpaid(withdrawals[r])

LEMMA OpenRequestNow == OpenRequestFact
BY OpenRequest DEF OpenRequestFact

LEMMA OpenRequestThen == OpenRequestFact'
<1>1. QED
    BY OpenRequestNow, PTL

LEMMA WithdrawalsStepKeepsMoney ==
    ASSUME CooperativeInvariant, WithdrawalsNext, UNCHANGED deactivationVars
    PROVE  /\ DeactivationTypeOK' /\ RequestsOK' /\ PaidOnce'
           /\ AllPaidOut'
           /\ OneOrigin'
<1> USE DEF CooperativeInvariant
<1>1. UNCHANGED <<memberStatus, deactivations, deactivationPayouts>>
    BY WithdrawalsKeepMembers DEF deactivationVars
<1>2. WithdrawalsTypeOK
    BY DEF DeactivationTypeOK
<1>3. CASE SavingsStep
    <2>1. WithdrawalsTypeOK' /\ PayoutsKept /\ UNCHANGED requestVars
        BY <1>2, <1>3, SavingsStepTypeOK, SavingsStepKeepsPayouts DEF SavingsStep
    <2>2. RequestsOK'
        BY <2>1 DEF RequestsOK, requestVars
    <2>3. PaidOnce'
        BY <2>1 DEF PaidOnce, PayoutsKept, requestVars
    <2>4. PaymentsKept
        BY <2>1 DEF PaymentsKept, requestVars
    <2>5. AllPaidOut' /\ OneOrigin'
        BY <1>1, <2>1, <2>4, NoPayoutKeepsPaid
    <2>6. QED
        BY <2>1, <2>2, <2>3, <2>5 DEF DeactivationTypeOK, deactivationVars
<1>4. ASSUME NEW r \in WithdrawalIds, RequestStep(r)
      PROVE  /\ DeactivationTypeOK' /\ RequestsOK' /\ PaidOnce'
             /\ AllPaidOut'
             /\ OneOrigin'
    <2>1. WithdrawalsTypeOK' /\ RequestsOK'
        BY <1>2, <1>4, RequestStepTypeOK, RequestStepKeepsOrder
    <2>2. DeactivationTypeOK'
        BY <2>1 DEF DeactivationTypeOK, deactivationVars
    <2>3. CASE \E s \in SavingIds : disburseWithdrawalRequestByID(r, s)
        BY <1>1, <1>2, <2>1, <2>2, <2>3, DisbursementKeepsPayments, DisbursementKeepsPaid
    <2>4. CASE \A s \in SavingIds : ~disburseWithdrawalRequestByID(r, s)
        <3>1. PaidOnce' /\ UNCHANGED savings /\ PaymentsKept
            BY <1>2, <1>4, <2>1, <2>4, DecisionKeepsPayments DEF PaymentsKept
        <3>2. PayoutsKept
            BY <3>1 DEF PayoutsKept
        <3>3. QED
            BY <1>1, <2>1, <2>2, <3>1, <3>2, NoPayoutKeepsPaid
    <2>5. QED
        BY <2>3, <2>4
<1>5. QED
    BY <1>3, <1>4 DEF WithdrawalsNext

LEMMA WithdrawalsStepKeepsInvariant ==
    ASSUME CooperativeInvariant, WithdrawalsNext, UNCHANGED deactivationVars
    PROVE  CooperativeInvariant'
<1>1. UNCHANGED <<memberStatus, deactivations, deactivationApprovals, deactivationPayouts>>
    BY WithdrawalsKeepMembers DEF deactivationVars
<1>2. AllInOrder' /\ OneRequestEach'
    BY <1>1 DEF CooperativeInvariant, AllInOrder, DeactivationOK, OneRequestEach
<1>3. NoOpenWithdrawals'
    <2>1. SUFFICES ASSUME NEW m \in Members, MayNotAsk(m), NEW q \in WithdrawalIds,
                          withdrawals'[q].member = m, Unpaid(withdrawals'[q])
                   PROVE  withdrawals[q].member = m /\ Unpaid(withdrawals[q])
        BY <1>1, OpenRequestNow, OpenRequestThen
        DEF OpenRequestFact, CooperativeInvariant, NoOpenWithdrawals, MayNotAsk,
            hasPendingMemberDeactivation
    <2>2. CASE SavingsStep
        BY <2>1, <2>2 DEF SavingsStep, requestVars
    <2>3. ASSUME NEW r \in WithdrawalIds, RequestStep(r)
          PROVE  withdrawals[q].member = m /\ Unpaid(withdrawals[q])
        <3>1. WithdrawalsTypeOK
            BY DEF CooperativeInvariant, DeactivationTypeOK
        <3>2. CASE q = r
            BY <2>1, <2>3, <3>1, <3>2, NothingOpens
        <3>3. CASE q # r
            BY <2>1, <2>3, <3>1, <3>3, RequestStepKeepsOthers DEF Kept
        <3>4. QED
            BY <3>2, <3>3
    <2>4. QED
        BY <2>2, <2>3 DEF WithdrawalsNext
<1>4. QED
    BY <1>2, <1>3, WithdrawalsStepKeepsMoney DEF CooperativeInvariant

-----------------------------------------------------------------------------
(***************************************************************************)
(* A step of a deactivation that pays nothing keeps the invariant.         *)
(***************************************************************************)
LEMMA BalancesType ==
    ASSUME WithdrawalsTypeOK, NEW m
    PROVE  memberDeactivationBalances(m) \in [Categories -> Int]
BY BalanceType DEF memberDeactivationBalances

\* What every decision does to its own row of member_deactivation_request_approvals
\* and what it leaves alone.
LEMMA DecisionKeeps ==
    ASSUME DeactivationTypeOK, NEW d \in DeactivationIds, NEW stage,
           NEW decision \in {"approved", "rejected"},
           insertMemberDeactivationDecisionTx(d, stage, decision)
    PROVE  /\ stage \in Stages
           /\ deactivationApprovals'[d] =
                  insertApprovalDecision(deactivationApprovals[d], stage, decision)
           /\ \A e \in DeactivationIds \ {d} :
                  deactivationApprovals'[e] = deactivationApprovals[e]
           /\ deactivationApprovals' \in [DeactivationIds -> Histories]
BY DEF DeactivationTypeOK, insertMemberDeactivationDecisionTx, MayDecide,
       insertApprovalDecision, Histories

LEMMA DeactivationNotifiedType ==
    ASSUME DeactivationTypeOK, NEW d \in DeactivationIds,
           NEW audiences \in SUBSET Audiences, DeactivationNotified(d, audiences)
    PROVE  deactivationNotices' \in [DeactivationIds -> SUBSET Audiences]
BY DEF DeactivationTypeOK, DeactivationNotified, createNotifications,
       resolveRequestNotifications

\* The other requests stay in order unless the member of a pending one is touched.
LEMMA OthersStayInOrder ==
    ASSUME CooperativeInvariant, NEW d \in DeactivationIds,
           NEW e \in DeactivationIds, e # d,
           deactivations'[e] = deactivations[e],
           deactivationApprovals'[e] = deactivationApprovals[e],
           deactivationPayouts'[e] = deactivationPayouts[e],
           deactivations[e].status = "pending" =>
               memberStatus'[deactivations[e].member] = memberStatus[deactivations[e].member]
    PROVE  DeactivationOK(e)'
BY DEF CooperativeInvariant, AllInOrder, DeactivationOK

LEMMA OnlyRowMoves ==
    ASSUME CooperativeInvariant, NEW d \in DeactivationIds,
           deactivations[d].status = "pending",
           deactivations'[d].status # "approved",
           deactivations'[d].member = deactivations[d].member,
           \A e \in DeactivationIds \ {d} : deactivations'[e] = deactivations[e],
           UNCHANGED <<memberStatus, savings, requestVars, deactivationPayouts>>
    PROVE  /\ RequestsOK' /\ PaidOnce' /\ NoOpenWithdrawals'
           /\ AllPaidOut' /\ OneOrigin' /\ OneRequestEach'
<1>1. RequestsOK' /\ PaidOnce'
    BY DEF CooperativeInvariant, RequestsOK, PaidOnce, requestVars
<1>2. PayoutsKept /\ PaymentsKept
    BY DEF PayoutsKept, PaymentsKept, requestVars
<1>3. AllPaidOut' /\ OneOrigin'
    BY <1>2, NoPayoutKeepsPaid
<1>4. OneRequestEach'
    BY DEF CooperativeInvariant, OneRequestEach
<1>5. \A m : OpenRequests(m)' = OpenRequests(m)
    BY DEF OpenRequests, requestVars
<1>6. \A m : hasPendingMemberDeactivation(m)' => hasPendingMemberDeactivation(m)
    BY DEF hasPendingMemberDeactivation
<1>7. NoOpenWithdrawals'
    BY <1>5, <1>6 DEF CooperativeInvariant, NoOpenWithdrawals
<1>8. QED
    BY <1>1, <1>3, <1>4, <1>7

LEMMA ForwardingKeepsInvariant ==
    ASSUME CooperativeInvariant, NEW d \in DeactivationIds, NEW role \in DecidingRoles,
           NEW source \in PayoutSources,
           approveMemberDeactivationRequestByID(d, role, source),
           nextApprovalStage(approvalStageForOfficer(role)) # NoStage
    PROVE  CooperativeInvariant'
<1> DEFINE row == deactivations[d]
           stage == approvalStageForOfficer(role)
           next == nextApprovalStage(stage)
           chosen == PayoutSource(d, stage, source)
           then == deactivations'[d]
<1>1. /\ row.status = "pending" /\ row.stage = stage
      /\ insertMemberDeactivationDecisionTx(d, stage, "approved")
      /\ deactivations' = [deactivations EXCEPT ![d] = Forwarded(@, next, chosen)]
      /\ DeactivationNotified(d, {next})
      /\ UNCHANGED <<memberStatus, savings, requestVars, deactivationPayouts>>
    BY DEF approveMemberDeactivationRequestByID, DeactivationWaitsFor
<1>2. DeactivationTypeOK /\ WithdrawalsTypeOK /\ SavingsTypeOK /\ row \in DeactivationRows
    BY DEF CooperativeInvariant, DeactivationTypeOK, WithdrawalsTypeOK, SavingsTypeOK
<1>3. stage \in Stages /\ next \in Stages /\ next # "manager"
    BY <1>1, <1>2, DecisionKeeps, DeactivationStages
<1>4. then = Forwarded(row, next, chosen)
      /\ \A e \in DeactivationIds \ {d} : deactivations'[e] = deactivations[e]
    BY <1>1, <1>2 DEF SavingsTypeOK
<1>5. chosen \in {"cash", "bank"}
    <2>1. CASE stage = "manager"
        BY <2>1, DeactivationAssumption DEF PayoutSource
    <2>2. CASE stage # "manager"
        <3>1. row.payoutSource # "" /\ row.payoutSource \in {"", "cash", "bank"}
            BY <1>1, <1>2, <2>2
            DEF CooperativeInvariant, AllInOrder, DeactivationOK, DeactivationRows
        <3>2. QED
            BY <2>2, <3>1 DEF PayoutSource
    <2>3. QED
        BY <2>1, <2>2
<1>6. /\ then.status = "pending" /\ then.stage = next /\ then.member = row.member
      /\ then.balances = row.balances /\ then.payoutSource = chosen
    <2>1. /\ Forwarded(row, next, chosen).status = row.status
          /\ Forwarded(row, next, chosen).stage = next
          /\ Forwarded(row, next, chosen).member = row.member
          /\ Forwarded(row, next, chosen).balances = row.balances
          /\ Forwarded(row, next, chosen).payoutSource = chosen
        BY <1>2, ForwardedFields
    <2> HIDE DEF row, next, chosen, then
    <2>2. QED
        BY <1>1, <1>4, <2>1
<1>7. DeactivationTypeOK'
    <2>1. deactivations' \in [DeactivationIds -> DeactivationRows]
        <3>1. Forwarded(row, next, chosen) \in DeactivationRows
            BY <1>2, <1>3, <1>5, DeactivationRowTypes
        <3> HIDE DEF next, chosen
        <3>2. QED
            BY <1>1, <1>2, <3>1 DEF SavingsTypeOK
    <2>2. deactivationApprovals' \in [DeactivationIds -> Histories]
        BY <1>1, <1>2, DecisionKeeps
    <2>3. {next} \in SUBSET Audiences
        BY <1>3 DEF Audiences
    <2> HIDE DEF next
    <2>4. deactivationNotices' \in [DeactivationIds -> SUBSET Audiences]
        BY <1>1, <1>2, <2>3, DeactivationNotifiedType
    <2>5. QED
        BY <1>1, <1>2, <2>1, <2>2, <2>4
        DEF DeactivationTypeOK, WithdrawalsTypeOK, SavingsTypeOK, requestVars
<1>8. deactivationApprovals'[d] = DeactivationApprovedBefore(next)
    <2>1. deactivationApprovals[d] = DeactivationApprovedBefore(stage)
        BY <1>1 DEF CooperativeInvariant, AllInOrder, DeactivationOK
    <2>2. QED
        BY <1>1, <1>2, <1>3, <2>1, DecisionKeeps, DeactivationApprovalExtends
<1>9. DeactivationOK(d)'
    <2>1. /\ row.member \in Members /\ memberStatus[row.member] = "active"
          /\ Payable(row.balances) /\ deactivationPayouts[d] = {}
        BY <1>1 DEF CooperativeInvariant, AllInOrder, DeactivationOK
    <2> HIDE DEF row, stage, next, chosen
    <2>2. QED
        BY <1>1, <1>3, <1>5, <1>6, <1>8, <2>1 DEF DeactivationOK, then, Payable
<1>10. \A e \in DeactivationIds \ {d} : DeactivationOK(e)'
    BY <1>1, <1>2, <1>4, DecisionKeeps, OthersStayInOrder
<1>11. AllInOrder'
    BY <1>9, <1>10 DEF AllInOrder
<1>12. /\ RequestsOK' /\ PaidOnce' /\ NoOpenWithdrawals'
       /\ AllPaidOut' /\ OneOrigin' /\ OneRequestEach'
    BY <1>1, <1>4, <1>6, OnlyRowMoves
<1>13. QED
    BY <1>7, <1>11, <1>12 DEF CooperativeInvariant

\* A rejection and a cancellation.
LEMMA EndingKeepsInvariant ==
    ASSUME CooperativeInvariant, NEW d \in DeactivationIds,
           NEW status \in {"rejected", "cancelled"},
           deactivations[d].status = "pending",
           deactivations' = [deactivations EXCEPT ![d] = Ended(@, status)],
           deactivationApprovals' \in [DeactivationIds -> Histories],
           \A e \in DeactivationIds \ {d} :
               deactivationApprovals'[e] = deactivationApprovals[e],
           NEW audiences \in SUBSET Audiences, DeactivationNotified(d, audiences),
           UNCHANGED <<memberStatus, savings, requestVars, deactivationPayouts>>
    PROVE  CooperativeInvariant'
<1> DEFINE row == deactivations[d]
           then == deactivations'[d]
<1>1. DeactivationTypeOK /\ WithdrawalsTypeOK /\ SavingsTypeOK /\ row \in DeactivationRows
    BY DEF CooperativeInvariant, DeactivationTypeOK, WithdrawalsTypeOK, SavingsTypeOK
<1>2. then = Ended(row, status)
      /\ \A e \in DeactivationIds \ {d} : deactivations'[e] = deactivations[e]
    BY <1>1 DEF SavingsTypeOK
<1>3. then.status = status /\ then.member = row.member
    <2>1. Ended(row, status).status = status /\ Ended(row, status).member = row.member
        BY <1>1, EndedFields
    <2> HIDE DEF row, then
    <2>2. QED
        BY <1>2, <2>1
<1>4. DeactivationTypeOK'
    <2>1. Ended(row, status) \in DeactivationRows
        BY <1>1, DeactivationRowTypes
    <2>2. deactivations' \in [DeactivationIds -> DeactivationRows]
        BY <1>1, <2>1 DEF SavingsTypeOK
    <2>3. deactivationNotices' \in [DeactivationIds -> SUBSET Audiences]
        BY <1>1, DeactivationNotifiedType
    <2>4. QED
        BY <1>1, <2>2, <2>3
        DEF DeactivationTypeOK, WithdrawalsTypeOK, SavingsTypeOK, requestVars
<1>5. DeactivationOK(d)'
    <2>1. row.member \in Members /\ deactivationPayouts[d] = {}
        BY DEF CooperativeInvariant, AllInOrder, DeactivationOK
    <2> HIDE DEF row
    <2>2. QED
        BY <1>3, <2>1 DEF DeactivationOK, then
<1>6. \A e \in DeactivationIds \ {d} : DeactivationOK(e)'
    BY <1>2, OthersStayInOrder
<1>7. AllInOrder'
    BY <1>5, <1>6 DEF AllInOrder
<1>8. /\ RequestsOK' /\ PaidOnce' /\ NoOpenWithdrawals'
      /\ AllPaidOut' /\ OneOrigin' /\ OneRequestEach'
    BY <1>2, <1>3, OnlyRowMoves
<1>9. QED
    BY <1>4, <1>7, <1>8 DEF CooperativeInvariant

-----------------------------------------------------------------------------
(***************************************************************************)
(* The request itself: the member's open withdrawals are cancelled.        *)
(***************************************************************************)
LEMMA ClearingKeepsRequests ==
    ASSUME WithdrawalsTypeOK, RequestsOK, PaidOnce, NEW m,
           cancelMemberPendingWithdrawalsTx(m),
           UNCHANGED <<savings, withdrawalApprovals, withdrawalOverrides>>
    PROVE  /\ withdrawals' \in [WithdrawalIds -> WithdrawalRows]
           /\ reservations' \in [WithdrawalIds -> ReservationRows]
           /\ withdrawalNotices' \in [WithdrawalIds -> SUBSET Audiences]
           /\ RequestsOK' /\ PaidOnce' /\ PaymentsKept
           /\ \A r \in WithdrawalIds : Unpaid(withdrawals'[r]) =>
                  withdrawals'[r] = withdrawals[r] /\ withdrawals[r].member # m
<1>1. \A r \in WithdrawalIds :
          r \in OpenWithdrawals(m) <=> withdrawals[r].member = m /\ Unpaid(withdrawals[r])
    BY DEF OpenWithdrawals, Unpaid
<1>2. ASSUME NEW r \in WithdrawalIds, r \in OpenWithdrawals(m)
      PROVE  /\ withdrawals'[r] = Cancelled(withdrawals[r])
             /\ reservations'[r] = Settled(reservations[r], "released")
             /\ withdrawalNotices'[r] = {}
    BY <1>2 DEF cancelMemberPendingWithdrawalsTx, resolveRequestNotifications
<1>3. ASSUME NEW r \in WithdrawalIds, r \notin OpenWithdrawals(m)
      PROVE  Kept(r)
    BY <1>3 DEF cancelMemberPendingWithdrawalsTx, Kept
<1>4. \A r \in WithdrawalIds : withdrawals[r] \in WithdrawalRows
                               /\ reservations[r] \in ReservationRows
    BY DEF WithdrawalsTypeOK
<1>5. ASSUME NEW r \in WithdrawalIds
      PROVE  /\ withdrawals'[r] \in WithdrawalRows /\ reservations'[r] \in ReservationRows
             /\ withdrawalNotices'[r] \in SUBSET Audiences
    <2>1. CASE r \in OpenWithdrawals(m)
        BY <1>2, <1>4, <2>1, RowTypes, ReservationTypes
    <2>2. CASE r \notin OpenWithdrawals(m)
        BY <1>3, <1>4, <2>2 DEF Kept, WithdrawalsTypeOK
    <2>3. QED
        BY <2>1, <2>2
<1>6. /\ withdrawals' = [r \in WithdrawalIds |-> withdrawals'[r]]
      /\ reservations' = [r \in WithdrawalIds |-> reservations'[r]]
      /\ withdrawalNotices' = [r \in WithdrawalIds |-> withdrawalNotices'[r]]
    BY DEF cancelMemberPendingWithdrawalsTx
<1>7. /\ withdrawals' \in [WithdrawalIds -> WithdrawalRows]
      /\ reservations' \in [WithdrawalIds -> ReservationRows]
      /\ withdrawalNotices' \in [WithdrawalIds -> SUBSET Audiences]
    BY <1>5, <1>6
<1>8. ASSUME NEW r \in WithdrawalIds
      PROVE  RequestOK(withdrawals'[r], reservations'[r], withdrawalApprovals[r],
                       withdrawalOverrides[r], withdrawalNotices'[r])
    <2>1. RequestOK(withdrawals[r], reservations[r], withdrawalApprovals[r],
                    withdrawalOverrides[r], withdrawalNotices[r])
        BY DEF RequestsOK
    <2>2. CASE r \in OpenWithdrawals(m)
        BY <1>1, <1>2, <1>4, <2>1, <2>2, CancelledOK
    <2>3. CASE r \notin OpenWithdrawals(m)
        BY <1>3, <2>1, <2>3 DEF Kept
    <2>4. QED
        BY <2>2, <2>3
<1>9. RequestsOK'
    BY <1>8 DEF RequestsOK
<1>10. ASSUME NEW r \in WithdrawalIds
       PROVE  /\ withdrawals'[r].disbursed = withdrawals[r].disbursed
              /\ withdrawals'[r].saving = withdrawals[r].saving
              /\ withdrawals'[r] = withdrawals[r] \/ ~withdrawals[r].disbursed
    <2>1. CASE r \in OpenWithdrawals(m)
        <3>1. ~withdrawals[r].disbursed
            BY <1>1, <2>1 DEF Unpaid, PaidOnce
        <3>2. QED
            BY <1>2, <1>4, <2>1, <3>1, CancelledFields
    <2>2. CASE r \notin OpenWithdrawals(m)
        BY <1>3, <2>2 DEF Kept
    <2>3. QED
        BY <2>1, <2>2
<1>11. PaidOnce' /\ PaymentsKept
    BY <1>10, ZenonT(60) DEF PaidOnce, PaymentsKept
<1>12. ASSUME NEW r \in WithdrawalIds, Unpaid(withdrawals'[r])
       PROVE  withdrawals'[r] = withdrawals[r] /\ withdrawals[r].member # m
    <2>1. CASE r \in OpenWithdrawals(m)
        <3>1. Cancelled(withdrawals[r]).status = "cancelled"
            BY <1>4, CancelledFields
        <3>2. withdrawals'[r].status = "cancelled"
            BY <1>2, <2>1, <3>1
        <3>3. QED
            BY <1>12, <3>2 DEF Unpaid
    <2>2. CASE r \notin OpenWithdrawals(m)
        <3>1. withdrawals'[r] = withdrawals[r]
            BY <1>3, <2>2 DEF Kept
        <3>2. Unpaid(withdrawals[r])
            BY <1>12, <3>1
        <3>3. QED
            BY <1>1, <2>2, <3>1, <3>2
    <2>3. QED
        BY <2>1, <2>2
<1>13. QED
    BY <1>7, <1>9, <1>11, <1>12

LEMMA RequestKeepsInvariant ==
    ASSUME CooperativeInvariant, NEW d \in DeactivationIds, NEW m \in Members,
           insertMemberDeactivationRequest(d, m)
    PROVE  CooperativeInvariant'
<1> DEFINE balances == memberDeactivationBalances(m)
           row == [status |-> "pending", stage |-> "manager", member |-> m,
                   balances |-> balances, payoutSource |-> ""]
<1>1. /\ deactivations[d].status = "none" /\ memberStatus[m] = "active"
      /\ ~hasPendingMemberDeactivation(m) /\ Payable(balances)
      /\ deactivations' = [deactivations EXCEPT ![d] = row]
      /\ cancelMemberPendingWithdrawalsTx(m)
      /\ deactivationNotices' = [deactivationNotices EXCEPT ![d] =
             createNotifications(@, {"manager"})]
      /\ UNCHANGED <<memberStatus, savings, withdrawalApprovals, withdrawalOverrides,
                     deactivationApprovals, deactivationPayouts>>
    BY DEF insertMemberDeactivationRequest
<1>2. DeactivationTypeOK /\ WithdrawalsTypeOK /\ SavingsTypeOK
    BY DEF CooperativeInvariant, DeactivationTypeOK, WithdrawalsTypeOK
<1>3. deactivations'[d] = row
      /\ \A e \in DeactivationIds \ {d} : deactivations'[e] = deactivations[e]
    BY <1>1, <1>2 DEF SavingsTypeOK
<1>4. /\ withdrawals' \in [WithdrawalIds -> WithdrawalRows]
      /\ reservations' \in [WithdrawalIds -> ReservationRows]
      /\ withdrawalNotices' \in [WithdrawalIds -> SUBSET Audiences]
      /\ RequestsOK' /\ PaidOnce' /\ PaymentsKept
      /\ \A r \in WithdrawalIds : Unpaid(withdrawals'[r]) =>
             withdrawals'[r] = withdrawals[r] /\ withdrawals[r].member # m
    BY <1>1, <1>2, ClearingKeepsRequests DEF CooperativeInvariant
<1>5. balances \in [Categories -> Int]
    BY <1>2, BalancesType
<1>a. /\ row.status = "pending" /\ row.stage = "manager" /\ row.member = m
      /\ row.balances = balances /\ row.payoutSource = ""
    OBVIOUS
<1>b. row \in DeactivationRows
    BY <1>5, DeactivationStages DEF DeactivationRows
<1> HIDE DEF balances, row
<1>c. /\ deactivations'[d].status = "pending" /\ deactivations'[d].stage = "manager"
      /\ deactivations'[d].member = m /\ deactivations'[d].balances = balances
      /\ deactivations'[d].payoutSource = ""
    BY <1>3, <1>a
<1>6. DeactivationTypeOK'
    <2>1. row \in DeactivationRows
        BY <1>b
    <2>2. deactivations' \in [DeactivationIds -> DeactivationRows]
        BY <1>1, <1>2, <2>1 DEF SavingsTypeOK
    <2>3. deactivationNotices' \in [DeactivationIds -> SUBSET Audiences]
        BY <1>1, <1>2, DeactivationStages DEF DeactivationTypeOK, createNotifications, Audiences
    <2>4. QED
        BY <1>1, <1>2, <1>4, <2>2, <2>3
        DEF DeactivationTypeOK, WithdrawalsTypeOK, SavingsTypeOK
<1>7. DeactivationOK(d)'
    <2>1. deactivationApprovals[d] = EmptyHistory /\ deactivationPayouts[d] = {}
        BY <1>1 DEF CooperativeInvariant, AllInOrder, DeactivationOK
    <2>2. QED
        BY <1>1, <1>c, <2>1, DeactivationStages DEF DeactivationOK, Payable
<1>8. \A e \in DeactivationIds \ {d} : DeactivationOK(e)'
    BY <1>1, <1>3, OthersStayInOrder
<1>9. OneRequestEach'
    <2>1. \A e \in DeactivationIds :
              deactivations[e].status = "pending" => deactivations[e].member # m
        BY <1>1 DEF hasPendingMemberDeactivation
    <2>2. OneRequestEach
        BY DEF CooperativeInvariant
    <2>3. ASSUME NEW e \in DeactivationIds \ {d}, deactivations'[e].status = "pending"
          PROVE  deactivations'[e].member # deactivations'[d].member
        BY <1>3, <1>c, <2>1, <2>3
    <2>4. SUFFICES ASSUME NEW a \in DeactivationIds, NEW b \in DeactivationIds, a # b,
                          deactivations'[a].status = "pending",
                          deactivations'[b].status = "pending"
                   PROVE  deactivations'[a].member # deactivations'[b].member
        BY DEF OneRequestEach
    <2>5. CASE a = d \/ b = d
        BY <2>3, <2>4, <2>5
    <2>6. CASE a # d /\ b # d
        BY <1>3, <2>2, <2>4, <2>6 DEF OneRequestEach
    <2>7. QED
        BY <2>5, <2>6
<1>10. AllPaidOut' /\ OneOrigin'
    <2>1. PayoutsKept
        BY <1>1 DEF PayoutsKept
    <2>2. deactivations'[d].status # "approved"
        BY <1>c
    <2>3. QED
        BY <1>1, <1>3, <1>4, <2>1, <2>2, NoPayoutKeepsPaid
<1>11. NoOpenWithdrawals'
    <2>1. SUFFICES ASSUME NEW n \in Members,
                          memberStatus'[n] # "active" \/ hasPendingMemberDeactivation(n)',
                          NEW q \in WithdrawalIds,
                          withdrawals'[q].member = n, Unpaid(withdrawals'[q])
                   PROVE  FALSE
        BY OpenRequestThen DEF OpenRequestFact, NoOpenWithdrawals
    <2>2. withdrawals'[q] = withdrawals[q] /\ n # m
        BY <1>4, <2>1
    <2>3. MayNotAsk(n)
        BY <1>1, <1>3, <1>c, <2>1, <2>2 DEF MayNotAsk, hasPendingMemberDeactivation
    <2>4. q \in OpenRequests(n)
        BY <2>1, <2>2, OpenRequestNow DEF OpenRequestFact
    <2>5. QED
        BY <2>3, <2>4 DEF MayNotAsk, CooperativeInvariant, NoOpenWithdrawals
<1>12. QED
    BY <1>4, <1>6, <1>7, <1>8, <1>9, <1>10, <1>11 DEF CooperativeInvariant, AllInOrder

-----------------------------------------------------------------------------
(***************************************************************************)
(* The last approval: rows that did not exist are written, all others and  *)
(* all requests stay as they are.                                          *)
(***************************************************************************)
\* What the last approval reads, checks and writes.
LastApproval(d, records) ==
    LET row == deactivations[d] IN
    /\ row.status = "pending" /\ row.member \in Members
    /\ Payable(row.balances)
    /\ memberDeactivationBalances(row.member) = row.balances
    /\ ~LastKetuaUtama(row.member)
    /\ PaidBy(d, records)
    /\ memberStatus' = [memberStatus EXCEPT ![row.member] = "inactive"]
    /\ deactivations' = [deactivations EXCEPT ![d] = Ended(row, "approved")]
    /\ deactivationApprovals'[d] = DeactivationApprovedBefore(NoStage)
    /\ \A e \in DeactivationIds \ {d} : deactivationApprovals'[e] = deactivationApprovals[e]
    /\ deactivationApprovals' \in [DeactivationIds -> Histories]
    /\ DeactivationNotified(d, {"member"})
    /\ UNCHANGED requestVars

LEMMA LastApprovalFacts ==
    ASSUME CooperativeInvariant, NEW d \in DeactivationIds, NEW role \in DecidingRoles,
           NEW source \in PayoutSources,
           approveMemberDeactivationRequestByID(d, role, source),
           nextApprovalStage(approvalStageForOfficer(role)) = NoStage
    PROVE  \E records : LastApproval(d, records)
<1> DEFINE row == deactivations[d]
           stage == approvalStageForOfficer(role)
<1>1. /\ row.status = "pending" /\ row.stage = stage
      /\ insertMemberDeactivationDecisionTx(d, stage, "approved")
      /\ memberDeactivationBalances(row.member) = row.balances
      /\ ~LastKetuaUtama(row.member)
      /\ PayOut(d)
      /\ memberStatus' = [memberStatus EXCEPT ![row.member] = "inactive"]
      /\ deactivations' = [deactivations EXCEPT ![d] = Ended(@, "approved")]
      /\ DeactivationNotified(d, {"member"})
      /\ UNCHANGED requestVars
    BY DEF approveMemberDeactivationRequestByID, DeactivationWaitsFor,
           sameDeactivationBalances
<1>2. DeactivationTypeOK /\ SavingsTypeOK
    BY DEF CooperativeInvariant, DeactivationTypeOK, WithdrawalsTypeOK
<1>3. stage \in Stages
    BY <1>1, <1>2, DecisionKeeps
<1>4. /\ row.member \in Members /\ Payable(row.balances)
      /\ deactivationApprovals[d] = DeactivationApprovedBefore(stage)
    BY <1>1 DEF CooperativeInvariant, AllInOrder, DeactivationOK
<1>5. /\ deactivationApprovals'[d] = DeactivationApprovedBefore(NoStage)
      /\ \A e \in DeactivationIds \ {d} :
             deactivationApprovals'[e] = deactivationApprovals[e]
      /\ deactivationApprovals' \in [DeactivationIds -> Histories]
    BY <1>1, <1>2, <1>3, <1>4, DecisionKeeps, DeactivationApprovalExtends
<1>6. PICK records : PaidBy(d, records)
    BY <1>1, <1>2, PayOutRecords
<1>7. LastApproval(d, records)
    BY <1>1, <1>4, <1>5, <1>6 DEF LastApproval
<1>8. QED
    BY <1>7

LEMMA PayoutRows ==
    ASSUME CooperativeInvariant, NEW d \in DeactivationIds, NEW records,
           LastApproval(d, records)
    PROVE  /\ \A s \in SavingIds : savings[s].type # "none" => savings'[s] = savings[s]
           /\ \A s \in SavingIds : savings'[s] # savings[s] => s \in deactivationPayouts'[d]
           /\ \A s \in deactivationPayouts'[d] :
                 \E c \in NotEmpty(deactivations[d]) :
                     /\ s = records[c] /\ s \in SavingIds
                     /\ savings[s].type = "none"
                     /\ savings'[s] = [type |-> "withdrawal",
                                       member |-> deactivations[d].member,
                                       category |-> c,
                                       amount |-> deactivations[d].balances[c]]
           /\ savings' \in [SavingIds -> SavingRows]
<1> DEFINE row == deactivations[d]
           Written(c) == [type |-> "withdrawal", member |-> row.member,
                          category |-> c, amount |-> row.balances[c]]
<1>1. /\ records \in [NotEmpty(row) -> SavingIds]
      /\ \A c \in NotEmpty(row) : savings[records[c]].type = "none"
                                  /\ savings'[records[c]] = Written(c)
      /\ \A s \in SavingIds :
             (\A c \in NotEmpty(row) : s # records[c]) => savings'[s] = savings[s]
      /\ savings' = [s \in SavingIds |-> savings'[s]]
      /\ deactivationPayouts'[d] = {records[c] : c \in NotEmpty(row)}
    BY DEF LastApproval, PaidBy
<1>2. \A s \in SavingIds : savings[s] \in SavingRows
    BY DEF CooperativeInvariant, DeactivationTypeOK, WithdrawalsTypeOK, SavingsTypeOK
<1>3. ASSUME NEW c \in NotEmpty(row) PROVE Written(c) \in SavingRows
    <2>1. row \in DeactivationRows
        BY DEF CooperativeInvariant, DeactivationTypeOK, WithdrawalsTypeOK, SavingsTypeOK
    <2>2. c \in Categories /\ row.balances[c] \in Int /\ row.balances[c] >= 0
        BY <2>1 DEF LastApproval, Payable, NotEmpty, DeactivationRows
    <2>3. row.member \in Members
        BY DEF LastApproval
    <2> HIDE DEF row
    <2>4. QED
        BY <2>2, <2>3 DEF SavingRows
<1> HIDE DEF Written
<1>4. \A s \in SavingIds : savings'[s] \in SavingRows
    BY <1>1, <1>2, <1>3
<1>5. savings' \in [SavingIds -> SavingRows]
    BY <1>1, <1>4
<1>6. \A s \in SavingIds : savings[s].type # "none" => savings'[s] = savings[s]
    BY <1>1
<1>7. \A s \in SavingIds : savings'[s] # savings[s] => s \in deactivationPayouts'[d]
    BY <1>1
<1>8. \A s \in deactivationPayouts'[d] : \E c \in NotEmpty(row) :
          /\ s = records[c] /\ s \in SavingIds
          /\ savings[s].type = "none" /\ savings'[s] = Written(c)
    BY <1>1
<1>9. QED
    BY <1>5, <1>6, <1>7, <1>8 DEF Written

LEMMA PayoutIsPaid ==
    ASSUME CooperativeInvariant, NEW d \in DeactivationIds, NEW records,
           LastApproval(d, records)
    PROVE  AllPaidOut' /\ OneOrigin'
<1> DEFINE row == deactivations[d]
           Written(c) == [type |-> "withdrawal", member |-> row.member,
                          category |-> c, amount |-> row.balances[c]]
<1>1. /\ \A s \in SavingIds : savings[s].type # "none" => savings'[s] = savings[s]
      /\ \A s \in SavingIds : savings'[s] # savings[s] => s \in deactivationPayouts'[d]
      /\ \A s \in deactivationPayouts'[d] : \E c \in NotEmpty(row) :
             /\ s = records[c] /\ s \in SavingIds
             /\ savings[s].type = "none" /\ savings'[s] = Written(c)
    BY PayoutRows
<1>2. /\ \A e \in DeactivationIds \ {d} : deactivationPayouts'[e] = deactivationPayouts[e]
      /\ deactivationPayouts'[d] = {records[c] : c \in NotEmpty(row)}
      /\ \A c \in NotEmpty(row) : savings'[records[c]] = Written(c)
    BY DEF LastApproval, PaidBy
<1>3. \A c : Written(c).category = c /\ Written(c).member = row.member
             /\ Written(c).type = "withdrawal" /\ Written(c).amount = row.balances[c]
    OBVIOUS
<1>4. row \in DeactivationRows /\ SavingsTypeOK
    BY DEF CooperativeInvariant, DeactivationTypeOK, WithdrawalsTypeOK, SavingsTypeOK
<1>5. /\ deactivations'[d] = Ended(row, "approved")
      /\ \A e \in DeactivationIds \ {d} : deactivations'[e] = deactivations[e]
    BY <1>4 DEF LastApproval, SavingsTypeOK
<1>6. /\ deactivations'[d].member = row.member
      /\ deactivations'[d].balances = row.balances
    <2>1. Ended(row, "approved").member = row.member
          /\ Ended(row, "approved").balances = row.balances
        BY <1>4, EndedFields
    <2>2. QED
        BY <1>5, <2>1
<1>7. deactivationPayouts[d] = {}
    <2>1. row.status = "pending"
        BY DEF LastApproval
    <2>2. QED
        BY <2>1 DEF CooperativeInvariant, AllInOrder, DeactivationOK
<1> HIDE DEF row
<1>8. ASSUME NEW s \in deactivationPayouts'[d]
      PROVE  /\ savings'[s] = Written(savings'[s].category)
             /\ savings'[s].category \in NotEmpty(row)
             /\ s = records[savings'[s].category]
    <2>1. PICK c \in NotEmpty(row) : s = records[c] /\ savings'[s] = Written(c)
        BY <1>1
    <2>2. savings'[s].category = c
        BY <1>3, <2>1
    <2>3. QED
        BY <2>1, <2>2
<1>9. PaidOut(d)'
    <2>1. \A s, t \in deactivationPayouts'[d] :
              savings'[s].category = savings'[t].category => s = t
        BY <1>8
    <2>2. \A c \in Categories : row.balances[c] # 0 =>
              \E s \in deactivationPayouts'[d] : savings'[s].category = c
        <3>1. SUFFICES ASSUME NEW c \in NotEmpty(row)
                       PROVE  \E s \in deactivationPayouts'[d] : savings'[s].category = c
            BY DEF NotEmpty
        <3>2. records[c] \in deactivationPayouts'[d] /\ savings'[records[c]] = Written(c)
            BY <1>2
        <3>3. savings'[records[c]].category = c
            BY <1>3, <3>2
        <3>4. QED
            BY <3>2, <3>3
    <2>3. \A s \in deactivationPayouts'[d] :
              /\ savings'[s] = Written(savings'[s].category)
              /\ row.balances[savings'[s].category] # 0
        BY <1>8 DEF NotEmpty
    <2>4. QED
        BY <1>6, <2>1, <2>2, <2>3 DEF PaidOut
<1>10. ASSUME NEW e \in DeactivationIds \ {d} PROVE PaidOut(e)'
    <2>1. \A s \in deactivationPayouts[e] : s \in SavingIds /\ savings'[s] = savings[s]
        BY <1>1, PayoutType
    <2>2. QED
        BY <1>2, <1>5, <2>1 DEF CooperativeInvariant, AllPaidOut, PaidOut
<1>11. AllPaidOut'
    BY <1>9, <1>10 DEF AllPaidOut
<1>12. ASSUME NEW s \in deactivationPayouts'[d]
       PROVE  s \in SavingIds /\ savings[s].type = "none"
    BY <1>1
<1>13. ASSUME NEW s \in SavingIds, savings'[s].type = "withdrawal"
       PROVE  \/ \E r \in WithdrawalIds : withdrawals'[r].disbursed /\ withdrawals'[r].saving = s
              \/ \E e \in DeactivationIds : s \in deactivationPayouts'[e]
    <2>1. CASE savings'[s] # savings[s]
        BY <1>1, <2>1
    <2>2. CASE savings'[s] = savings[s]
        <3>1. \/ \E r \in WithdrawalIds : withdrawals[r].disbursed /\ withdrawals[r].saving = s
              \/ \E e \in DeactivationIds : s \in deactivationPayouts[e]
            BY <1>13, <2>2 DEF CooperativeInvariant, OneOrigin
        <3>2. withdrawals' = withdrawals
            BY DEF LastApproval, requestVars
        <3>3. QED
            BY <1>2, <1>7, <3>1, <3>2
    <2>3. QED
        BY <2>1, <2>2
<1>14. ASSUME NEW r \in WithdrawalIds, NEW e \in DeactivationIds, withdrawals'[r].disbursed
       PROVE  withdrawals'[r].saving \notin deactivationPayouts'[e]
    <2>1. withdrawals' = withdrawals
        BY DEF LastApproval, requestVars
    <2>2. CASE e = d
        <3>1. savings[withdrawals[r].saving] =
                  [type |-> "withdrawal", member |-> withdrawals[r].member,
                   category |-> "sukarela", amount |-> withdrawals[r].amount]
            BY <1>14, <2>1 DEF CooperativeInvariant, PaidOnce
        <3>2. savings[withdrawals[r].saving].type = "withdrawal"
            BY <3>1
        <3>3. QED
            BY <1>12, <2>1, <2>2, <3>2
    <2>3. CASE e # d
        BY <1>2, <1>14, <2>1, <2>3 DEF CooperativeInvariant, OneOrigin
    <2>4. QED
        BY <2>2, <2>3
<1>15. ASSUME NEW d1 \in DeactivationIds, NEW d2 \in DeactivationIds, d1 # d2
       PROVE  deactivationPayouts'[d1] \cap deactivationPayouts'[d2] = {}
    <2>1. \A e \in DeactivationIds \ {d} :
              deactivationPayouts'[d] \cap deactivationPayouts'[e] = {}
        BY <1>2, <1>12, PayoutType
    <2>2. CASE d1 # d /\ d2 # d
        BY <1>2, <1>15, <2>2 DEF CooperativeInvariant, OneOrigin
    <2>3. QED
        BY <1>15, <2>1, <2>2
<1>16. OneOrigin'
    BY <1>13, <1>14, <1>15 DEF OneOrigin
<1>17. QED
    BY <1>11, <1>16

LEMMA PayoutKeepsInvariant ==
    ASSUME CooperativeInvariant, NEW d \in DeactivationIds, NEW records,
           LastApproval(d, records)
    PROVE  CooperativeInvariant'
<1> DEFINE row == deactivations[d]
           m == row.member
<1>1. DeactivationTypeOK /\ WithdrawalsTypeOK /\ SavingsTypeOK /\ row \in DeactivationRows
    BY DEF CooperativeInvariant, DeactivationTypeOK, WithdrawalsTypeOK, SavingsTypeOK
<1>2. /\ deactivations'[d] = Ended(row, "approved")
      /\ \A e \in DeactivationIds \ {d} : deactivations'[e] = deactivations[e]
    BY <1>1 DEF LastApproval, SavingsTypeOK
<1>3. /\ deactivations'[d].status = "approved" /\ deactivations'[d].member = m
    <2>1. Ended(row, "approved").status = "approved" /\ Ended(row, "approved").member = m
        BY <1>1, EndedFields
    <2>2. QED
        BY <1>2, <2>1
<1>4. /\ m \in Members /\ row.status = "pending"
      /\ memberStatus'[m] = "inactive"
      /\ \A n \in Members \ {m} : memberStatus'[n] = memberStatus[n]
      /\ UNCHANGED requestVars
    BY <1>1 DEF LastApproval, SavingsTypeOK
<1>5. DeactivationTypeOK'
    <2>1. memberStatus' \in [Members -> MemberStatuses]
        BY <1>1 DEF LastApproval, SavingsTypeOK, MemberStatuses
    <2>2. deactivations' \in [DeactivationIds -> DeactivationRows]
        BY <1>1, DeactivationRowTypes DEF LastApproval, SavingsTypeOK
    <2>3. savings' \in [SavingIds -> SavingRows]
        BY PayoutRows
    <2>4. deactivationApprovals' \in [DeactivationIds -> Histories]
        BY DEF LastApproval
    <2>5. deactivationNotices' \in [DeactivationIds -> SUBSET Audiences]
        <3>1. {"member"} \in SUBSET Audiences
            BY DEF Audiences
        <3>2. QED
            BY <1>1, <3>1, DeactivationNotifiedType DEF LastApproval
    <2>6. deactivationPayouts' \in [DeactivationIds -> SUBSET SavingIds]
        <3>1. deactivationPayouts'[d] \in SUBSET SavingIds
            BY PayoutRows
        <3>2. \A e \in DeactivationIds : deactivationPayouts'[e] \in SUBSET SavingIds
            BY <1>1, <3>1 DEF LastApproval, PaidBy, DeactivationTypeOK
        <3>3. deactivationPayouts' = [e \in DeactivationIds |-> deactivationPayouts'[e]]
            BY DEF LastApproval, PaidBy
        <3>4. QED
            BY <3>2, <3>3
    <2>7. QED
        BY <1>1, <1>4, <2>1, <2>2, <2>3, <2>4, <2>5, <2>6
        DEF DeactivationTypeOK, WithdrawalsTypeOK, SavingsTypeOK, requestVars
<1>6. RequestsOK'
    BY <1>4 DEF CooperativeInvariant, RequestsOK, requestVars
<1>7. PaidOnce'
    <2>1. \A s \in SavingIds : savings[s].type # "none" => savings'[s] = savings[s]
        BY PayoutRows
    <2>2. \A r \in WithdrawalIds : withdrawals[r].disbursed =>
              /\ withdrawals[r].saving \in SavingIds
              /\ savings'[withdrawals[r].saving] = savings[withdrawals[r].saving]
        <3>1. SUFFICES ASSUME NEW r \in WithdrawalIds, withdrawals[r].disbursed
                       PROVE  /\ withdrawals[r].saving \in SavingIds
                              /\ savings'[withdrawals[r].saving]
                                     = savings[withdrawals[r].saving]
            OBVIOUS
        <3>2. /\ withdrawals[r].saving \in SavingIds
              /\ savings[withdrawals[r].saving] =
                     [type |-> "withdrawal", member |-> withdrawals[r].member,
                      category |-> "sukarela", amount |-> withdrawals[r].amount]
            BY <3>1 DEF CooperativeInvariant, PaidOnce
        <3>3. savings[withdrawals[r].saving].type = "withdrawal"
            BY <3>2
        <3>4. QED
            BY <2>1, <3>2, <3>3
    <2>3. withdrawals' = withdrawals
        BY <1>4 DEF requestVars
    <2>4. QED
        BY <2>2, <2>3 DEF CooperativeInvariant, PaidOnce
<1> HIDE DEF row, m
<1>8. \A e \in DeactivationIds \ {d} :
          deactivations[e].status = "pending" => deactivations[e].member # m
    BY <1>4 DEF CooperativeInvariant, OneRequestEach, row, m
<1>9. NoOpenWithdrawals'
    <2>1. \A n : OpenRequests(n)' = OpenRequests(n)
        BY <1>4 DEF OpenRequests, requestVars
    <2>2. OpenRequests(m) = {}
        BY <1>4 DEF CooperativeInvariant, NoOpenWithdrawals, hasPendingMemberDeactivation,
                    row, m
    <2>3. \A n : hasPendingMemberDeactivation(n)' => hasPendingMemberDeactivation(n)
        BY <1>2, <1>3 DEF hasPendingMemberDeactivation
    <2>4. QED
        BY <1>4, <2>1, <2>2, <2>3 DEF CooperativeInvariant, NoOpenWithdrawals
<1>10. DeactivationOK(d)'
    <2>1. deactivationApprovals'[d] = DeactivationApprovedBefore(NoStage)
        BY DEF LastApproval
    <2>2. QED
        BY <1>3, <1>4, <2>1 DEF DeactivationOK
<1>11. \A e \in DeactivationIds \ {d} : DeactivationOK(e)'
    <2>1. SUFFICES ASSUME NEW e \in DeactivationIds \ {d} PROVE DeactivationOK(e)'
        OBVIOUS
    <2>2. /\ deactivationApprovals'[e] = deactivationApprovals[e]
          /\ deactivationPayouts'[e] = deactivationPayouts[e]
        BY DEF LastApproval, PaidBy
    <2>3. deactivations[e].status = "pending" => deactivations[e].member \in Members
        BY DEF CooperativeInvariant, AllInOrder, DeactivationOK
    <2>4. QED
        BY <1>2, <1>4, <1>8, <2>2, <2>3, OthersStayInOrder
<1>12. OneRequestEach'
    BY <1>2, <1>3 DEF CooperativeInvariant, OneRequestEach
<1>13. QED
    BY <1>5, <1>6, <1>7, <1>9, <1>10, <1>11, <1>12, PayoutIsPaid
    DEF CooperativeInvariant, AllInOrder

-----------------------------------------------------------------------------
LEMMA CooperativeInit == DeactivationInit => CooperativeInvariant
<1> SUFFICES ASSUME DeactivationInit PROVE CooperativeInvariant
    OBVIOUS
<1>1. WithdrawalsInvariant
    BY InitInvariant DEF DeactivationInit
<1>2. /\ deactivations = [d \in DeactivationIds |-> NoDeactivation]
      /\ deactivationApprovals = [d \in DeactivationIds |-> EmptyHistory]
      /\ deactivationPayouts = [d \in DeactivationIds |-> {}]
      /\ deactivationNotices = [d \in DeactivationIds |-> {}]
      /\ withdrawals = [r \in WithdrawalIds |-> NoWithdrawal]
      /\ savings = [s \in SavingIds |-> NoSaving]
    BY DEF DeactivationInit, WithdrawalsInit, SavingsInit
<1>3. NoDeactivation.status = "none" /\ NoWithdrawal.status = "none"
      /\ NoSaving.type = "none" /\ ~NoWithdrawal.disbursed
    BY DEF NoDeactivation, NoWithdrawal, NoSaving
<1>4. DeactivationTypeOK
    BY <1>1, <1>2 DEF WithdrawalsInvariant, DeactivationTypeOK, EmptyHistory, Histories
<1>5. AllInOrder /\ AllPaidOut /\ OneRequestEach
    BY <1>2, <1>3 DEF AllInOrder, DeactivationOK, AllPaidOut, PaidOut, OneRequestEach
<1>6. OneOrigin
    BY <1>2, <1>3 DEF OneOrigin
<1>7. NoOpenWithdrawals
    BY <1>2, <1>3 DEF NoOpenWithdrawals, OpenRequests
<1>8. QED
    BY <1>1, <1>4, <1>5, <1>6, <1>7 DEF CooperativeInvariant, WithdrawalsInvariant

LEMMA DeactivationStepKeepsInvariant ==
    ASSUME CooperativeInvariant, NEW d \in DeactivationIds, DeactivationStep(d)
    PROVE  CooperativeInvariant'
<1>1. ASSUME NEW m \in Members, insertMemberDeactivationRequest(d, m)
      PROVE  CooperativeInvariant'
    BY <1>1, RequestKeepsInvariant
<1>2. ASSUME NEW role \in DecidingRoles, NEW source \in PayoutSources,
             approveMemberDeactivationRequestByID(d, role, source)
      PROVE  CooperativeInvariant'
    <2>1. CASE nextApprovalStage(approvalStageForOfficer(role)) # NoStage
        BY <1>2, <2>1, ForwardingKeepsInvariant
    <2>2. CASE nextApprovalStage(approvalStageForOfficer(role)) = NoStage
        BY <1>2, <2>2, LastApprovalFacts, PayoutKeepsInvariant
    <2>3. QED
        BY <2>1, <2>2
<1>3. DeactivationTypeOK /\ {"member"} \in SUBSET Audiences /\ {} \in SUBSET Audiences
    BY DEF CooperativeInvariant, Audiences
<1>4. ASSUME NEW role \in DecidingRoles, rejectMemberDeactivationRequestByID(d, role)
      PROVE  CooperativeInvariant'
    <2> DEFINE stage == approvalStageForOfficer(role)
    <2>1. insertMemberDeactivationDecisionTx(d, stage, "rejected")
        BY <1>4 DEF rejectMemberDeactivationRequestByID
    <2>2. /\ \A e \in DeactivationIds \ {d} :
                 deactivationApprovals'[e] = deactivationApprovals[e]
          /\ deactivationApprovals' \in [DeactivationIds -> Histories]
        BY <1>3, <2>1, DecisionKeeps
    <2>3. /\ deactivations[d].status = "pending"
          /\ deactivations' = [deactivations EXCEPT ![d] = Ended(@, "rejected")]
          /\ DeactivationNotified(d, {"member"})
          /\ UNCHANGED <<memberStatus, savings, requestVars, deactivationPayouts>>
        BY <1>4 DEF rejectMemberDeactivationRequestByID, DeactivationWaitsFor
    <2>4. QED
        BY <1>3, <2>2, <2>3, EndingKeepsInvariant
<1>5. CASE cancelMemberDeactivationRequestByID(d)
    <2>1. /\ deactivations[d].status = "pending"
          /\ deactivations' = [deactivations EXCEPT ![d] = Ended(@, "cancelled")]
          /\ DeactivationNotified(d, {})
          /\ UNCHANGED <<memberStatus, savings, requestVars, deactivationPayouts>>
          /\ UNCHANGED deactivationApprovals
        BY <1>5 DEF cancelMemberDeactivationRequestByID
    <2>2. QED
        BY <1>3, <2>1, EndingKeepsInvariant DEF DeactivationTypeOK
<1>6. QED
    BY <1>1, <1>2, <1>4, <1>5 DEF DeactivationStep

LEMMA CooperativeNext ==
    CooperativeInvariant /\ [DeactivationNext]_cooperativeVars => CooperativeInvariant'
<1> SUFFICES ASSUME CooperativeInvariant, [DeactivationNext]_cooperativeVars
             PROVE  CooperativeInvariant'
    OBVIOUS
<1>1. CASE WithdrawalsNext /\ UNCHANGED deactivationVars
    BY <1>1, WithdrawalsStepKeepsInvariant
<1>2. CASE \E d \in DeactivationIds : DeactivationStep(d)
    BY <1>2, DeactivationStepKeepsInvariant
<1>3. CASE UNCHANGED cooperativeVars
    <2>1. UNCHANGED <<memberStatus, savings, deactivations, withdrawals, reservations,
                      withdrawalApprovals, withdrawalOverrides, withdrawalNotices,
                      deactivationApprovals, deactivationNotices, deactivationPayouts>>
        BY <1>3 DEF cooperativeVars, withdrawalsVars, savingsVars, requestVars, deactivationVars
    <2>2. DeactivationTypeOK' /\ RequestsOK' /\ PaidOnce'
        BY <2>1 DEF CooperativeInvariant, DeactivationTypeOK, WithdrawalsTypeOK,
                    SavingsTypeOK, RequestsOK, PaidOnce
    <2>3. NoOpenWithdrawals' /\ AllInOrder' /\ AllPaidOut' /\ OneRequestEach' /\ OneOrigin'
        <3>1. NoOpenWithdrawals'
            BY <2>1 DEF CooperativeInvariant, NoOpenWithdrawals, OpenRequests,
                        hasPendingMemberDeactivation
        <3>2. AllInOrder'
            BY <2>1 DEF CooperativeInvariant, AllInOrder, DeactivationOK
        <3>3. AllPaidOut'
            BY <2>1 DEF CooperativeInvariant, AllPaidOut, PaidOut
        <3>4. OneRequestEach' /\ OneOrigin'
            BY <2>1 DEF CooperativeInvariant, OneRequestEach, OneOrigin
        <3>5. QED
            BY <3>1, <3>2, <3>3, <3>4
    <2>4. QED
        BY <2>2, <2>3 DEF CooperativeInvariant
<1>4. QED
    BY <1>1, <1>2, <1>3 DEF DeactivationNext

(***************************************************************************)
(* The invariant of the savings, the withdrawals and the deactivations     *)
(* together holds in every reachable state.                                *)
(***************************************************************************)
THEOREM CooperativeInvariantHolds == DeactivationSpec => []CooperativeInvariant
<1>1. QED
    BY CooperativeInit, CooperativeNext, PTL DEF DeactivationSpec

(***************************************************************************)
(* No member whose membership ends or has ended has a withdrawal that      *)
(* could still be paid.                                                    *)
(***************************************************************************)
THEOREM NoOpenWithdrawalsHolds == DeactivationSpec => []NoOpenWithdrawals
<1>1. CooperativeInvariant => NoOpenWithdrawals
    BY DEF CooperativeInvariant
<1>2. QED
    BY <1>1, CooperativeInvariantHolds, PTL

-----------------------------------------------------------------------------
(***************************************************************************)
(* What the invariant says of payments, in the words of PaidAsAgreed.      *)
(***************************************************************************)
LEMMA CountOfOne ==
    ASSUME NEW S, NEW x, x \in S, \A y \in S : y = x
    PROVE  Cardinality(S) = 1
<1>1. S = {x}
    OBVIOUS
<1>2. Cardinality({x}) = 1
    BY FS_Singleton
<1>3. QED
    BY <1>1, <1>2

LEMMA InvariantPaysWhatWasAgreed ==
    ASSUME CooperativeInvariant
    PROVE  PaysWhatWasAgreed
<1>1. SUFFICES ASSUME NEW d \in DeactivationIds
               PROVE  LET row  == deactivations[d]
                          paid == {savings[s] : s \in deactivationPayouts[d]}
                      IN
                      IF row.status = "approved"
                      THEN /\ paid = {[type |-> "withdrawal", member |-> row.member,
                                       category |-> c, amount |-> row.balances[c]] :
                                          c \in {x \in Categories : row.balances[x] # 0}}
                           /\ Cardinality(paid) = Cardinality(deactivationPayouts[d])
                           /\ deactivationApprovals[d] = DeactivationApprovedBefore(NoStage)
                      ELSE deactivationPayouts[d] = {}
    BY DEF PaysWhatWasAgreed
<1> DEFINE row == deactivations[d]
           rows == deactivationPayouts[d]
           paid == {savings[s] : s \in rows}
           Written(c) == [type |-> "withdrawal", member |-> row.member,
                          category |-> c, amount |-> row.balances[c]]
<1>2. CASE row.status # "approved"
    BY <1>2 DEF CooperativeInvariant, AllInOrder, DeactivationOK
<1>3. CASE row.status = "approved"
    <2>1. /\ \A s \in rows : savings[s] = Written(savings[s].category)
                             /\ row.balances[savings[s].category] # 0
          /\ \A s, t \in rows : savings[s].category = savings[t].category => s = t
          /\ \A c \in Categories : row.balances[c] # 0 =>
                \E s \in rows : savings[s].category = c
        BY <1>3 DEF CooperativeInvariant, AllPaidOut, PaidOut
    <2>2. rows \subseteq SavingIds /\ \A s \in rows : savings[s].category \in Categories
        BY DEF CooperativeInvariant, DeactivationTypeOK, WithdrawalsTypeOK, SavingsTypeOK,
               SavingRows
    <2>3. deactivationApprovals[d] = DeactivationApprovedBefore(NoStage)
        BY <1>3 DEF CooperativeInvariant, AllInOrder, DeactivationOK
    <2> HIDE DEF row, rows, Written
    <2>4. paid = {Written(c) : c \in {x \in Categories : row.balances[x] # 0}}
        <3>1. ASSUME NEW s \in rows
              PROVE  savings[s] \in {Written(c) : c \in {x \in Categories : row.balances[x] # 0}}
            BY <2>1, <2>2
        <3>2. ASSUME NEW c \in Categories, row.balances[c] # 0
              PROVE  Written(c) \in paid
            <4>1. PICK s \in rows : savings[s].category = c
                BY <2>1, <3>2
            <4>2. savings[s] = Written(c)
                BY <2>1, <4>1
            <4>3. QED
                BY <4>2
        <3>3. QED
            BY <3>1, <3>2
    <2>5. Cardinality(paid) = Cardinality(rows)
        <3> DEFINE f == [s \in rows |-> savings[s]]
        <3>1. IsFiniteSet(rows)
            BY <2>2, FS_Subset, SavingsAssumption
        <3>2. f \in [rows -> paid] /\ \A v \in paid : \E s \in rows : f[s] = v
            OBVIOUS
        <3>3. f \in Surjection(rows, paid)
            BY <3>2 DEF Surjection
        <3>4. \A s, t \in rows : f[s] = f[t] => s = t
            BY <2>1
        <3>5. DOMAIN f = rows
            OBVIOUS
        <3> HIDE DEF f
        <3>6. f \in Injection(rows, paid)
            BY <3>2, <3>4, <3>5 DEF Injection, IsInjective
        <3>7. QED
            BY <3>1, <3>3, <3>6, FS_Surjection
    <2>6. QED
        BY <1>3, <2>3, <2>4, <2>5 DEF row, rows, Written
<1>4. QED
    BY <1>2, <1>3

LEMMA InvariantGivesOneOrigin ==
    ASSUME CooperativeInvariant
    PROVE  WithdrawalsHaveOneOrigin
<1>1. SUFFICES ASSUME NEW s \in SavingIds, savings[s].type = "withdrawal"
               PROVE  Cardinality({r \in WithdrawalIds : withdrawals[r].disbursed
                                                         /\ withdrawals[r].saving = s})
                      + Cardinality({d \in DeactivationIds : s \in deactivationPayouts[d]}) = 1
    BY DEF WithdrawalsHaveOneOrigin
<1> DEFINE R == {r \in WithdrawalIds : withdrawals[r].disbursed /\ withdrawals[r].saving = s}
           D == {d \in DeactivationIds : s \in deactivationPayouts[d]}
<1>2. R # {} \/ D # {}
    BY <1>1 DEF CooperativeInvariant, OneOrigin
<1>3. R = {} \/ D = {}
    BY DEF CooperativeInvariant, OneOrigin
<1>4. \A p, q \in R : p = q
    BY DEF CooperativeInvariant, PaidOnce
<1>5. \A d, e \in D : d = e
    BY DEF CooperativeInvariant, OneOrigin
<1> HIDE DEF R, D
<1>6. Cardinality({}) = 0
    BY FS_EmptySet
<1>7. CASE R # {}
    <2>1. PICK p : p \in R
        BY <1>7
    <2>2. Cardinality(R) = 1 /\ Cardinality(D) = 0
        BY <1>3, <1>4, <1>6, <2>1, CountOfOne
    <2>3. Cardinality(R) + Cardinality(D) = 1
        BY <2>2
    <2>4. QED
        BY <2>3 DEF R, D
<1>8. CASE D # {}
    <2>1. PICK p : p \in D
        BY <1>8
    <2>2. Cardinality(D) = 1 /\ Cardinality(R) = 0
        BY <1>3, <1>5, <1>6, <2>1, CountOfOne
    <2>3. Cardinality(R) + Cardinality(D) = 1
        BY <2>2
    <2>4. QED
        BY <2>3 DEF R, D
<1>9. QED
    BY <1>2, <1>7, <1>8

(***************************************************************************)
(* The officers decide in order on the balances they were shown, the       *)
(* payout is of those balances, and no row is the payout of anything else. *)
(***************************************************************************)
THEOREM PaidAsAgreedHolds == DeactivationSpec => []PaidAsAgreed
<1>1. CooperativeInvariant => PendingDeactivations
    BY DEF CooperativeInvariant, AllInOrder, DeactivationOK, OneRequestEach,
           PendingDeactivations
<1>2. CooperativeInvariant => PaidAsAgreed
    BY <1>1, InvariantPaysWhatWasAgreed, InvariantGivesOneOrigin DEF PaidAsAgreed
<1>3. QED
    BY <1>2, CooperativeInvariantHolds, PTL

-----------------------------------------------------------------------------
(***************************************************************************)
(* Who may lose a status, and what remains of the balances.                *)
(***************************************************************************)
\* Members only lose their status by the last approval of their own request.
LEMMA StatusMoves ==
    ASSUME CooperativeInvariant, [DeactivationNext]_cooperativeVars,
           memberStatus' # memberStatus
    PROVE  \E d \in DeactivationIds : \E records : LastApproval(d, records)
<1>1. CASE WithdrawalsNext
    BY <1>1, WithdrawalsKeepMembers
<1>2. ASSUME NEW d \in DeactivationIds, DeactivationStep(d)
      PROVE  \E records : LastApproval(d, records)
    <2>1. PICK role \in DecidingRoles, source \in PayoutSources :
              approveMemberDeactivationRequestByID(d, role, source)
        BY <1>2 DEF DeactivationStep, insertMemberDeactivationRequest,
                    rejectMemberDeactivationRequestByID, cancelMemberDeactivationRequestByID
    <2>2. nextApprovalStage(approvalStageForOfficer(role)) = NoStage
        BY <2>1 DEF approveMemberDeactivationRequestByID
    <2>3. QED
        BY <2>1, <2>2, LastApprovalFacts
<1>3. CASE UNCHANGED cooperativeVars
    BY <1>3 DEF cooperativeVars, withdrawalsVars, savingsVars
<1>4. QED
    BY <1>1, <1>2, <1>3 DEF DeactivationNext

LEMMA LastApprovalStatus ==
    ASSUME CooperativeInvariant, NEW d \in DeactivationIds, NEW records,
           LastApproval(d, records)
    PROVE  /\ deactivations[d].member \in Members
           /\ ~LastKetuaUtama(deactivations[d].member)
           /\ \A n \in Members \ {deactivations[d].member} : memberStatus'[n] = memberStatus[n]
BY DEF CooperativeInvariant, DeactivationTypeOK, WithdrawalsTypeOK, SavingsTypeOK, LastApproval

\* With more than one active Ketua Utama, one remains whoever goes.
LEMMA AnotherKetuaUtama ==
    ASSUME NEW m \in KetuaUtamas, ~LastKetuaUtama(m)
    PROVE  \E k \in KetuaUtamas \ {m} : memberStatus[k] = "active"
<1> DEFINE active == {k \in KetuaUtamas : memberStatus[k] = "active"}
<1>1. SUFFICES ASSUME active \subseteq {m} PROVE FALSE
    OBVIOUS
<1>2. ~(Cardinality(active) <= 1)
    BY DEF LastKetuaUtama
<1>3. IsFiniteSet({m}) /\ Cardinality({m}) = 1
    BY FS_Singleton
<1> HIDE DEF active
<1>4. Cardinality(active) <= 1
    BY <1>1, <1>3, FS_Subset
<1>5. QED
    BY <1>2, <1>4

(***************************************************************************)
(* No deactivation leaves the cooperative without an active Ketua Utama:   *)
(* the last approval counts them again before the member goes.             *)
(***************************************************************************)
THEOREM KeepsAKetuaUtamaHolds == DeactivationSpec => KeepsAKetuaUtama
<1>1. ASSUME CooperativeInvariant, [DeactivationNext]_cooperativeVars, HasKetuaUtama
      PROVE  HasKetuaUtama'
    <2>1. CASE memberStatus' = memberStatus
        BY <1>1, <2>1 DEF HasKetuaUtama
    <2>2. CASE memberStatus' # memberStatus
        <3>1. PICK d \in DeactivationIds : \E records : LastApproval(d, records)
            BY <1>1, <2>2, StatusMoves
        <3> DEFINE m == deactivations[d].member
        <3>2. /\ m \in Members /\ ~LastKetuaUtama(m)
              /\ \A n \in Members \ {m} : memberStatus'[n] = memberStatus[n]
            BY <1>1, <3>1, LastApprovalStatus
        <3> HIDE DEF m
        <3>3. PICK k \in KetuaUtamas \ {m} : memberStatus[k] = "active"
            <4>1. CASE m \in KetuaUtamas
                BY <3>2, <4>1, AnotherKetuaUtama
            <4>2. CASE m \notin KetuaUtamas
                BY <1>1, <4>2 DEF HasKetuaUtama
            <4>3. QED
                BY <4>1, <4>2
        <3>4. memberStatus'[k] = "active"
            BY <3>2, <3>3, DeactivationAssumption
        <3>5. QED
            BY <3>3, <3>4 DEF HasKetuaUtama
    <2>3. QED
        BY <2>1, <2>2
<1>2. CooperativeInvariant /\ [DeactivationNext]_cooperativeVars
      => [HasKetuaUtama => HasKetuaUtama']_cooperativeVars
    BY <1>1
<1>3. QED
    BY <1>2, CooperativeInvariantHolds, PTL DEF DeactivationSpec, KeepsAKetuaUtama

\* The last approval leaves nothing: every category that held something is paid out.
LEMMA LastApprovalSettles ==
    ASSUME CooperativeInvariant, NEW d \in DeactivationIds, NEW records,
           LastApproval(d, records), NEW m \in Members, m = deactivations[d].member
    PROVE  Settlement(m)'
<1> DEFINE row == deactivations[d]
           Written(c) == [type |-> "withdrawal", member |-> m,
                          category |-> c, amount |-> row.balances[c]]
<1>1. /\ \A s \in SavingIds : savings[s].type # "none" => savings'[s] = savings[s]
      /\ \A s \in SavingIds : savings'[s] # savings[s] => s \in deactivationPayouts'[d]
      /\ \A s \in deactivationPayouts'[d] : \E c \in NotEmpty(row) :
             s = records[c] /\ s \in SavingIds /\ savings[s].type = "none"
             /\ savings'[s] = Written(c)
    BY PayoutRows
<1>2. /\ records \in [NotEmpty(row) -> SavingIds]
      /\ \A c \in NotEmpty(row) : savings[records[c]].type = "none"
                                  /\ savings'[records[c]] = Written(c)
    BY DEF LastApproval, PaidBy
<1>3. \A c : Written(c).category = c
    OBVIOUS
<1>4. WithdrawalsTypeOK /\ row \in DeactivationRows
    BY DEF CooperativeInvariant, DeactivationTypeOK, WithdrawalsTypeOK, SavingsTypeOK
<1>5. \A c \in Categories : categoryBalance(m, c) = row.balances[c]
                            /\ row.balances[c] \in Nat
    <2>1. memberDeactivationBalances(m) = row.balances
        BY DEF LastApproval
    <2>2. \A c \in Categories : memberDeactivationBalances(m)[c] = categoryBalance(m, c)
        BY DEF memberDeactivationBalances
    <2>3. \A c \in Categories : row.balances[c] \in Int /\ row.balances[c] >= 0
        BY <1>4 DEF LastApproval, Payable, DeactivationRows
    <2> HIDE DEF row
    <2>4. QED
        BY <2>1, <2>2, <2>3
<1> HIDE DEF row
<1>6. ASSUME NEW c \in Categories, NEW s \in SavingIds, s # records[c] \/ c \notin NotEmpty(row),
             Counts(savings[s], m, c) \/ Counts(savings'[s], m, c)
      PROVE  savings'[s] = savings[s]
    <2>1. SUFFICES ASSUME savings'[s] # savings[s] PROVE FALSE
        OBVIOUS
    <2>2. PICK b \in NotEmpty(row) :
              s = records[b] /\ savings[s].type = "none" /\ savings'[s] = Written(b)
        BY <1>1, <2>1
    <2>3. Counts(savings'[s], m, c)
        BY <1>6, <2>2 DEF Counts
    <2>4. b = c
        BY <1>3, <2>2, <2>3 DEF Counts
    <2>5. QED
        BY <1>6, <2>2, <2>4
<1>7. ASSUME NEW c \in Categories
      PROVE  categoryBalance(m, c)' = 0
    <2>1. CASE c \notin NotEmpty(row)
        <3>1. \A s \in SavingIds :
                  Counts(savings[s], m, c) \/ Counts(savings'[s], m, c)
                  => savings'[s] = savings[s]
            BY <1>6, <2>1
        <3>2. categoryBalance(m, c)' = categoryBalance(m, c)
            BY <3>1, BalanceKept
        <3>3. QED
            BY <1>5, <2>1, <3>2 DEF NotEmpty
    <2>2. CASE c \in NotEmpty(row)
        <3> DEFINE s == records[c]
        <3>1. s \in SavingIds /\ savings[s].type = "none" /\ savings'[s] = Written(c)
            BY <1>2, <2>2
        <3>2. \A t \in SavingIds \ {s} :
                  Counts(savings[t], m, c) \/ Counts(savings'[t], m, c)
                  => savings'[t] = savings[t]
            BY <1>6
        <3> HIDE DEF s
        <3>3. categoryBalance(m, c)' = categoryBalance(m, c) - row.balances[c]
            BY <1>4, <1>5, <3>1, <3>2, BalanceLowered
        <3>4. QED
            BY <1>5, <3>3
    <2>3. QED
        BY <2>1, <2>2
<1>8. QED
    BY <1>7 DEF Settlement

\* The rows of a member who has left are only touched by changes of deposits.
LEMMA RowsOfTheInactiveStay ==
    ASSUME CooperativeInvariant, [DeactivationNext]_cooperativeVars,
           NEW m \in Members, memberStatus[m] = "inactive", ~DepositChanges(m),
           NEW c, NEW s \in SavingIds, Counts(savings[s], m, c) \/ Counts(savings'[s], m, c)
    PROVE  savings'[s] = savings[s]
<1>1. /\ savings \in [SavingIds -> SavingRows]
      /\ withdrawals \in [WithdrawalIds -> WithdrawalRows]
    BY DEF CooperativeInvariant, DeactivationTypeOK, WithdrawalsTypeOK, SavingsTypeOK
<1>2. CASE SavingsStep
    <2>1. ASSUME NEW t \in SavingIds, NEW n \in Members, NEW b \in Categories,
                 NEW amount \in DepositAmounts, insertSaving(t, n, b, amount)
          PROVE  savings'[s] = savings[s]
        <3>1. n # m /\ savings[t].type = "none"
            BY <2>1 DEF insertSaving
        <3>2. savings'[t].member = n /\ \A u \in SavingIds \ {t} : savings'[u] = savings[u]
            BY <1>1, <2>1 DEF insertSaving
        <3>3. QED
            BY <3>1, <3>2 DEF Counts
    <2>2. ASSUME NEW t \in SavingIds,
                 \/ \E amount \in DepositAmounts : correctSavingByID(t, amount)
                 \/ removeSavingByID(t)
          PROVE  savings'[s] = savings[s]
        <3>1. /\ savings[t].type = "deposit" /\ savings'[t].member = savings[t].member
              /\ \A u \in SavingIds \ {t} : savings'[u] = savings[u]
            BY <1>1, <2>2 DEF correctSavingByID, removeSavingByID, SavingRows
        <3>2. QED
            BY <3>1 DEF Counts, DepositChanges
    <2>3. QED
        BY <1>2, <2>1, <2>2 DEF SavingsStep
<1>3. ASSUME NEW r \in WithdrawalIds, RequestStep(r)
      PROVE  savings'[s] = savings[s]
    <2>1. ASSUME NEW t \in SavingIds, disburseWithdrawalRequestByID(r, t)
          PROVE  savings'[s] = savings[s]
        <3>1. withdrawals[r].member # m /\ savings[t].type = "none"
            BY <2>1 DEF disburseWithdrawalRequestByID, PayoutCovered
        <3>2. /\ savings'[t].member = withdrawals[r].member
              /\ \A u \in SavingIds \ {t} : savings'[u] = savings[u]
            BY <1>1, <2>1 DEF disburseWithdrawalRequestByID
        <3>3. QED
            BY <3>1, <3>2 DEF Counts
    <2>2. CASE \A t \in SavingIds : ~disburseWithdrawalRequestByID(r, t)
        <3>1. WithdrawalsTypeOK /\ RequestsOK /\ PaidOnce
            BY DEF CooperativeInvariant, DeactivationTypeOK
        <3>2. RequestsOK'
            BY <1>3, <3>1, RequestStepKeepsOrder
        <3>3. UNCHANGED savings
            BY <1>3, <2>2, <3>1, <3>2, DecisionKeepsPayments
        <3>4. QED
            BY <3>3
    <2>3. QED
        BY <2>1, <2>2
<1>4. ASSUME NEW d \in DeactivationIds, DeactivationStep(d), savings' # savings
      PROVE  savings'[s] = savings[s]
    <2>1. PICK role \in DecidingRoles, source \in PayoutSources :
              approveMemberDeactivationRequestByID(d, role, source)
        BY <1>4 DEF DeactivationStep, insertMemberDeactivationRequest,
                    rejectMemberDeactivationRequestByID, cancelMemberDeactivationRequestByID
    <2>2. nextApprovalStage(approvalStageForOfficer(role)) = NoStage
        BY <1>4, <2>1 DEF approveMemberDeactivationRequestByID
    <2>3. PICK records : LastApproval(d, records)
        BY <2>1, <2>2, LastApprovalFacts
    <2>4. deactivations[d].member # m
        BY <2>3 DEF LastApproval, CooperativeInvariant, AllInOrder, DeactivationOK
    <2>5. ASSUME savings'[s] # savings[s]
          PROVE  savings[s].type = "none" /\ savings'[s].member = deactivations[d].member
        <3>1. s \in deactivationPayouts'[d]
            BY <2>3, <2>5, PayoutRows
        <3>2. PICK b \in NotEmpty(deactivations[d]) :
                  /\ savings[s].type = "none"
                  /\ savings'[s] = [type |-> "withdrawal", member |-> deactivations[d].member,
                                    category |-> b, amount |-> deactivations[d].balances[b]]
            BY <2>3, <3>1, PayoutRows
        <3>3. QED
            BY <3>2
    <2>6. QED
        BY <2>4, <2>5 DEF Counts
<1>5. CASE UNCHANGED cooperativeVars
    BY <1>5 DEF cooperativeVars, withdrawalsVars, savingsVars
<1>6. QED
    BY <1>2, <1>3, <1>4, <1>5 DEF DeactivationNext, WithdrawalsNext

(***************************************************************************)
(* A membership ends with nothing left behind, and what is settled stays   *)
(* settled until an officer changes a deposit of the former member.        *)
(***************************************************************************)
THEOREM EndsSettledHolds == DeactivationSpec => EndsSettled
<1> DEFINE Step(m) == /\ memberStatus'[m] = "inactive"
                      /\ \/ memberStatus[m] = "active"
                         \/ Settlement(m) /\ ~DepositChanges(m)
                      => Settlement(m)'
<1>1. ASSUME CooperativeInvariant, [DeactivationNext]_cooperativeVars, NEW m \in Members,
             memberStatus'[m] = "inactive",
             memberStatus[m] = "active" \/ (Settlement(m) /\ ~DepositChanges(m))
      PROVE  Settlement(m)'
    <2>1. CASE \E d \in DeactivationIds : \E records :
                   LastApproval(d, records) /\ deactivations[d].member = m
        BY <1>1, <2>1, LastApprovalSettles
    <2>2. CASE ~\E d \in DeactivationIds : \E records :
                   LastApproval(d, records) /\ deactivations[d].member = m
        <3>1. memberStatus'[m] = memberStatus[m]
            BY <1>1, <2>2, StatusMoves, LastApprovalStatus
        <3>2. ASSUME NEW c \in Categories
              PROVE  categoryBalance(m, c)' = 0
            <4>1. \A s \in SavingIds :
                      Counts(savings[s], m, c) \/ Counts(savings'[s], m, c)
                      => savings'[s] = savings[s]
                BY <1>1, <3>1, RowsOfTheInactiveStay
            <4>2. categoryBalance(m, c)' = categoryBalance(m, c)
                BY <4>1, BalanceKept
            <4>3. QED
                BY <1>1, <3>1, <4>2 DEF Settlement
        <3>3. QED
            BY <3>2 DEF Settlement
    <2>3. QED
        BY <2>1, <2>2
<1>2. CooperativeInvariant /\ [DeactivationNext]_cooperativeVars
      => [\A m \in Members : Step(m)]_cooperativeVars
    BY <1>1
<1>3. QED
    BY <1>2, CooperativeInvariantHolds, PTL DEF DeactivationSpec, EndsSettled
=============================================================================
