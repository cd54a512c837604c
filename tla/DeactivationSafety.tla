------------------------- MODULE DeactivationSafety -------------------------
(***************************************************************************)
(* What must hold of memberships that end, together with the savings and   *)
(* withdrawals of the member.                                              *)
(***************************************************************************)
EXTENDS MemberDeactivation, WithdrawalSafety

(***************************************************************************)
(* A member whose membership is ending or has ended has no open            *)
(* withdrawal: the request clears them, pending and approved alike, and    *)
(* none can be opened, approved or overridden afterwards.  Otherwise the   *)
(* treasurer could still pay from the balances the deactivation pays out.  *)
(***************************************************************************)
NoOpenWithdrawals ==
    \A m \in Members :
        memberStatus[m] # "active" \/ hasPendingMemberDeactivation(m)
        => OpenRequests(m) = {}

(***************************************************************************)
(* At most one request to end a membership waits at a time, and only for   *)
(* an active member; its balances can be paid and it carries exactly the   *)
(* approvals of the stages before its own, with the source of the payout   *)
(* chosen once the manager has approved.                                   *)
(***************************************************************************)
DeactivationStagesBefore(stage) ==
    CASE stage = "manager"     -> {}
      [] stage = "ketua_i"     -> {"manager"}
      [] stage = "ketua_ii"    -> {"manager", "ketua_i"}
      [] stage = "ketua_utama" -> {"manager", "ketua_i", "ketua_ii"}
      [] OTHER                 -> Stages

DeactivationApprovedBefore(stage) ==
    [x \in Stages |-> IF x \in DeactivationStagesBefore(stage) THEN "approved" ELSE "none"]

PendingDeactivations ==
    /\ \A d \in DeactivationIds :
          LET row == deactivations[d] IN
          row.status = "pending" =>
              /\ row.stage \in Stages
              /\ memberStatus[row.member] = "active"
              /\ Payable(row.balances)
              /\ deactivationApprovals[d] = DeactivationApprovedBefore(row.stage)
              /\ row.stage = "manager" <=> row.payoutSource = ""
    /\ \A d1, d2 \in DeactivationIds :
          /\ deactivations[d1].status = "pending"
          /\ deactivations[d2].status = "pending"
          /\ deactivations[d1].member = deactivations[d2].member
          => d1 = d2

(***************************************************************************)
(* The member is paid what the officers agreed to, no more and no less:    *)
(* an approved request has one withdrawal row for every category that was  *)
(* not empty when the request was made, of the recorded amount; any other  *)
(* request has none.                                                       *)
(***************************************************************************)
PaysWhatWasAgreed ==
    \A d \in DeactivationIds :
        LET row  == deactivations[d]
            paid == {savings[s] : s \in deactivationPayouts[d]}
        IN
        IF row.status = "approved"
        THEN /\ paid = {[type |-> "withdrawal", member |-> row.member, category |-> c,
                         amount |-> row.balances[c]] :
                            c \in {x \in Categories : row.balances[x] # 0}}
             /\ Cardinality(paid) = Cardinality(deactivationPayouts[d])
             /\ deactivationApprovals[d] = DeactivationApprovedBefore(NoStage)
        ELSE deactivationPayouts[d] = {}

(***************************************************************************)
(* Each withdrawal row was written for exactly one reason: the             *)
(* disbursement of one request or the payout of one deactivation.          *)
(***************************************************************************)
WithdrawalsHaveOneOrigin ==
    \A s \in SavingIds : savings[s].type = "withdrawal" =>
        Cardinality({r \in WithdrawalIds : withdrawals[r].disbursed
                                           /\ withdrawals[r].saving = s})
        + Cardinality({d \in DeactivationIds : s \in deactivationPayouts[d]}) = 1

\* The officers decide in order on the balances they were shown, these are paid,
\* and no row is the payout of anything else (member_deactivation.go:392-470).
PaidAsAgreed ==
    /\ PendingDeactivations
    /\ PaysWhatWasAgreed
    /\ WithdrawalsHaveOneOrigin

-----------------------------------------------------------------------------
(***************************************************************************)
(* A membership ends with nothing left behind, and what is settled stays   *)
(* settled: the step that makes a member inactive leaves every category    *)
(* at zero, whatever corrections were made since the request, and only a   *)
(* correction or removal of a deposit can move the balance of an inactive  *)
(* member afterwards.                                                      *)
(***************************************************************************)
Settlement(m) == \A c \in Categories : categoryBalance(m, c) = 0

DepositChanges(m) ==
    \E s \in SavingIds :
        savings[s].member = m /\ savings[s].type = "deposit" /\ savings'[s] # savings[s]

EndsSettled ==
    [][\A m \in Members :
          /\ memberStatus'[m] = "inactive"
          /\ \/ memberStatus[m] = "active"
             \/ Settlement(m) /\ ~DepositChanges(m)
          => Settlement(m)']_cooperativeVars

(***************************************************************************)
(* The cooperative never loses its last active Ketua Utama to a            *)
(* deactivation, however many of them are being deactivated at once.       *)
(***************************************************************************)
HasKetuaUtama == \E k \in KetuaUtamas : memberStatus[k] = "active"

KeepsAKetuaUtama == [][HasKetuaUtama => HasKetuaUtama']_cooperativeVars
=============================================================================
