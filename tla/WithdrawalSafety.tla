-------------------------- MODULE WithdrawalSafety --------------------------
(***************************************************************************)
(* What must hold of the withdrawal component.                             *)
(***************************************************************************)
EXTENDS Withdrawals

(***************************************************************************)
(* A withdrawal is paid exactly once and in full.  A disbursed request     *)
(* points at a withdrawal row of its member, of Sukarela and of its own    *)
(* amount, no two requests share a row, and no request that was not        *)
(* disbursed has one.  (disburseWithdrawalRequestByID)                     *)
(***************************************************************************)
PaidOnce ==
    /\ \A r \in WithdrawalIds :
          LET w == withdrawals[r] IN
          IF w.disbursed
          THEN /\ w.status = "approved"
               /\ w.saving \in SavingIds
               /\ savings[w.saving] = [type |-> "withdrawal", member |-> w.member,
                                       category |-> "sukarela", amount |-> w.amount]
          ELSE w.saving = NoSavingRecord
    /\ \A r1, r2 \in WithdrawalIds :
          withdrawals[r1].disbursed /\ withdrawals[r1].saving = withdrawals[r2].saving
          => r1 = r2

(***************************************************************************)
(* Withdrawal rows come from disbursements alone: each one is the row of a *)
(* disbursed request, whatever deposits were recorded, corrected or        *)
(* removed meanwhile.                                                      *)
(***************************************************************************)
PayoutsHaveRequests ==
    \A s \in SavingIds : savings[s].type = "withdrawal" =>
        \E r \in WithdrawalIds : withdrawals[r].disbursed /\ withdrawals[r].saving = s

(***************************************************************************)
(* The reservation of a request follows it through every handler, the      *)
(* rejections outside financialMu included: it is active while money may   *)
(* still be paid, consumed once it was, released once it cannot be, and    *)
(* always of the request's amount.                                         *)
(***************************************************************************)
ReservationFor(w) ==
    CASE w.status = "none"     -> "none"
      [] w.status = "pending"  -> "active"
      [] w.status = "approved" -> IF w.disbursed THEN "consumed" ELSE "active"
      [] OTHER                 -> "released"

ReservationFollowsRequest ==
    \A r \in WithdrawalIds :
        reservations[r] = [status |-> ReservationFor(withdrawals[r]),
                           amount |-> withdrawals[r].amount]

(***************************************************************************)
(* Nobody's approval is skipped, repeated or taken out of turn: manager,   *)
(* then ketua II, then ketua I.  A pending request carries exactly the     *)
(* approvals of the stages before its own; an approved one carries all     *)
(* three, unless a super admin overrode it at the stage recorded; a        *)
(* rejected one carries the one rejection after the approvals before it;   *)
(* one cancelled after its approval keeps what an approved one carries.    *)
(***************************************************************************)
StagesBefore(stage) ==
    CASE stage = "manager"  -> {}
      [] stage = "ketua_ii" -> {"manager"}
      [] stage = "ketua_i"  -> {"manager", "ketua_ii"}
      [] OTHER              -> {"manager", "ketua_ii", "ketua_i"}

ApprovedBefore(stage) ==
    [x \in Stages |-> IF x \in StagesBefore(stage) THEN "approved" ELSE "none"]

WaitingStages == {"manager", "ketua_ii", "ketua_i"}

OverriddenAt(history, override) ==
    override \in WaitingStages /\ history = ApprovedBefore(override)

FullyApproved(history, override) ==
    \/ override = NoStage /\ history = ApprovedBefore(NoStage)
    \/ OverriddenAt(history, override)

TurnedDown(history, override) ==
    \/ /\ override = NoStage
       /\ \E x \in WaitingStages :
              history = insertApprovalDecision(ApprovedBefore(x), x, "rejected")
    \/ OverriddenAt(history, override)

ChainOf(w, history, override) ==
    CASE w.status = "none" ->
            history = EmptyHistory /\ override = NoStage /\ ~w.reviewed
      [] w.status = "pending" ->
            /\ w.stage \in WaitingStages
            /\ history = ApprovedBefore(w.stage)
            /\ override = NoStage /\ ~w.reviewed
      [] w.status = "approved"  -> w.reviewed /\ FullyApproved(history, override)
      [] w.status = "rejected"  -> w.reviewed /\ TurnedDown(history, override)
      [] w.status = "cancelled" ->
            IF w.reviewed THEN FullyApproved(history, override)
            ELSE /\ override = NoStage
                 /\ \E x \in WaitingStages : history = ApprovedBefore(x)

ApprovalChain ==
    \A r \in WithdrawalIds :
        /\ ChainOf(withdrawals[r], withdrawalApprovals[r], withdrawalOverrides[r])
        /\ withdrawals[r].status # "pending" => withdrawals[r].stage = NoStage
        /\ withdrawals[r].status # "none" => withdrawals[r].member \in Members

(***************************************************************************)
(* Open notifications address whoever can act on the request or must learn *)
(* its outcome: the stage it waits at, the member and the treasurer once   *)
(* approved, the member once rejected.  No officer is left with one of a   *)
(* request that has moved on, been closed or cleared; only the             *)
(* disbursement resolves nothing, so the treasurer's outlives it.          *)
(***************************************************************************)
NoticesFor(w) ==
    CASE w.status = "pending"  -> {w.stage}
      [] w.status = "approved" -> {"member", "bendahara"}
      [] w.status = "rejected" -> {"member"}
      [] OTHER                 -> {}

NoticesFollowRequest ==
    \A r \in WithdrawalIds : withdrawalNotices[r] = NoticesFor(withdrawals[r])

\* The five tables over which a request is spread keep step: no handler moves
\* one and forgets another (withdrawals.go, super_admin_overrides.go).
TablesKeepStep ==
    /\ ReservationFollowsRequest
    /\ ApprovalChain
    /\ NoticesFollowRequest
    /\ PayoutsHaveRequests

-----------------------------------------------------------------------------
(***************************************************************************)
(* The open requests of a member never promise more than the withdrawable  *)
(* share of the Sukarela balance: if what they reserve was covered before  *)
(* a step it is covered after it, whatever request was submitted, edited,  *)
(* decided or paid; only a super admin shrinking a deposit of that member  *)
(* can break it.  The final approval and the disbursement look at their    *)
(* own amount alone, so this is what keeps the payments of several         *)
(* requests from starving each other.                                      *)
(***************************************************************************)
SukarelaBalance(m) ==
    SumFunctionOnSet([s \in SavingIds |->
                          CASE savings[s].type = "deposit"    -> savings[s].amount
                            [] savings[s].type = "withdrawal" -> -savings[s].amount
                            [] OTHER                          -> 0],
                     {s \in SavingIds : savings[s].member = m
                                        /\ savings[s].category = "sukarela"})

OpenRequests(m) ==
    {r \in WithdrawalIds : /\ withdrawals[r].member = m
                           /\ \/ withdrawals[r].status = "pending"
                              \/ withdrawals[r].status = "approved"
                                 /\ ~withdrawals[r].disbursed}

Promised(m) == SumFunctionOnSet([r \in WithdrawalIds |-> withdrawals[r].amount], OpenRequests(m))

\* 75% of the balance, rounded down: what is promised is at most that share.
Covered(m) == 4 * Promised(m) <= 3 * SukarelaBalance(m) \/ Promised(m) = 0

DepositShrinks(m) ==
    \E s \in SavingIds :
        /\ savings[s].member = m /\ savings[s].type = "deposit"
        /\ savings'[s].type # "deposit" \/ savings'[s].amount < savings[s].amount

PromisesStayCovered ==
    [][\A m \in Members : Covered(m) /\ ~DepositShrinks(m) => Covered(m)']_withdrawalsVars

(***************************************************************************)
(* A closed request is never touched again, by any handler or override:    *)
(* once it is rejected, cancelled or disbursed its row, its decisions and  *)
(* its reservation are final, and so is the withdrawal row it was paid by. *)
(***************************************************************************)
Closed(r) ==
    withdrawals[r].status \in {"rejected", "cancelled"} \/ withdrawals[r].disbursed

ClosedIsFinal ==
    [][\A r \in WithdrawalIds : Closed(r) =>
          /\ withdrawals'[r] = withdrawals[r]
          /\ reservations'[r] = reservations[r]
          /\ withdrawalApprovals'[r] = withdrawalApprovals[r]
          /\ withdrawalOverrides'[r] = withdrawalOverrides[r]
          /\ withdrawals[r].disbursed =>
                savings'[withdrawals[r].saving] = savings[withdrawals[r].saving]
      ]_withdrawalsVars

-----------------------------------------------------------------------------
(***************************************************************************)
(* The tables together implement the escrow: the phase is read off the     *)
(* reservation and the decisions, the amount off the reservation until the *)
(* payment and off the withdrawal row afterwards.                          *)
(***************************************************************************)
AgreedTo(r) ==
    DecidedStages(withdrawalApprovals[r]) # {} \/ withdrawals[r].status = "approved"

EscrowPhase(r) ==
    CASE reservations[r].status = "none"     -> "none"
      [] reservations[r].status = "active"   -> IF AgreedTo(r) THEN "agreed" ELSE "held"
      [] reservations[r].status = "consumed" -> "paid"
      [] OTHER                               -> "returned"

EscrowAmount(r) ==
    IF reservations[r].status = "consumed"
    THEN savings[withdrawals[r].saving].amount
    ELSE reservations[r].amount

Escrow == INSTANCE PayoutEscrow WITH
    Payouts <- WithdrawalIds,
    Amounts <- WithdrawalAmounts,
    phase   <- [r \in WithdrawalIds |-> EscrowPhase(r)],
    amount  <- [r \in WithdrawalIds |-> EscrowAmount(r)]

\* Every step of the withdrawal handlers, the savings corrections included, is a
\* step of the escrow or leaves it alone.
ImplementsEscrow == Escrow!Spec
=============================================================================
