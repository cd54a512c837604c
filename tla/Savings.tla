------------------------------ MODULE Savings ------------------------------
(***************************************************************************)
(* Saving records (table saving_records) and the balances computed from    *)
(* them: internal/app/savings.go and internal/app/saving_corrections.go.   *)
(*                                                                         *)
(* There is no stored balance.  A balance is the sum of the deposits of a  *)
(* member and category minus the withdrawals, read again inside every      *)
(* transaction that needs it.                                              *)
(*                                                                         *)
(* Each handler is one database transaction under Server.financialMu, so   *)
(* each is one action; a handler that returns an error has rolled back and *)
(* is no step.  The journal that insertSaving, correctSavingByID and       *)
(* removeSavingByID post in the same transaction belongs to the ledger     *)
(* component; here its only effect is that it may refuse, which is again   *)
(* no step.                                                                *)
(***************************************************************************)
EXTENDS Integers, FiniteSets, Functions, Approvals

CONSTANTS
    Members,          \* members.id
    Nobody,           \* the member of a row that does not exist yet
    SavingIds,        \* saving_records.id, drawn by newID()
    Categories,       \* saving categories in use
    DepositAmounts,   \* amounts officers record or correct a deposit to
    DeactivationIds   \* member_deactivation_requests.id

\* Identifiers are strings of 32 hexadecimal digits, and a table holds finitely many.
ASSUME SavingsAssumption ==
    /\ IsFiniteSet(SavingIds)
    /\ Nobody \notin Members
    /\ "sukarela" \in Categories
    /\ Categories \subseteq {"pokok", "wajib", "sukarela", "shu", "khusus"}
    /\ DepositAmounts \subseteq Nat \ {0}

VARIABLES
    memberStatus,     \* members.status
    savings,          \* saving_records; "removed" rows are in saving_record_removals
    deactivations     \* member_deactivation_requests, only read here

savingsVars == <<memberStatus, savings, deactivations>>

MemberStatuses == {"active", "inactive", "suspended"}

SavingRows ==
    [type : {"none", "deposit", "withdrawal", "removed"},
     member : Members \cup {Nobody},
     category : Categories,
     amount : Nat]

NoSaving == [type |-> "none", member |-> Nobody, category |-> "sukarela", amount |-> 0]

DeactivationRows ==
    [status : {"none", "pending", "approved", "rejected", "cancelled"},
     stage : Stages \cup {NoStage},
     member : Members \cup {Nobody},
     balances : [Categories -> Int],
     payoutSource : {"", "cash", "bank"}]

NoDeactivation ==
    [status |-> "none", stage |-> NoStage, member |-> Nobody,
     balances |-> [c \in Categories |-> 0], payoutSource |-> ""]

SavingsTypeOK ==
    /\ memberStatus \in [Members -> MemberStatuses]
    /\ savings \in [SavingIds -> SavingRows]
    /\ deactivations \in [DeactivationIds -> DeactivationRows]

-----------------------------------------------------------------------------
RowsOf(m, c, type) ==
    {s \in SavingIds : savings[s].member = m /\ savings[s].category = c
                                             /\ savings[s].type = type}

AmountOf(ids) == SumFunctionOnSet([s \in SavingIds |-> savings[s].amount], ids)

\* savingSummary: the balance of one category.
categoryBalance(m, c) ==
    AmountOf(RowsOf(m, c, "deposit")) - AmountOf(RowsOf(m, c, "withdrawal"))

\* 75% of the Sukarela balance, rounded down, computed without overflow.
maxWithdrawalAmountForSukarelaBalance(balance) ==
    IF balance <= 0 THEN 0
    ELSE (balance \div 100) * 75 + ((balance % 100) * 75) \div 100

\* Mutant: what other requests reserve is not subtracted.
availableWithdrawalAmountForSukarelaBalance_Gross(balance, reserved) ==
    maxWithdrawalAmountForSukarelaBalance(balance)

availableWithdrawalAmountForSukarelaBalance(balance, reserved) ==
    LET maximum == maxWithdrawalAmountForSukarelaBalance(balance)
    IN  IF reserved >= maximum THEN 0 ELSE maximum - reserved

hasPendingMemberDeactivation(m) ==
    \E d \in DeactivationIds :
        deactivations[d].status = "pending" /\ deactivations[d].member = m

-----------------------------------------------------------------------------
SavingsInit ==
    /\ memberStatus \in [Members -> MemberStatuses]
    /\ savings = [s \in SavingIds |-> NoSaving]
    /\ deactivations = [d \in DeactivationIds |-> NoDeactivation]

\* An officer records a deposit; a withdrawal through this door is refused.
insertSaving(s, m, c, amount) ==
    /\ savings[s].type = "none"
    /\ memberStatus[m] = "active"
    /\ ~hasPendingMemberDeactivation(m)
    /\ savings' = [savings EXCEPT ![s] =
           [type |-> "deposit", member |-> m, category |-> c, amount |-> amount]]
    /\ UNCHANGED <<memberStatus, deactivations>>

\* Mutant: withdrawals can be corrected too.
correctSavingByID_AnyType(s, amount) ==
    /\ savings[s].type \in {"deposit", "withdrawal"}
    /\ amount # savings[s].amount
    /\ savings' = [savings EXCEPT ![s] = [@ EXCEPT !.amount = amount]]
    /\ UNCHANGED <<memberStatus, deactivations>>

\* A super admin changes the amount of a deposit.  Neither the member's status
\* nor the balance left after the change is looked at.
correctSavingByID(s, amount) ==
    /\ savings[s].type = "deposit"
    /\ amount # savings[s].amount
    /\ savings' = [savings EXCEPT ![s] = [@ EXCEPT !.amount = amount]]
    /\ UNCHANGED <<memberStatus, deactivations>>

\* A super admin moves a deposit to saving_record_removals.
removeSavingByID(s) ==
    /\ savings[s].type = "deposit"
    /\ savings' = [savings EXCEPT ![s] = [@ EXCEPT !.type = "removed"]]
    /\ UNCHANGED <<memberStatus, deactivations>>
=============================================================================
