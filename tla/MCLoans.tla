------------------------------ MODULE MCLoans ------------------------------
(***************************************************************************)
(* Instances of LoanBatches.  Amounts stand for millions of rupiah; the    *)
(* threshold of Ketua Utama lies between the offers.                       *)
(*                                                                         *)
(* All of the component at once is more than can be explored.  The first   *)
(* state chooses a scenario, which leaves out what it is not about:        *)
(*   terms    two requests of a member, any type and terms                 *)
(*   limit    one request, while the savings and the type change           *)
(*   payoff   a second loan pays off the first, while that is repaid       *)
(*   batches  workbooks, and requests of their members                     *)
(*   keys     single requests that are sent twice                          *)
(***************************************************************************)
EXTENDS LoanSafety, TLC

VARIABLE scenario

Input(type, amount, duration) ==
    [type |-> type, amount |-> amount, duration |-> duration, fee |-> NoFee]
Cells(m, type, amount, fee) ==
    [member |-> m, type |-> type, amount |-> amount, duration |-> 1, fee |-> fee]

MCInputs == {Input("regular", 121, 2), Input("goods_purchase_paylater", 40, 1)}
MCOffers == {[amount |-> 121, duration |-> 2], [amount |-> 200, duration |-> 1],
             [amount |-> 0, duration |-> 0]}

\* A purchase that is paid out at once, a voucher with a regular loan, which is
\* not, a repeated member, and nothing.
MCWorkbooks ==
    {<<Cells("m1", "goods_purchase_paylater", 40, NoFee)>>,
     <<Cells("m1", "voucher", 40, 3), BlankRow, Cells("m2", "regular", 120, NoFee)>>,
     <<Cells("m1", "regular", 120, NoFee), Cells("m1", "regular", 120, NoFee)>>,
     << >>}

\* Nothing comes in through an officer's workbook or under a key.
NoIntake ==
    /\ hasManager
    /\ \A b \in BatchIds : batches[b] = NoBatch
    /\ \A c \in Calls : calls[c] = IdleCall

Alone ==
    /\ \A q \in Asked : loanRequests[q].member = "m1"
    /\ \A s \in SavingIds : savings[s].member \in {"m1", Nobody}
    /\ memberType["m2"] = "employee"

Employed == memberType["m1"] = "employee"

NothingRemoved == \A s \in SavingIds : savings[s].type # "removed"

RegularAsAsked ==
    \A q \in Asked : /\ loanRequests[q].type = "regular"
                     /\ loanRequests[q].proposed.principal \in {0, loanRequests[q].requested}

\* No repayments but those that pay off a loan.
NothingRepaid ==
    \A r \in RepaymentIds :
        repayments[r].status = "recorded" => repayments[r].amount \notin RepaymentAmounts

\* What is not lent at once waits for the manager or is closed.
OnlyIntake ==
    /\ \A m \in Members : memberType[m] = "employee"
    /\ \A s \in SavingIds : savings[s] = NoSaving
    /\ \A r \in RepaymentIds : repayments[r].status = "none"
    /\ \A q \in Asked : loanRequests[q].imported \/ loanRequests[q].proposed = NoProposal

InScenario ==
    CASE scenario = "terms"   -> NoIntake /\ Alone /\ Employed /\ NothingRemoved /\ NothingRepaid
      [] scenario = "limit"   -> NoIntake /\ Alone /\ RegularAsAsked /\ Cardinality(Asked) <= 1
      [] scenario = "payoff"  -> NoIntake /\ Alone /\ Employed /\ NothingRemoved /\ RegularAsAsked
      [] scenario = "batches" -> OnlyIntake /\ \A c \in Calls : calls[c] = IdleCall
      [] scenario = "keys"    -> OnlyIntake /\ hasManager /\ \A b \in BatchIds : batches[b] = NoBatch

LoansInstanceInit ==
    /\ LoanBatchesInit /\ scenario \in {"terms", "limit", "payoff", "batches", "keys"}
    /\ InScenario

LoansInstance ==
    /\ LoansInstanceInit
    /\ [][LoanBatchesNext /\ UNCHANGED scenario /\ InScenario']_<<intakeVars, scenario>>

MCSymmetry ==
    Permutations(LoanRequestIds) \cup Permutations(LoanIds) \cup Permutations(BatchIds)
        \cup Permutations(Calls) \cup Permutations(RepaymentIds) \cup Permutations(Keys)
=============================================================================
