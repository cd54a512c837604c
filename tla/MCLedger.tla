------------------------------ MODULE MCLedger ------------------------------
(***************************************************************************)
(* Instances of Ledger for TLC, and what is checked of it.                 *)
(***************************************************************************)
EXTENDS Ledger

CONSTANTS
    deposit, payout, loan, repayment, fee,  \* transactions
    bank, other                             \* accounts

(***************************************************************************)
(* The first state chooses what is looked at:                              *)
(*   corrections  deposits and repayments that are corrected, removed and  *)
(*                reversed, before and after their accounts are known      *)
(*   rules        rules with details and dates that are written anew       *)
(*   waiting      journals of withdrawals and loans that wait for rules    *)
(***************************************************************************)
VARIABLE scenario

Types == [t \in Transactions |->
            CASE t = deposit -> "savings" [] t = payout -> "withdrawal"
              [] t = loan -> "loan" [] t = repayment -> "repayment"
              [] OTHER -> "loan_suspension_fee"]
Details == [t \in Transactions |->
            CASE t \in {deposit, payout} -> "sukarela" [] t = fee -> "regular" [] OTHER -> "voucher"]

Key(type, component, detail, from, to) ==
    [type |-> type, component |-> component, detail |-> detail, from |-> from, to |-> to]
SavingKeys == {Key("savings", c, NoDetail, 1, 2) : c \in {"cash_bank", "savings_liability"}}
LoanKeys == {Key("loan", c, NoDetail, 1, 2) :
                c \in {"cash_bank", "loan_receivable", "admin_fee_income"}}
WaitingKeys == LoanKeys \cup {Key("withdrawal", "cash_bank", NoDetail, 1, 2)}
DatedKeys == {Key("repayment", "cash_bank", d, p[1], p[2]) :
                d \in {NoDetail, "goods_purchase_paylater"},
                p \in {<<1, 1>>, <<2, 3>>, <<1, 3>>, <<2, 2>>}}
MCKeys == SavingKeys \cup WaitingKeys \cup DatedKeys

\* What happens in each: transactions, which of them may be older than the
\* ledger, keys, amounts, days, accounts and journals.
Scenarios == [
    corrections |-> [transactions |-> {deposit, repayment}, older |-> {deposit, repayment},
                     keys |-> SavingKeys, amounts |-> {1, 2}, days |-> {1},
                     accounts |-> {bank}, chosen |-> {bank, NoAccount}, journals |-> 7],
    rules       |-> [transactions |-> {fee}, older |-> {},
                     keys |-> DatedKeys, amounts |-> {1}, days |-> {1, 2},
                     accounts |-> {bank, other}, chosen |-> {NoAccount}, journals |-> 3],
    waiting     |-> [transactions |-> {payout, loan}, older |-> {payout},
                     keys |-> WaitingKeys, amounts |-> {1}, days |-> {1},
                     accounts |-> {bank}, chosen |-> {bank, NoAccount}, journals |-> 3]]
Here == Scenarios[scenario]

RecordsHere == [amount : Here.amounts, day : Here.days, account : Here.chosen]
Room == Len(journals) < Here.journals - 1

Saved == \E r \in Rules, k \in Here.keys, a \in Here.accounts, b \in BOOLEAN :
            saveAccountingMapping(r, k, a, b)
CorrectedOne == \E t \in Here.transactions, a \in Here.amounts, d \in Here.days :
            correctSavingByID(t, a, d) \/ correctRepaymentByID(t, a, d)
RemovedOne == \E t \in Here.transactions : removeSavingByID(t) \/ removeRepaymentByID(t)
ReversedOneByHand == \E i \in DOMAIN journals : reverseFinancialJournal(i)

LedgerInstanceNext ==
    /\ \/ Room /\ \E t \in Here.transactions, rec \in RecordsHere : record(t, rec)
       \/ Saved
       \/ ensureFinancialJournalsBackfilled
       \/ scenario = "corrections" /\ Room /\ (CorrectedOne \/ RemovedOne \/ ReversedOneByHand)
       \/ scenario # "corrections" /\ \E a \in Here.accounts : switchAccount(a)
    /\ UNCHANGED scenario

LedgerInstanceInit ==
    /\ scenario \in DOMAIN Scenarios
    /\ LedgerInit(Here.older)
    /\ \A t \in Transactions : records[t] \in RecordsHere \cup {NoRecord}

\* Pages that show journals are opened again and again; what follows of it is
\* asked of the journals that wait.
LedgerInstance ==
    /\ LedgerInstanceInit /\ [][LedgerInstanceNext]_<<ledgerVars, scenario>>
    /\ WF_ledgerVars(scenario = "waiting" /\ ensureFinancialJournalsBackfilled)

-----------------------------------------------------------------------------
\* A journal whose lines all have accounts is posted in the end, one of the
\* backfill too (accounting.go:600).
CompletePosts ==
    \A i \in 1 .. 2 :
        (scenario = "waiting" /\ i \in Waiting(journals) /\ Complete(journals[i].lines))
            ~> (i \in DOMAIN journals /\ journals[i].status # "pending_mapping")
=============================================================================
