-------------------------- MODULE MCLoanRepayments --------------------------
(***************************************************************************)
(* Instances of LoanRepayments: a regular loan of three months from the end*)
(* of January, in instalments of 34 or 35, and a purchase of 42 in one.    *)
(***************************************************************************)
EXTENDS LoanRepayments, TLC

MCSymmetry == Permutations(RepaymentIds)

Of(m, type, principal, duration) ==
    [member |-> m, type |-> type, asked |-> Date(1, 5), start |-> Date(1, 25),
     principal |-> principal, duration |-> duration]

MCContracts == {Of("m1", "regular", 100, 3), Of("m1", "goods_purchase_paylater", 40, 1)}
=============================================================================
