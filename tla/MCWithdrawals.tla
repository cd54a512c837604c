--------------------------- MODULE MCWithdrawals ---------------------------
(***************************************************************************)
(* Instances of the withdrawal component for TLC.  Identifiers are drawn   *)
(* by newID() and mean nothing, and no handler names a member, so all      *)
(* three sets are interchangeable.                                         *)
(***************************************************************************)
EXTENDS WithdrawalSafety, TLC

Interchangeable ==
    Permutations(Members) \cup Permutations(SavingIds) \cup Permutations(WithdrawalIds)
=============================================================================
