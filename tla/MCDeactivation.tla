--------------------------- MODULE MCDeactivation ---------------------------
(***************************************************************************)
(* Instances of the deactivation component for TLC, all identifiers        *)
(* interchangeable, and members too, as all of them are Ketua Utama.       *)
(***************************************************************************)
EXTENDS DeactivationSafety, TLC

Interchangeable ==
    Permutations(Members) \cup Permutations(SavingIds) \cup Permutations(WithdrawalIds)
    \cup Permutations(DeactivationIds)
=============================================================================
