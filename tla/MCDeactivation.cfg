\* Two Ketua Utama whose memberships end while a withdrawal may be open and
\* deposits are corrected and removed; three rows are a deposit and two payouts.
CONSTANTS
    Members = {m1, m2}
    Nobody = Nobody
    SavingIds = {s1, s2, s3}
    Categories = {"sukarela"}
    DepositAmounts = {8}
    DeactivationIds = {d1, d2}
    WithdrawalIds = {r1}
    WithdrawalAmounts = {3}
    NoSavingRecord = NoSavingRecord
    PayoutSources = {"cash"}
    KetuaUtamas = {m1, m2}
SPECIFICATION DeactivationSpec
SYMMETRY Interchangeable
CHECK_DEADLOCK FALSE
INVARIANTS
    NoOpenWithdrawals
    PaidAsAgreed
PROPERTIES
    EndsSettled
    KeepsAKetuaUtama
