\* A member with two loans, one of which runs for three months: repayments are
\* recorded, corrected and removed, months are skipped, the start is moved.
CONSTANTS
    Members = {"m1"}
    Nobody = Nobody
    SavingIds = {}
    Categories = {"sukarela"}
    DepositAmounts = {}
    DeactivationIds = {}
    MaxInt64 = 1000000
    FirstTierLimit = 1000
    LoanIds = {l1, l2}
    RepaymentIds = {r1, r2, r3}
    RepaymentAmounts = {34, 42, 68}
    StartDates = {101, 131}
    StatementMonths = {2, 3, 4}
    Contracts <- MCContracts
SYMMETRY MCSymmetry
SPECIFICATION RepaymentsSpec
INVARIANTS
    HistoryExplainsLoan
PROPERTY
    ChangesKeepWhatIsPaid
CHECK_DEADLOCK FALSE
