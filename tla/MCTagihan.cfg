\* One member with a loan of two months, and one with savings who leaves.
CONSTANTS
    Members = {"m1"}
    Nobody = Nobody
    SavingIds = {s1, s2, s3}
    Categories = {"wajib", "sukarela"}
    DepositAmounts = {10}
    DeactivationIds = {d1}
    MaxInt64 = 1000000
    FirstTierLimit = 1000
    LoanIds = {l1}
    Ell = l1
    RepaymentIds = {r1, r2}
    RepaymentAmounts = {20}
    StartDates = {}
    StatementMonths = {2, 3}
    Contracts <- MCLoan
    Configs <- MCConfigs
    Files <- MCFiles
    ClaimIds = {p1}
    HandReferences = {0}
    RecordMonths = {2}
SPECIFICATION TagihanInstance
INVARIANTS
    BillsAgree
PROPERTIES
    PreviewIsPromise
    
CHECK_DEADLOCK FALSE
