\* Two members with two requests, two loans, two repayments, two workbooks and
\* two calls, of which each scenario of MCLoans uses some.
CONSTANTS
    Members = {"m1", "m2"}
    Nobody = Nobody
    SavingIds = {s1}
    Categories = {"wajib", "sukarela"}
    DepositAmounts = {50}
    DeactivationIds = {}
    MaxInt64 = 1000000
    FirstTierLimit = 1000
    LoanIds = {l1, l2}
    RepaymentIds = {r1, r2}
    RepaymentAmounts = {21}
    StartDates = {}
    StatementMonths = {}
    LoanRequestIds = {q1, q2}
    NoLoanId = NoLoanId
    LoanInputs <- MCInputs
    Offers <- MCOffers
    DisbursementDates = {125}
    MemberTypes = {"employee", "contract_worker"}
    Today = 105
    ketuaUtamaLoanApprovalThreshold = 150
    BatchIds = {b1, b2}
    Officers = {"o1"}
    Workbooks <- MCWorkbooks
    BlankRow = BlankRow
    MaxRows = 3
    Keys = {k1, k2}
    NoKey = NoKey
    Calls = {c1, c2}
SYMMETRY MCSymmetry
SPECIFICATION LoansInstance
INVARIANTS
    RequestsTellTheTruth
    EnteredOnce
PROPERTIES
    ImplementsPromise
    LentWithinLimit
    PaysOffExactly
    
CHECK_DEADLOCK FALSE
