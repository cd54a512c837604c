\* Two members, each with a balance and requests of their own: two requests
\* open at once, their payouts and a deposit.
CONSTANTS
    Members = {m1, m2}
    Nobody = Nobody
    SavingIds = {s1, s2, s3}
    Categories = {"sukarela"}
    DepositAmounts = {4, 8}
    DeactivationIds = {}
    WithdrawalIds = {r1, r2}
    WithdrawalAmounts = {3, 5}
    NoSavingRecord = NoSavingRecord
SPECIFICATION WithdrawalsSpec
SYMMETRY Interchangeable
\* Requests and rows are finite here, and a cooperative without active members
\* accepts no financial step at all.
CHECK_DEADLOCK FALSE
INVARIANTS
    PaidOnce
    TablesKeepStep
PROPERTIES
    ImplementsEscrow
    PromisesStayCovered
