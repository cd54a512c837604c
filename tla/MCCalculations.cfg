\* Every type of loan over principals at the boundaries of tiers and of int64, and
\* manifests of savings, of loans and of repayments.
CONSTANTS
    MaxInt64 = 262143
    FirstTierLimit = 25
    Principals <- MCPrincipals
    Durations = {1, 2, 3, 7, 12, 13, 24, 25}
    Starts <- MCStarts
    Rates = {0, 100, 1000}
    VoucherFees = {0, 3}
SPECIFICATION CalculationsSpec
INVARIANTS
    TermsAreExact
    ImportsReconcile
CHECK_DEADLOCK FALSE
