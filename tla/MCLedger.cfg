\* Corrections and reversals, rules with details and dates, and journals that wait.
CONSTANTS
    deposit = deposit
    payout = payout
    loan = loan
    repayment = repayment
    fee = fee
    bank = bank
    other = other
    NoTransaction = NoTransaction
    Transactions = {deposit, payout, loan, repayment, fee}
    TypeOf <- Types
    DetailOf <- Details
    Accounts = {bank, other}
    FeeIncome = other
    NoAccount = NoAccount
    NoDetail = NoDetail
    Rules = {r1, r2}
    RuleKeys <- MCKeys
    Amounts = {1, 2}
    Fee = 1
    Days = {1, 2}
SPECIFICATION LedgerInstance
INVARIANTS
    JournalsFollowRecords
    RulesDisjoint
PROPERTIES
    CompletePosts
CHECK_DEADLOCK FALSE
