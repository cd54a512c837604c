\* Two groups and the account of cash, one mapping, and two changes at once.
CONSTANTS
    g1 = g1
    g2 = g2
    cash = cash
    Codes = {g1, g2, cash}
    NoCode = NoCode
    SystemCodes = {cash}
    Mappings = {r1}
    Calls = {k1, k2}
    Operations = {"insert","update","deactivate","map","post"}
    Drafts <- MCDrafts
    MaxJournals = 1
SPECIFICATION ChartInstance
INVARIANTS
    MappingsArePosting
PROPERTIES
    UsedAccountsKeepMeaning
    ChangesEnd
CHECK_DEADLOCK FALSE
