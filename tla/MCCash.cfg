\* Two drafts, a deposit, two categories, and two officers who change them.
SPECIFICATION CashInstance
CONSTANTS
    Categories = {1, 2}
    plain = plain
    other = other
    Names = {plain, other}
    Officers = {ana, budi}
    NoChange = NoChange
    Drafts = {first, second}
    Deposits = {s}
    kas = kas
    biaya = biaya
    gaji = gaji
    tutup = tutup
    CashAccounts = {kas}
    OtherAccounts = {biaya, gaji, tutup}
    Posting = {kas, biaya, gaji}
    Sources = {"bank", "cash"}
    Days = {1, 2}
    Amounts = {1}
    NoDraft = NoDraft
    NoDeposit = NoDeposit
    NoReference = NoReference
    MaxJournals = 4
INVARIANTS
    DraftsPostOnce
    
    CategoriesHangTogether
PROPERTIES
    UsedKeepMeaning
SYMMETRY Symmetry
CHECK_DEADLOCK FALSE
