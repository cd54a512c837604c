\* Databases of five releases, two servers, one crash.
CONSTANTS
    Servers = {p, q}
    Databases <- MCAll
    Environments <- MCEnvironments
    Officers = {"o1", "o2"}
    Members = {"m1", "m2", "m3", "m4"}
    NoMember = NoMember
    ActiveMembers = {"m1", "m2", "m3"}
    LegacyRate = 100
    Emails = {"e1", "e2"}
    NoEmail = NoEmail
    MemberEmails = {"taken"}
    MaxCrashes = 1
    MaxRenamed = 1
    MaxInt64 = 2147483
    FirstTierLimit = 1000
SPECIFICATION StartupInstance
INVARIANTS
    UpgradesKeepRights
    OneSuperAdmin
PROPERTY
    AllComeToServe
CHECK_DEADLOCK FALSE
