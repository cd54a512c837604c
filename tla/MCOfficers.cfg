\* Two members who may be officers, two calls and a request.
CONSTANTS
    Members = {m1, m2}
    Roles = {"admin", "bendahara", "manager", "ketua_utama"}
    Requests = {r1}
    Calls = {c1, c2}
    Operations = {"officer", "user", "reset", "membership"}
    DecidedMeanwhile = FALSE
    MaxEvents = 4
SPECIFICATION OfficersInstance
INVARIANTS
    OfficersAreMembers
    
    AKetuaUtamaCanSignIn
PROPERTY
    CallsEnd
CHECK_DEADLOCK FALSE
