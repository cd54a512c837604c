\* Two imports of shared rows, at most two runs, one crash.
CONSTANTS
    Importers = {p, q}
    Calls <- MCCalls
    Databases <- MCDatabases
    Paths = {"a", "b"}
    Latest = 48
    MaxRuns = 2
    MaxCrashes = 1
SPECIFICATION SeedInstance
INVARIANTS
    RunsAreTrue
    OneSuccess
SYMMETRY Symmetry
CHECK_DEADLOCK FALSE
