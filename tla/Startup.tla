------------------------------ MODULE Startup ------------------------------
(***************************************************************************)
(* Servers that start on one database: cmd/api/main.go with                *)
(* PrepareLegacyOfficerMappings, Migrate (internal/app/migrations.go) and  *)
(* EnsureSuperAdminUser (internal/app/auth.go), on PostgreSQL.  A server   *)
(* that fails ends (log.Fatal) and is started again, perhaps with another  *)
(* environment; it may crash at any step.                                  *)
(*                                                                         *)
(* A migration is one transaction that holds an advisory lock for its      *)
(* version.  One that only sends statements is a single step here; the     *)
(* conversion of the officers, which reads the mappings one by one while   *)
(* other servers write them, takes a step per officer, and its ALTER TABLE *)
(* keeps everyone else from the table of the users until it ends.          *)
(***************************************************************************)
EXTENDS LegacyData

CONSTANTS
    Servers,
    Databases,      \* what earlier releases may have left: [version, data, admins]
    Environments,   \* [mapping : officers -> members, byEmail : officers, email]
    Officers,       \* the users with an officer role before migration 13
    Emails, NoEmail,
    MemberEmails,   \* the addresses of members' users
    MaxCrashes, MaxRenamed

\* No earlier release wrote a super admin other than by EnsureSuperAdminUser.
ASSUME StartupAssumption ==
    /\ IsFiniteSet(Emails)
    /\ \A old \in Databases :
        /\ old.admins \in [Emails -> [state    : {"missing", "active", "inactive"},
                                     password : {"", "own", "bootstrap"}]]
        /\ Cardinality({e \in Emails : old.admins[e].state = "active"}) <= 1

VARIABLES
    origin,         \* the database before the first start
    schema,         \* the versions in schema_migrations
    data,           \* the rows that migrations convert
    admins,         \* the super admin users, by address: [state, password]
    renamed,        \* the officers whose user has got another address
    servers,        \* where each server is
    crashes

vars == <<origin, schema, data, admins, renamed, servers, crashes>>

\* The migrations that convert rows, and 28, which adds the role super_admin.
Versions == <<9, 10, 12, 13, 15, 27, 28, 46>>

Missing == [state |-> "missing", password |-> ""]

NoData == << >>

NoServer ==
    [at |-> "off", env |-> [mapping |-> << >>, byEmail |-> {}, email |-> NoEmail],
     keys |-> {}, key |-> NoRole, next |-> 1, work |-> NoData, todo |-> {}, found |-> FALSE,
     why |-> ""]

StartupInit ==
    /\ origin \in Databases
    /\ schema = {Versions[n] : n \in {k \in DOMAIN Versions : Versions[k] <= origin.version}}
    /\ data = origin.data
    /\ admins = origin.admins
    /\ renamed = {}
    /\ servers = [p \in Servers |-> NoServer]
    /\ crashes = 0

To(p, at)     == [servers EXCEPT ![p].at = at]
Fail(p, why)  == [servers EXCEPT ![p].at = "failed", ![p].why = why, ![p].work = NoData]
Version(p)    == Versions[servers[p].next]
Converting(p) == servers[p].at = "convert"

\* ALTER TABLE users of an open migration 13.
UsersLocked(p) == \E q \in Servers \ {p} : Converting(q)

-----------------------------------------------------------------------------
start(p, env) ==
    /\ servers[p].at \in {"off", "failed"}
    /\ servers' = [servers EXCEPT ![p] =
           [NoServer EXCEPT !.env = env, !.keys = DOMAIN env.mapping,
                            !.at = IF env.mapping = << >> THEN "check" ELSE "map"]]
    /\ UNCHANGED <<origin, schema, data, admins, renamed, crashes>>

\* The entries of a Go map come in any order.  A key may be an address.
resolveLegacyOfficer(p, officer) ==
    /\ servers[p].at = "map" /\ officer \in servers[p].keys
    /\ ~UsersLocked(p)
    /\ servers' = IF officer \in servers[p].env.byEmail /\ officer \in renamed
                  THEN Fail(p, "mapping")
                  ELSE [servers EXCEPT ![p].at = "store", ![p].key = officer]
    /\ UNCHANGED <<origin, schema, data, admins, renamed, crashes>>

mappingsStored(p) ==
    /\ servers[p].at = "map" /\ servers[p].keys = {}
    /\ servers' = To(p, "check")
    /\ UNCHANGED <<origin, schema, data, admins, renamed, crashes>>

\* member_id is unique.
MappedTo(member, officer) == \E o \in Officers \ {officer} : data.mappings[o] = member

\* Mutant: an insert without ON CONFLICT DO UPDATE.
MayMap_Once(officer, member) ==
    ~MappedTo(member, officer) /\ data.mappings[officer] = NoMember

MayMap(officer, member) == ~MappedTo(member, officer)

\* A new row is checked against the table of the users, a changed one is not.
storeLegacyOfficerMapping(p) ==
    LET officer == servers[p].key
        member  == servers[p].env.mapping[officer]
    IN  /\ servers[p].at = "store"
        /\ data.mappings[officer] = NoMember => ~UsersLocked(p)
        /\ IF MayMap(officer, member)
           THEN /\ data' = [data EXCEPT !.mappings[officer] = member]
                /\ servers' = [servers EXCEPT ![p].at = "map", ![p].keys = @ \ {officer}]
           ELSE servers' = Fail(p, "mapping") /\ UNCHANGED data
        /\ UNCHANGED <<origin, schema, admins, renamed, crashes>>

-----------------------------------------------------------------------------
Passed(p) == [servers EXCEPT ![p].at = "check", ![p].next = @ + 1, ![p].work = NoData]

\* Migrate: the next version that is not recorded yet.
checkMigration(p) ==
    /\ servers[p].at = "check"
    /\ servers' = IF servers[p].next > Len(Versions) THEN To(p, "count")
                  ELSE IF Version(p) \in schema THEN Passed(p) ELSE To(p, "apply")
    /\ UNCHANGED <<origin, schema, data, admins, renamed, crashes>>

\* Asked again once the advisory lock is held.
AlreadyApplied(version) == version \in schema

MayApply(version) ==
    CASE version = 9  -> MayBackfill(data)
      [] version = 15 -> MayRemovePending(data)
      [] OTHER        -> TRUE

Converted(version) ==
    CASE version = 9  -> backfillLoanSchedules(data)
      [] version = 10 -> keepOldestPending(data)
      [] version = 12 -> addOfficerHierarchyAndApprovals(data)
      [] version = 15 -> removePendingRequests(data)
      [] version = 27 -> changeLoanApprovalHierarchy(data)
      [] version = 46 -> finalizeLegacyWithdrawalsAwaitingKetuaUtama(data)
      [] OTHER        -> data

\* version is the primary key of schema_migrations.
applyMigration(p) ==
    LET version == Version(p) IN
    /\ servers[p].at = "apply"
    /\ ~\E q \in Servers \ {p} : Converting(q) /\ Version(q) = version
    /\ IF AlreadyApplied(version)
       THEN servers' = Passed(p) /\ UNCHANGED <<data, schema>>
       ELSE IF version = 13
       THEN /\ servers' = [servers EXCEPT ![p].at = "convert", ![p].work = data,
                                          ![p].todo = LegacyOfficers(data.users)]
            /\ UNCHANGED <<data, schema>>
       ELSE IF MayApply(version) /\ version \notin schema
       THEN /\ data' = Converted(version)
            /\ schema' = schema \cup {version}
            /\ servers' = Passed(p)
       ELSE servers' = Fail(p, "migration") /\ UNCHANGED <<data, schema>>
    /\ UNCHANGED <<origin, admins, renamed, crashes>>

\* Mutant: each officer is committed by itself.
Committed_Each(p, work) == [work EXCEPT !.mappings = data.mappings]

\* What the others see of an open transaction.
Committed(p, work) == data

\* ORDER BY id
NextOfficer(p) == CHOOSE o \in servers[p].todo : TRUE

convertLegacyOfficer(p) ==
    LET officer == NextOfficer(p)
        work    == convertOfficer(servers[p].work, data.mappings, officer)
    IN  /\ Converting(p) /\ servers[p].todo # {}
        /\ IF MayConvert(servers[p].work, data.mappings, officer)
           THEN /\ servers' = [servers EXCEPT ![p].work = work, ![p].todo = @ \ {officer}]
                /\ data' = Committed(p, work)
           ELSE servers' = Fail(p, "migration") /\ UNCHANGED data
        /\ UNCHANGED <<origin, schema, admins, renamed, crashes>>

commitConversion(p) ==
    /\ Converting(p) /\ servers[p].todo = {}
    /\ IF OneCurrentUserEach(servers[p].work.users) /\ 13 \notin schema
       THEN /\ data' = [servers[p].work EXCEPT !.mappings = data.mappings]
            /\ schema' = schema \cup {13}
            /\ servers' = Passed(p)
       ELSE servers' = Fail(p, "migration") /\ UNCHANGED <<data, schema>>
    /\ UNCHANGED <<origin, admins, renamed, crashes>>

-----------------------------------------------------------------------------
ActiveAdmins == {e \in Emails : admins[e].state = "active"}

countSuperAdmins(p) ==
    /\ servers[p].at = "count"
    /\ servers' = To(p, IF ActiveAdmins = {} THEN "find" ELSE "serving")
    /\ UNCHANGED <<origin, schema, data, admins, renamed, crashes>>

findSuperAdmin(p) ==
    LET email == servers[p].env.email IN
    /\ servers[p].at = "find"
    /\ servers' = IF \/ email = NoEmail
                     \/ email \in MemberEmails
                     \/ email \in ActiveAdmins
                  THEN Fail(p, "admin")
                  ELSE [servers EXCEPT ![p].at = "save",
                                       ![p].found = (admins[email].state # "missing")]
    /\ UNCHANGED <<origin, schema, data, admins, renamed, crashes>>

\* Mutant: the index idx_users_one_active_super_admin is missing.
MaySave_Any(email, found) == found \/ admins[email].state = "missing"

\* The UPDATE is by id; addresses and the active super admin are unique.
MaySave(email, found) ==
    /\ found \/ admins[email].state = "missing"
    /\ ActiveAdmins \subseteq {email}

saveSuperAdmin(p) ==
    LET email == servers[p].env.email IN
    /\ servers[p].at = "save"
    /\ IF MaySave(email, servers[p].found)
       THEN /\ admins' = [admins EXCEPT ![email] = [state |-> "active", password |-> "bootstrap"]]
            /\ servers' = To(p, "serving")
       ELSE servers' = Fail(p, "admin") /\ UNCHANGED admins
    /\ UNCHANGED <<origin, schema, data, renamed, crashes>>

-----------------------------------------------------------------------------
Serving == {p \in Servers : servers[p].at = "serving"}

\* What people do once a server answers.
changeOwnPassword(email) ==
    /\ Serving # {}
    /\ admins[email] = [state |-> "active", password |-> "bootstrap"]
    /\ admins' = [admins EXCEPT ![email].password = "own"]
    /\ UNCHANGED <<origin, schema, data, renamed, servers, crashes>>

renameLogin(officer) ==
    /\ Serving # {}
    /\ Current(data.users, officer)
    /\ officer \notin renamed /\ Cardinality(renamed) < MaxRenamed
    /\ renamed' = renamed \cup {officer}
    /\ UNCHANGED <<origin, schema, data, admins, servers, crashes>>

\* An open transaction is rolled back and its locks are released.
crash(p) ==
    /\ servers[p].at \notin {"off", "failed"}
    /\ crashes < MaxCrashes
    /\ servers' = [servers EXCEPT ![p] = NoServer]
    /\ crashes' = crashes + 1
    /\ UNCHANGED <<origin, schema, data, admins, renamed>>

Step(p) ==
    \/ \E env \in Environments : start(p, env)
    \/ \E officer \in Officers : resolveLegacyOfficer(p, officer)
    \/ mappingsStored(p)
    \/ storeLegacyOfficerMapping(p)
    \/ checkMigration(p)
    \/ applyMigration(p)
    \/ convertLegacyOfficer(p)
    \/ commitConversion(p)
    \/ countSuperAdmins(p)
    \/ findSuperAdmin(p)
    \/ saveSuperAdmin(p)

StartupNext ==
    \/ \E p \in Servers : Step(p) \/ crash(p)
    \/ \E email \in Emails : changeOwnPassword(email)
    \/ \E officer \in Officers : renameLogin(officer)

StartupSpec == StartupInit /\ [][StartupNext]_vars

\* A container is restarted (restart: unless-stopped) and its process runs on.
FairStartupSpec == StartupSpec /\ \A p \in Servers : WF_vars(Step(p))
=============================================================================
