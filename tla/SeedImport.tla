----------------------------- MODULE SeedImport -----------------------------
(***************************************************************************)
(* Importing historical data (cmd/seed, RunSeedImport of                   *)
(* internal/app/seed_import.go): several imports on one database, which a  *)
(* starting server may migrate at any time.  Each transaction of an import *)
(* is one step; a process may crash between two.                           *)
(*                                                                         *)
(* A manifest is what SeedManifest has made of the workbooks:              *)
(*   [snapshot, hash, blocked, extended,                                   *)
(*    people : {[id, no, name, status, type]}, savings, loans : [id ->     *)
(*    type], events : [id -> loan]]                                        *)
(* where an id is derived from the row of the workbook.  A call is         *)
(*   [manifest, append, historical, dry, path].                            *)
(***************************************************************************)
EXTENDS Integers, Sequences, FiniteSets, SequencesExt

CONSTANTS
    Importers, Calls, Databases,
    Paths,
    Latest,             \* the last migration
    MaxRuns, MaxCrashes

VARIABLES
    schema,             \* the last migration that is applied
    members,            \* id -> [no, name, status, type]
    users,              \* id of a member -> whose password is set: Own or a run
    savings, loans,     \* id of a row -> run; loan -> [run, type]
    events,             \* ids in loan_repayment_events
    runs,               \* seed_import_runs: [snapshot, hash, status]
    files,              \* path -> the credentials in it, or NoFile
    importers,          \* [call, todo, run, people, made, result]
    crashes

db   == <<schema, members, users, savings, loans, events, runs>>
vars == <<db, files, importers, crashes>>

Own      == 0
NoFile   == {<<"none", 0>>}
NoType   == ""

\* The savings that a call writes: they are not replayed for the sake of loans.
Replayed(call) == IF call.historical THEN {} ELSE call.manifest.savings

ASSUME SeedAssumption ==
    /\ Latest \in Nat
    /\ \A call \in Calls :
        /\ call.append \in BOOLEAN /\ call.historical \in BOOLEAN /\ call.manifest.extended \in BOOLEAN
        /\ \A m \in call.manifest.people : DOMAIN m = {"id", "no", "name", "status", "type"}
    /\ \A old \in Databases :
        /\ old.schema \in Nat
        /\ \A id \in DOMAIN old.members : DOMAIN old.members[id] = {"no", "name", "status", "type"}
        /\ \A id \in DOMAIN old.users : old.users[id] = Own

\* A row of a workbook is always that of one member, and workbooks with one
\* snapshot, which have one content, have a row of money in common.
ASSUME SeedRowsAssumption ==
    /\ \A call \in Calls : \A m \in call.manifest.people :
        /\ \A other \in Calls : \A o \in other.manifest.people : o.id = m.id => o.no = m.no
        /\ \A old \in Databases : m.id \in DOMAIN old.members => old.members[m.id].no = m.no
    /\ \A call, other \in Calls : call.manifest.snapshot = other.manifest.snapshot =>
        \/ Replayed(call) \cap Replayed(other) # {}
        \/ DOMAIN call.manifest.loans \cap DOMAIN other.manifest.loans # {}

Idle     == [call |-> << >>, todo |-> << >>, run |-> 0, people |-> {}, made |-> {}, result |-> "none"]
Higher(a, b) == IF a < b THEN b ELSE a

SeedInit ==
    /\ \E old \in Databases :
           schema = old.schema /\ members = old.members /\ users = old.users
    /\ savings = << >> /\ loans = << >> /\ events = {} /\ runs = << >>
    /\ files = [path \in Paths |-> NoFile]
    /\ importers = [p \in Importers |-> Idle]
    /\ crashes = 0

-----------------------------------------------------------------------------
\* Mutant: the run is marked before the loans have their types.
Steps_Early(call) ==
    <<"snapshot", "open", "validate", "empty", "seed", "configs", "classify", "succeed", "loanTypes",
      "finish", "memberTypes", "write">>

Steps(call) ==
    CASE call.append ->
             <<"snapshot", "open", "validate", "prepare", "reconcile", "seed", "configs",
               "memberTypes", "succeed", "write">>
      [] ~call.append /\ call.manifest.extended ->
             <<"snapshot", "open", "validate", "extend", "empty", "seed", "configs", "loanTypes",
               "finish", "memberTypes", "succeed", "write">>
      [] OTHER ->
             <<"snapshot", "open", "validate", "empty", "seed", "configs", "classify", "loanTypes",
               "finish", "memberTypes", "succeed", "write">>

Call(p)     == importers[p].call
Manifest(p) == Call(p).manifest
Running(p)  == importers[p].todo # << >>
Doing(p, step) == Running(p) /\ Head(importers[p].todo) = step

Done(p)        == [importers EXCEPT ![p].todo = Tail(@)]
End(p, result) == [importers EXCEPT ![p].todo = << >>, ![p].result = result]

\* The status of p's run.
Mark(p, status) == [runs EXCEPT ![importers[p].run].status = status]

\* MigrateTo: migration 15 makes a regular loan of every loan there is.
Classified(to) ==
    IF schema < 15 /\ to >= 15 THEN [id \in DOMAIN loans |-> [loans[id] EXCEPT !.type = "regular"]]
    ELSE loans

MigrateTo(version) == schema' = Higher(schema, version) /\ loans' = Classified(version)

begin(p, call) ==
    /\ ~Running(p)
    /\ call.historical => call.append
    /\ importers' = [importers EXCEPT ![p] =
           [Idle EXCEPT !.call = call, !.todo = Steps(call)]]
    /\ MigrateTo(14)
    /\ UNCHANGED <<members, users, savings, events, runs, files, crashes>>

Succeeded(snapshot) ==
    {r \in DOMAIN runs : runs[r].snapshot = snapshot /\ runs[r].status = "succeeded"}

\* Of several the one that has finished last counts.
successfulSeedSnapshot(p) ==
    LET found == Succeeded(Manifest(p).snapshot) IN
    /\ Doing(p, "snapshot")
    /\ importers' =
           IF found = {} THEN Done(p)
           ELSE IF \E r \in found : runs[r].hash = Manifest(p).hash
                THEN End(p, "already_succeeded") ELSE End(p, "refused")
    /\ UNCHANGED <<db, files, crashes>>

SchemaFits(p) == IF Call(p).append THEN schema >= 18 ELSE schema <= 14

insertSeedRun(p) ==
    /\ Doing(p, "open")
    /\ IF SchemaFits(p)
       THEN /\ Len(runs) < MaxRuns
            /\ runs' = Append(runs, [snapshot |-> Manifest(p).snapshot, hash |-> Manifest(p).hash,
                                     status |-> "validating"])
            /\ importers' = [Done(p) EXCEPT ![p].run = Len(runs) + 1, ![p].people = Manifest(p).people]
       ELSE importers' = End(p, "refused") /\ UNCHANGED runs
    /\ UNCHANGED <<schema, members, users, savings, loans, events, files, crashes>>

\* Only members, savings and, if asked for, historical loans can be appended,
\* and savings of the extended categories only come without loans.
Supported(p) ==
    Manifest(p).loans # << >> =>
        IF Call(p).append THEN Call(p).historical ELSE ~Manifest(p).extended

validate(p) ==
    /\ Doing(p, "validate")
    /\ IF Manifest(p).blocked
       THEN runs' = Mark(p, "validation_failed") /\ importers' = End(p, "refused")
       ELSE IF Call(p).dry THEN runs' = Mark(p, "dry_run") /\ importers' = End(p, "dry_run")
       ELSE /\ importers' = IF Supported(p) THEN Done(p) ELSE End(p, "refused")
            /\ UNCHANGED runs
    /\ UNCHANGED <<schema, members, users, savings, loans, events, files, crashes>>

\* The migrations of an import, each up to a version of its own.
Target(p, step) ==
    CASE step = "prepare"  -> IF Call(p).historical THEN 21 ELSE 20
      [] step = "extend"   -> 19
      [] step = "classify" -> 15
      [] OTHER             -> 20

migrate(p, step) ==
    /\ Doing(p, step)
    /\ MigrateTo(Target(p, step))
    /\ importers' = Done(p)
    /\ UNCHANGED <<members, users, savings, events, runs, files, crashes>>

-----------------------------------------------------------------------------
\* Members are recognised by their number, and their names have to agree.
SameNumber(person) == {id \in DOMAIN members : members[id].no = person.no}

Existing(person) ==
    IF SameNumber(person) = {} THEN person
    ELSE [person EXCEPT !.id = CHOOSE id \in SameNumber(person) : TRUE]

reconcileAppendMemberIDs(p) ==
    LET agree == \A person \in Manifest(p).people :
                    \A id \in SameNumber(person) : members[id].name = person.name
    IN  /\ Doing(p, "reconcile")
        /\ importers' = IF agree
                        THEN [Done(p) EXCEPT ![p].people = {Existing(m) : m \in Manifest(p).people}]
                        ELSE End(p, "refused")
        /\ UNCHANGED <<db, files, crashes>>

Empty == members = << >> /\ savings = << >> /\ loans = << >>

validateEmptyOperationalDatabase(p) ==
    /\ Doing(p, "empty")
    /\ IF Empty THEN importers' = Done(p) /\ UNCHANGED runs
       ELSE importers' = End(p, "refused") /\ runs' = Mark(p, "validation_failed")
    /\ UNCHANGED <<schema, members, users, savings, loans, events, files, crashes>>

SavingsOf(p) == Replayed(Call(p))

NewPeople(p) ==
    {m \in importers[p].people : ~Call(p).append \/ m.id \notin DOMAIN members}

\* An append leaves a login alone that exists.
NewUsers(p) ==
    {m \in importers[p].people : m.status = "active" /\ (~Call(p).append \/ m.id \notin DOMAIN users)}

\* Mutant: rows that are there already are passed over (ON CONFLICT DO NOTHING).
Conflicts_Ignored(p) == \E m \in NewPeople(p) : SameNumber(m) # {}

\* Primary keys, unique numbers, and a loan without a type after migration 15.
Conflicts(p) ==
    \/ \E m \in NewPeople(p) : m.id \in DOMAIN members \/ SameNumber(m) # {}
    \/ \E m \in NewUsers(p) : m.id \in DOMAIN users
    \/ SavingsOf(p) \cap DOMAIN savings # {}
    \/ DOMAIN Manifest(p).loans \cap DOMAIN loans # {}
    \/ ~Call(p).append /\ Manifest(p).loans # << >> /\ schema >= 15

\* Old entries win, as rows that are not written.
Added(old, keys, New(_)) ==
    [k \in DOMAIN old \cup keys |-> IF k \in DOMAIN old THEN old[k] ELSE New(k)]

PersonWith(people, id) == CHOOSE m \in people : m.id = id
ImportedLoan(p, id) ==
    [run |-> importers[p].run,
     type |-> IF Call(p).append THEN Manifest(p).loans[id] ELSE NoType]

seedBaseSchema(p) ==
    LET run    == importers[p].run
        People == NewPeople(p)
        Logins == NewUsers(p)
    IN
    /\ Doing(p, "seed")
    /\ IF Conflicts(p)
       THEN /\ importers' = End(p, "refused") /\ runs' = Mark(p, "failed")
            /\ UNCHANGED <<members, users, savings, loans, events>>
       ELSE /\ members' = Added(members, {m.id : m \in People}, LAMBDA id :
                            LET m == PersonWith(People, id) IN
                            [no |-> m.no, name |-> m.name, status |-> m.status, type |-> "employee"])
            /\ users'   = Added(users, {m.id : m \in Logins}, LAMBDA id : run)
            /\ savings' = Added(savings, SavingsOf(p), LAMBDA id : run)
            /\ loans'   = Added(loans, DOMAIN Manifest(p).loans, LAMBDA id : ImportedLoan(p, id))
            /\ events'  = events \cup (IF Call(p).historical THEN DOMAIN Manifest(p).events ELSE {})
            /\ importers' = [Done(p) EXCEPT ![p].made = {<<m.id, run>> : m \in Logins}]
            /\ UNCHANGED runs
    /\ UNCHANGED <<schema, files, crashes>>

\* Another transaction or the connection may make it fail; it leaves nothing.
seedFails(p) ==
    /\ Doing(p, "seed")
    /\ importers' = End(p, "refused")
    /\ runs' = Mark(p, "failed")
    /\ UNCHANGED <<schema, members, users, savings, loans, events, files, crashes>>

\* The members' monthly savings are filled in (see Tagihan).  When that fails the
\* run has failed, and its rows stay.
ensureMissingMemberTagihanConfigs(p) ==
    /\ Doing(p, "configs")
    /\ \/ importers' = Done(p) /\ UNCHANGED runs
       \/ importers' = End(p, "refused") /\ runs' = Mark(p, "failed")
    /\ UNCHANGED <<schema, members, users, savings, loans, events, files, crashes>>

assignImportedLoanTypes(p) ==
    /\ Doing(p, "loanTypes")
    /\ loans' = [id \in DOMAIN loans |->
                    IF id \in DOMAIN Manifest(p).loans
                    THEN [loans[id] EXCEPT !.type = Manifest(p).loans[id]] ELSE loans[id]]
    /\ importers' = Done(p)
    /\ UNCHANGED <<schema, members, users, savings, events, runs, files, crashes>>

\* The CHECK on members.member_type before and after migration 22.
TypesKnown(people) ==
    \A m \in people :
        m.type \in IF schema < 22 THEN {"daily_worker", "employee", "self_employed"}
                   ELSE {"employee", "contract_worker", "daily_worker", "customer"}

\* The type of every member of the manifest, whether the import made it or not.
updateImportedMemberTypes(p) ==
    LET people == importers[p].people IN
    /\ Doing(p, "memberTypes")
    /\ IF TypesKnown(people)
       THEN /\ members' = [id \in DOMAIN members |->
                              IF \E m \in people : m.id = id
                              THEN [members[id] EXCEPT !.type = PersonWith(people, id).type]
                              ELSE members[id]]
            /\ importers' = Done(p)
       ELSE importers' = End(p, "refused") /\ UNCHANGED members
    /\ UNCHANGED <<schema, users, savings, loans, events, runs, files, crashes>>

succeed(p) ==
    /\ Doing(p, "succeed")
    /\ runs' = Mark(p, "succeeded")
    /\ importers' = Done(p)
    /\ UNCHANGED <<schema, members, users, savings, loans, events, files, crashes>>

\* The file must not exist yet (O_EXCL).
writeSeedCredentials(p) ==
    /\ Doing(p, "write")
    /\ IF files[Call(p).path] = NoFile
       THEN /\ files' = [files EXCEPT ![Call(p).path] = importers[p].made]
            /\ importers' = End(p, "succeeded")
       ELSE importers' = End(p, "unwritten") /\ UNCHANGED files
    /\ UNCHANGED <<db, crashes>>

-----------------------------------------------------------------------------
(***************************************************************************)
(* RunHistoricalRepaymentEventBackfill: the events of a manifest whose     *)
(* loans are there; those with the same source_key are passed over.  It    *)
(* records no run.                                                         *)
(***************************************************************************)
MayBackfillEvents(manifest) ==
    /\ ~manifest.blocked
    /\ \A person \in manifest.people :
           \A id \in SameNumber(person) : members[id].name = person.name
    /\ DOMAIN manifest.loans \subseteq DOMAIN loans

backfill(p, call) ==
    /\ ~Running(p)
    /\ MigrateTo(21)
    /\ events' = IF MayBackfillEvents(call.manifest)
                 THEN events \cup DOMAIN call.manifest.events ELSE events
    /\ UNCHANGED <<members, users, savings, runs, files, importers, crashes>>

serverStarts ==
    /\ schema < Latest
    /\ MigrateTo(Latest)
    /\ UNCHANGED <<members, users, savings, events, runs, files, importers, crashes>>

crash(p) ==
    /\ Running(p) /\ crashes < MaxCrashes
    /\ crashes' = crashes + 1
    /\ importers' = End(p, "crashed")
    /\ UNCHANGED <<db, files>>

SeedStep(p) ==
    \/ \E call \in Calls : begin(p, call)
    \/ \E call \in Calls : backfill(p, call)
    \/ successfulSeedSnapshot(p)
    \/ insertSeedRun(p)
    \/ validate(p)
    \/ \E step \in {"prepare", "extend", "classify", "finish"} : migrate(p, step)
    \/ reconcileAppendMemberIDs(p)
    \/ validateEmptyOperationalDatabase(p)
    \/ seedBaseSchema(p)
    \/ seedFails(p)
    \/ ensureMissingMemberTagihanConfigs(p)
    \/ assignImportedLoanTypes(p)
    \/ updateImportedMemberTypes(p)
    \/ succeed(p)
    \/ writeSeedCredentials(p)
    \/ crash(p)

SeedNext == serverStarts \/ \E p \in Importers : SeedStep(p)

SeedSpec == SeedInit /\ [][SeedNext]_vars

-----------------------------------------------------------------------------
(***************************************************************************)
(* What the import of historical data has to keep.                         *)
(***************************************************************************)
StatusOf(p) == IF importers[p].run = 0 THEN "none" ELSE runs[importers[p].run].status

\* The rows of p's manifest are there.
Brought(p) ==
    /\ \A person \in Manifest(p).people : SameNumber(person) # {}
    /\ SavingsOf(p) \subseteq DOMAIN savings
    /\ DOMAIN Manifest(p).loans \subseteq DOMAIN loans

Complete(p) ==
    /\ Brought(p)
    /\ \A id \in DOMAIN Manifest(p).loans : loans[id].type = Manifest(p).loans[id]

\* A run that says succeeded has brought everything its manifest holds, with
\* the right type of every loan.
SucceededIsComplete ==
    \A p \in Importers : StatusOf(p) = "succeeded" => Complete(p)

\* Of the imports of one snapshot, retried, at the same time or with another
\* hash, one succeeds at most (seed_import.go:154-161, 191-194 and the keys
\* of the rows).
OneSuccess == \A r \in DOMAIN runs : Cardinality(Succeeded(runs[r].snapshot)) <= 1

\* Runs that have written rows.
Writers == Range(savings) \cup {loans[id].run : id \in DOMAIN loans}
             \cup {users[id] : id \in {u \in DOMAIN users : users[u] # Own}}

\* A run that was refused or was only a trial has left no row, and one that has
\* failed has left all of them or none.
RefusedLeavesNothing ==
    /\ \A r \in Writers : runs[r].status \in {"validating", "failed", "succeeded"}
    /\ \A p \in Importers : importers[p].run \in Writers => Brought(p)

\* The status of a run is true of the rows, wherever a process crashes and
\* whatever else runs or migrates meanwhile (seed_import.go:139-306).
RunsAreTrue == SucceededIsComplete /\ RefusedLeavesNothing
=============================================================================
