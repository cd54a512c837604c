---------------------------- MODULE MCSeedImport ----------------------------
(***************************************************************************)
(* Instances of SeedImport: a database before its first use and one in     *)
(* production, and manifests that share rows.                              *)
(***************************************************************************)
EXTENDS SeedImport

Symmetry == Permutations(Importers)

Person(id, no, name, status, type) ==
    [id |-> id, no |-> no, name |-> name, status |-> status, type |-> type]

None == << >>

Manifest1(snapshot, hash, people, savingRows, loanRows) ==
    [snapshot |-> snapshot, hash |-> hash, blocked |-> FALSE, extended |-> FALSE,
     people |-> people, savings |-> savingRows, loans |-> loanRows,
     events |-> [e \in {"e" \o id : id \in DOMAIN loanRows} |-> "late"]]

Goods(id) == [x \in {id} |-> "secondary_goods"]

Ani  == Person("row1", "n1", "ani", "active", "employee")
Budi == Person("row2", "n2", "budi", "active", "daily_worker")

First    == Manifest1("s1", "h1", {Ani, Person("row2", "n2", "budi", "inactive", "daily_worker")},
                      {"v1"}, Goods("l1"))
Again    == Manifest1("s1", "h2", {Ani}, {"v1"}, Goods("l1"))
Extended == [Manifest1("s2", "h3", {Ani, Budi}, {"v1", "v2"}, None) EXCEPT !.extended = TRUE]
Bad      == [First EXCEPT !.snapshot = "s3", !.blocked = TRUE]
Later    == Manifest1("s4", "h4", {Person("row3", "n1", "ani", "active", "contract_worker"), Budi},
                      {"v3"}, None)
Loans4   == [Later EXCEPT !.snapshot = "s5", !.hash = "h5", !.loans = Goods("l2")]
Renamed  == [Later EXCEPT !.snapshot = "s6", !.people = {[Ani EXCEPT !.name = "eni"]}]

Initial(manifest, dry, path) ==
    [manifest |-> manifest, append |-> FALSE, historical |-> FALSE, dry |-> dry, path |-> path]
Appending(manifest, historical, path) ==
    [manifest |-> manifest, append |-> TRUE, historical |-> historical, dry |-> FALSE,
     path |-> path]

InitialCalls ==
    {Initial(First, FALSE, "a"), Initial(First, TRUE, "a"), Initial(Again, FALSE, "b"),
     Initial(Extended, FALSE, "a"), Initial(Bad, FALSE, "a"), Appending(Later, FALSE, "a")}
AppendingCalls ==
    {Appending(Later, FALSE, "a"), Appending(Loans4, TRUE, "a"), Appending(Loans4, FALSE, "a"),
     Appending(Renamed, FALSE, "b"), Initial(First, FALSE, "a")}
MCCalls == InitialCalls \cup AppendingCalls

Stored(no, name, status) == [no |-> no, name |-> name, status |-> status, type |-> "employee"]

Unused     == [schema |-> 14, members |-> None, users |-> None]
Production ==
    [schema |-> 22,
     members |-> [id \in {"m1", "m2"} |->
                     IF id = "m1" THEN Stored("n1", "ani", "active")
                     ELSE Stored("n2", "budi", "inactive")],
     users |-> [id \in {"m1"} |-> Own]]
MCDatabases == {Unused, Production}

(***************************************************************************)
(* The first state chooses the database, and with it the calls: those that *)
(* fill an unused one, or those that append to one in production.          *)
(***************************************************************************)
VARIABLE scenario

SeedInstanceInit ==
    SeedInit /\ scenario = IF members = None THEN "unused" ELSE "production"

SeedInstance ==
    /\ SeedInstanceInit
    /\ [][/\ SeedNext
          /\ \A p \in Importers : importers'[p].call \in
                {Idle.call} \cup (IF scenario = "unused" THEN InitialCalls ELSE AppendingCalls)
          /\ UNCHANGED scenario]_<<vars, scenario>>
=============================================================================
