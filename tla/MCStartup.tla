----------------------------- MODULE MCStartup -----------------------------
(***************************************************************************)
(* Instances of StartupSafety: databases of earlier releases and the       *)
(* environments of a start.                                                *)
(***************************************************************************)
EXTENDS StartupSafety

Person(role, member) == [role |-> role, member |-> member, active |-> TRUE, historical |-> FALSE]
Request(m, status, stage, history) ==
    [member |-> m, status |-> status, stage |-> stage, history |-> history]
Withdrawal(m, status, stage, history, reserved) ==
    [member |-> m, status |-> status, stage |-> stage, history |-> history,
     reserved |-> reserved]
Loan(status, amount, duration, repayments) ==
    [status |-> status, amount |-> amount, duration |-> duration, start |-> Date(1, 25),
     repayments |-> repayments, obligation |-> 0, remaining |-> 0, installments |-> NoSchedule]

ApprovedBy(stages) == [s \in Stages |-> IF s \in stages THEN "approved" ELSE "none"]

Unmapped     == [o \in Officers |-> NoMember]
NoDesk       == [m \in Members |-> NoRole]
NoAdmins     == [e \in Emails |-> Missing]
AdminsOff    == [e \in Emails |-> IF e = "e1" THEN [state |-> "inactive", password |-> "own"]
                                   ELSE Missing]

\* Before 9: two admins, one of them without a member's user, duplicate
\* requests, and loans of each status.
Release8(requests) ==
    [version |-> 8, admins |-> NoAdmins,
     data |-> [users |-> [u \in {"o1", "o2", "u1"} |->
                             IF u = "u1" THEN Person("member", "m1") ELSE Person("admin", NoMember)],
               mappings |-> Unmapped, appointments |-> NoDesk, notices |-> {},
               requests |-> requests,
               withdrawals |-> <<Withdrawal("m1", "pending", NoStage, EmptyHistory, FALSE),
                                 Withdrawal("m2", "rejected", NoStage, EmptyHistory, FALSE)>>,
               loans |-> <<Loan("paid", 100, 2, <<50, 50>>), Loan("active", 100, 3, <<40>>),
                           Loan("cancelled", 100, 2, << >>), Loan("paid", 10, 1, <<10>>)>>]]

Fresh(m, status) == Request(m, status, NoStage, EmptyHistory)

MCReleases8 ==
    {Release8(<<Fresh("m1", "rejected"), Fresh("m1", "pending"), Fresh("m1", "pending")>>),
     Release8(<<Fresh("m1", "pending"), Fresh("m2", "pending"), Fresh("m1", "pending")>>),
     Release8(<<Fresh("m3", "pending")>>)}

\* Before 13: officers with tasks.
Release12 ==
    [version |-> 12, admins |-> NoAdmins,
     data |-> [users |-> [u \in {"o1", "o2", "u1"} |->
                             IF u = "u1" THEN Person("member", "m1")
                             ELSE Person(IF u = "o1" THEN "manager" ELSE "ketua_i", NoMember)],
               mappings |-> Unmapped, appointments |-> NoDesk,
               notices |-> {Notice("o1", "loan", 1), Notice("o2", "loan", 2)},
               requests |-> <<Request("m1", "pending", "manager", EmptyHistory),
                              Request("m2", "pending", "ketua_i", ApprovedBy({"manager"}))>>,
               withdrawals |-> << >>, loans |-> << >>]]

\* Before 27: requests half way along the old order of the stages.
Release26(requests, tasks) ==
    [version |-> 26, admins |-> NoAdmins,
     data |-> [users |-> [u \in {"u1", "u2", "u3"} |->
                             Person("member", CASE u = "u1" -> "m1" [] u = "u2" -> "m2"
                                                [] OTHER -> "m3")],
               mappings |-> Unmapped,
               appointments |-> [m \in Members |-> CASE m = "m1" -> "ketua_i" [] m = "m2" -> "ketua_ii"
                                                     [] OTHER -> "manager"],
               notices |-> tasks, requests |-> requests,
               withdrawals |-> << >>, loans |-> << >>]]

MCReleases26 ==
    {Release26(<<Request("m1", "pending", "ketua_i", ApprovedBy({"manager"})),
                 Request("m2", "pending", "manager", EmptyHistory)>>,
               {Notice("u1", "loan", 1), Notice("u3", "loan", 2)}),
     Release26(<<Request("m1", "pending", "ketua_ii", ApprovedBy({"manager", "ketua_i"}))>>,
               {Notice("u2", "loan", 1)})}

\* Before 46: withdrawals that wait for Ketua Utama, and others.
Three == {"manager", "ketua_i", "ketua_ii"}
Release45(withdrawals) ==
    [Release26(<< >>, {Notice("u3", "withdrawal", n) : n \in 1 .. 3}
                      \cup {Notice("u1", "withdrawal", 4)}) EXCEPT
        !.version = 45, !.data.withdrawals = withdrawals, !.admins = AdminsOff,
        !.data.appointments = [m \in Members |-> CASE m = "m1" -> "manager" [] m = "m2" -> "bendahara"
                                                   [] m = "m3" -> "ketua_utama" [] OTHER -> NoRole]]

MCReleases45 ==
    {Release45(<<Withdrawal("m1", "pending", "ketua_utama", ApprovedBy(Three), TRUE),
                 Withdrawal("m4", "pending", "ketua_utama", ApprovedBy(Three), TRUE),
                 Withdrawal("m2", "pending", "ketua_utama", ApprovedBy(Three \ {"ketua_i"}), TRUE),
                 Withdrawal("m2", "pending", "manager", EmptyHistory, TRUE)>>)}

-----------------------------------------------------------------------------
Env(mapping, byEmail, email) == [mapping |-> mapping, byEmail |-> byEmail, email |-> email]

To2(first, second) == [o \in Officers |-> IF o = "o1" THEN first ELSE second]

Sound   == To2("m1", "m2")
\* Sound, incomplete, to a member who has left, and none.
MCMappings ==
    {Env(Sound, {}, "e1"), Env([o \in {"o1"} |-> "m1"], {}, "e1"),
     Env(To2("m4", "m2"), {}, "e1"), Env(<< >>, {}, "e1")}
MCTwoSound == {Env(Sound, {}, "e1"), Env(To2("m3", "m2"), {"o1"}, "e2")}
MCEmails == {Env(<< >>, {}, e) : e \in {"e1", "e2", "taken", NoEmail}}
MCEnvironments == MCMappings \cup MCTwoSound \cup MCEmails

MCReleases12 == {Release12}
MCBoth ==
    {Release8(<<Fresh("m1", "pending"), Fresh("m2", "pending"), Fresh("m1", "pending")>>), Release12}
MCAll == MCReleases8 \cup MCReleases12 \cup MCReleases26 \cup MCReleases45

(***************************************************************************)
(* The first state chooses what is started:                                *)
(*   officers  two servers on a database with officers of the old kind     *)
(*   releases  one server after the other on every earlier release, and an *)
(*             officer gets another address in between                     *)
(*   admins    two servers without an active super admin                   *)
(*   sound     two servers, each with a mapping that can be used           *)
(***************************************************************************)
VARIABLE scenario

Scenarios == [
    officers |-> [databases |-> MCBoth, environments |-> MCMappings, servers |-> Servers],
    releases |-> [databases |-> MCAll, environments |-> MCMappings,
                  servers |-> {CHOOSE p \in Servers : TRUE}],
    admins   |-> [databases |-> MCReleases45, environments |-> MCEmails, servers |-> Servers],
    sound    |-> [databases |-> MCReleases12, environments |-> MCTwoSound, servers |-> Servers]]
Here == Scenarios[scenario]

StepHere(p) ==
    /\ p \in Here.servers
    /\ Step(p)
    /\ servers[p].at \in {"off", "failed"} => servers'[p].env \in Here.environments

StartupInstanceInit ==
    /\ scenario \in DOMAIN Scenarios
    /\ StartupInit /\ origin \in Here.databases

StartupInstanceNext ==
    /\ \/ \E p \in Servers : StepHere(p) \/ crash(p)
       \/ \E email \in Emails : changeOwnPassword(email)
       \/ scenario = "releases" /\ \E officer \in Officers : renameLogin(officer)
    /\ UNCHANGED scenario

\* A container is restarted (restart: unless-stopped) and its process runs on.
\* What follows of it is asked of the servers that can be used.
StartupInstance ==
    /\ StartupInstanceInit /\ [][StartupInstanceNext]_<<vars, scenario>>
    /\ \A p \in Servers : WF_vars(scenario = "sound" /\ StepHere(p))

\* Servers that are given a sound environment all come to serve, whatever starts
\* and crashes before: what a start has done it finds done the next time
\* (cmd/api/main.go:41-48).
AllComeToServe ==
    \A p \in Servers : scenario = "sound" ~> [](servers[p].at = "serving")
=============================================================================
