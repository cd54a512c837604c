---------------------------- MODULE StartupSafety ----------------------------
(***************************************************************************)
(* What a start may not do to the database that it finds, however many     *)
(* servers start together and wherever they crash.                         *)
(***************************************************************************)
EXTENDS Startup

Ran(version) == version \in schema \ {Versions[n] : n \in {k \in DOMAIN Versions :
                                                               Versions[k] <= origin.version}}

-----------------------------------------------------------------------------
RoleBefore(officer) ==
    IF origin.data.users[officer].role = "admin" THEN "manager" ELSE origin.data.users[officer].role

\* The user with whom the holder of an officer's desk logs in after 13.
DeskUser(officer, u) ==
    \E member \in Members :
        /\ data.appointments[member] = RoleBefore(officer)
        /\ CurrentUsersOf(data.users, member) = {u}
        /\ data.users[officer].member = member \/ data.users[officer].historical

\* The officers of an earlier release move together: until migration 13 has
\* ended none has an appointment and all are as they were, and once it has each
\* has one, of a member of their own, whose only user has the tasks that waited
\* for the officer, unless their requests are gone; also when servers start
\* together, with different mappings, or crash half way
\* (migrations.go, addMemberBackedOfficerAppointments).
OfficersMoveTogether ==
    origin.version < 13 =>
        IF 13 \notin schema
        THEN /\ data.appointments = origin.data.appointments
             /\ \A o \in Officers : ~data.users[o].historical
                                    /\ data.users[o].member = origin.data.users[o].member
        ELSE /\ \A o \in Officers : \E u \in DOMAIN data.users :
                    /\ DeskUser(o, u)
                    /\ \A n \in origin.data.notices : n.user = o =>
                           \/ [n EXCEPT !.user = u] \in data.notices
                           \/ data.requests[n.id].status = "removed"
             /\ Cardinality({m \in Members : data.appointments[m] # NoRole})
                  = Cardinality(Officers)

-----------------------------------------------------------------------------
PendingAt(requests, member) ==
    {n \in DOMAIN requests : requests[n].member = member /\ requests[n].status = "pending"}

\* Of the loan requests a member had waiting the oldest waits on, until 15
\* removes it, and then the member's user is told and no officer is asked to
\* decide it any more (migrations.go, versions 10 and 15).
OldestRequestWaits ==
    \A member \in Members :
        LET before == PendingAt(origin.data.requests, member) IN
        before # {} =>
            /\ Ran(10) =>
                 \A n \in before : (data.requests[n].status # "rejected") = (n = Min(before))
            /\ Ran(15) =>
                 /\ data.requests[Min(before)].status = "removed"
                 /\ \A u \in CurrentUsersOf(data.users, member) : RemovedNotice(u) \in data.notices
                 /\ ~\E n \in data.notices : n.about = "loan" /\ n.id \in before

\* No payment is lost or counted twice when a loan gets its schedule, a loan is
\* paid when nothing is left of it, one that was paid owes its interest, and
\* what was cancelled stays so (migrations.go, backfillLoanSchedules).
PaymentsSurvive ==
    Ran(9) => \A n \in DOMAIN data.loans :
        LET loan == data.loans[n]
            was  == origin.data.loans[n].status
        IN IF was = "cancelled"
           THEN loan.status = "cancelled" /\ loan.remaining = 0
           ELSE /\ PaidSum(loan.installments) = Repaid(loan)
                /\ Scheduled(loan.installments) = loan.obligation
                /\ loan.remaining = UnpaidSum(loan.installments)
                /\ (loan.status = "paid") = (loan.remaining = 0)
                /\ (loan.status = "adjustment_due") = (was = "paid" /\ loan.remaining > 0)

\* The officers who are asked to decide a pending loan request are those of its
\* stage, also after the order of the stages has changed (migrations.go,
\* changeLoanApprovalHierarchy).
TasksFollowStage ==
    Ran(27) => \A n \in Waiting(data) :
        {t.user : t \in TasksOn(data.notices, "loan", {n})} = DutyUsers(data, data.requests[n].stage)

\* A withdrawal that a migration approves is one that the three remaining
\* officers have approved, whose amount is still set aside and whose member has
\* not left; nobody is asked to decide it any more and each Bendahara is asked
\* to pay it, and the tasks of the others stay (withdrawal_approval_migration.go).
ApprovedWithdrawalsEarned ==
    \A n \in DOMAIN data.withdrawals :
        LET row   == data.withdrawals[n]
            asked == {t.user : t \in TasksOn(data.notices, "withdrawal", {n})}
            payers == {t.user : t \in TasksOn(data.notices, "payout", {n})}
        IN IF row.status = "approved" /\ origin.data.withdrawals[n].status # "approved"
           THEN /\ row.reserved /\ row.member \in ActiveMembers
                /\ \A stage \in {"manager", "ketua_i", "ketua_ii"} : row.history[stage] = "approved"
                /\ asked = {} /\ payers = DutyUsers(data, "bendahara")
           ELSE /\ Ran(12) /\ row.status = "pending" => row.reserved
                /\ asked = {t.user : t \in TasksOn(origin.data.notices, "withdrawal", {n})}
                /\ payers = {}

\* What people had before an upgrade they have after it: officers their desks and
\* tasks, members their oldest request, their payments and what was set aside for
\* them, wherever servers crash and how many start together (migrations.go:1932,
\* :1263, :1046, withdrawal_approval_migration.go).
UpgradesKeepRights ==
    /\ OfficersMoveTogether
    /\ OldestRequestWaits
    /\ PaymentsSurvive
    /\ TasksFollowStage
    /\ ApprovedWithdrawalsEarned

\* However many servers start at once, with whatever addresses, there is one
\* active super admin at most (auth.go, EnsureSuperAdminUser).
OneSuperAdmin == Cardinality(ActiveAdmins) <= 1
=============================================================================
