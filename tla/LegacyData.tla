----------------------------- MODULE LegacyData -----------------------------
(***************************************************************************)
(* What the migrations of internal/app/migrations.go that convert rows do  *)
(* to the rows an earlier release has left, where rows of several tables   *)
(* or of several people have to agree.  A module without state.  Left out  *)
(* are the migrations that create tables, columns, triggers and indexes,   *)
(* and those that fill a column from other columns of the same row (loan   *)
(* types, cash categories and directions, disbursement dates, member types,*)
(* the fee policy) or insert the default accounts.                         *)
(*                                                                         *)
(* data is a record of the tables concerned:                               *)
(*   users        id -> [role, member, active, historical]                 *)
(*   mappings     legacy officer -> member (legacy_officer_member_mappings) *)
(*   appointments member -> role of its active officer_appointment          *)
(*   notices      unresolved notifications [user, about, id]                *)
(*   requests     loan requests [member, status, stage, history], by age    *)
(*   withdrawals  withdrawal requests [member, status, stage, history,      *)
(*                reserved]                                                 *)
(*   loans        loans [status, amount, duration, start, repayments,       *)
(*                obligation, remaining, installments]                      *)
(***************************************************************************)
EXTENDS Approvals, LoanSchedule

CONSTANTS
    Members, NoMember,
    ActiveMembers,       \* members with status 'active'
    LegacyRate           \* defaultLoanInterestRateBPS

ASSUME LegacyDataAssumption == ActiveMembers \subseteq Members /\ NoMember \notin Members

NoRole == ""

Current(users, u) == u \in DOMAIN users /\ ~users[u].historical

CurrentUsersOf(users, member) ==
    {u \in DOMAIN users : users[u].member = member /\ ~users[u].historical}

-----------------------------------------------------------------------------
(***************************************************************************)
(* 9: loans get interest and a schedule, and their repayments are          *)
(* allocated to it oldest first.  A loan that cannot be given one stops    *)
(* the migration.                                                          *)
(***************************************************************************)
LegacyTerms(loan) ==
    calculateLoanScheduleWithMaxDuration(loan.amount, loan.duration, LegacyRate,
                                         loan.start, MaxInt64)

Cancelled(loan) ==
    [loan EXCEPT !.obligation = 0, !.remaining = 0, !.installments = NoSchedule]

StatusAfter(status, remaining) ==
    IF remaining = 0 THEN "paid" ELSE IF status = "paid" THEN "adjustment_due" ELSE status

Rescheduled(loan) ==
    LET items     == allocateRepaymentsOldestFirst(LegacyTerms(loan).installments, loan.repayments)
        remaining == LegacyTerms(loan).obligation - PaidSum(items)
    IN [loan EXCEPT !.obligation = LegacyTerms(loan).obligation, !.remaining = remaining,
                    !.installments = items, !.status = StatusAfter(loan.status, remaining)]

Repaid(loan) == FoldLeft(LAMBDA sum, amount : sum + amount, 0, loan.repayments)

MayBackfill(data) ==
    \A loan \in Range(data.loans) : loan.status # "cancelled" =>
        ~Refused(LegacyTerms(loan)) /\ Repaid(loan) <= LegacyTerms(loan).obligation

backfillLoanSchedules(data) ==
    [data EXCEPT !.loans = [n \in DOMAIN @ |->
        IF @[n].status = "cancelled" THEN Cancelled(@[n]) ELSE Rescheduled(@[n])]]

-----------------------------------------------------------------------------
Superseded(requests, n) ==
    \E k \in 1 .. n - 1 :
        requests[k].member = requests[n].member /\ requests[k].status = "pending"

keepOldestPending(data) ==
    [data EXCEPT !.requests = [n \in DOMAIN @ |->
        IF @[n].status = "pending" /\ Superseded(@, n)
        THEN [@[n] EXCEPT !.status = "rejected"] ELSE @[n]]]

AtManager(row) == [row EXCEPT !.stage = IF row.status = "pending" THEN "manager" ELSE NoStage]

addOfficerHierarchyAndApprovals(data) ==
    [data EXCEPT
        !.users = [u \in DOMAIN @ |->
            IF @[u].role = "admin" THEN [@[u] EXCEPT !.role = "manager"] ELSE @[u]],
        !.requests = [n \in DOMAIN @ |-> AtManager(@[n])],
        !.withdrawals = [n \in DOMAIN @ |->
            [AtManager(@[n]) EXCEPT !.reserved = (data.withdrawals[n].status = "pending")]]]

-----------------------------------------------------------------------------
(***************************************************************************)
(* 13: each user with an officer role becomes an appointment of the member *)
(* it is mapped to.  A member's own user is kept and receives the tasks of *)
(* the officer's user, which becomes historical; without one the officer's *)
(* user becomes the member's.                                              *)
(***************************************************************************)
LegacyOfficers(users) == {u \in DOMAIN users : users[u].role # "member" /\ Current(users, u)}

MayConvert(data, mappings, officer) ==
    /\ mappings[officer] # NoMember
    /\ mappings[officer] \in ActiveMembers
    /\ data.appointments[mappings[officer]] = NoRole

Redirected(notices, from, to) ==
    {IF n.user = from THEN [n EXCEPT !.user = to] ELSE n : n \in notices}

Appointed(data, member, officer) ==
    [data EXCEPT !.appointments[member] = data.users[officer].role]

convertOfficer(data, mappings, officer) ==
    LET member == mappings[officer]
        own    == CurrentUsersOf(data.users, member) \ {officer}
        before == Appointed(data, member, officer)
    IN  IF own = {}
        THEN [before EXCEPT !.users[officer].role = "member", !.users[officer].member = member]
        ELSE [before EXCEPT
                 !.users[officer] = [role |-> "member", member |-> NoMember,
                                     active |-> FALSE, historical |-> TRUE],
                 !.notices = Redirected(@, officer, CHOOSE u \in own : TRUE)]

\* idx_users_one_current_per_member can be created.
OneCurrentUserEach(users) ==
    \A member \in Members : \A u, v \in CurrentUsersOf(users, member) : u = v

-----------------------------------------------------------------------------
(***************************************************************************)
(* 15: loan requests that wait have no type; they are removed, and their   *)
(* members are told, which needs a user for each.                          *)
(***************************************************************************)
Waiting(data) == {n \in DOMAIN data.requests : data.requests[n].status = "pending"}
WaitingMembers(data) == {data.requests[n].member : n \in Waiting(data)}

MayRemovePending(data) ==
    \A member \in WaitingMembers(data) :
        \E u \in CurrentUsersOf(data.users, member) : CurrentUsersOf(data.users, member) = {u}

Notice(user, about, id) == [user |-> user, about |-> about, id |-> id]
RemovedNotice(user)     == Notice(user, "removed", 0)

TasksOn(notices, about, ids) == {n \in notices : n.about = about /\ n.id \in ids}

removePendingRequests(data) ==
    [data EXCEPT
        !.notices = (@ \ TasksOn(@, "loan", Waiting(data)))
            \cup {RemovedNotice(u) : u \in UNION {CurrentUsersOf(data.users, member) :
                                                    member \in WaitingMembers(data)}},
        !.requests = [n \in DOMAIN @ |->
            IF n \in Waiting(data) THEN [@[n] EXCEPT !.status = "removed", !.stage = NoStage]
            ELSE @[n]]]

Remapped(data) ==
    {n \in Waiting(data) : data.requests[n].stage = "ketua_i"
                           /\ data.requests[n].history["ketua_ii"] # "approved"}

ActiveUsersOf(data, member) == {u \in CurrentUsersOf(data.users, member) : data.users[u].active}

DutyUsers(data, role) ==
    UNION {ActiveUsersOf(data, member) :
             member \in {m \in ActiveMembers : data.appointments[m] = role}}

changeLoanApprovalHierarchy(data) ==
    [data EXCEPT
        !.requests = [n \in DOMAIN @ |->
            IF n \in Waiting(data) /\ @[n].stage = "ketua_i" /\ @[n].history["ketua_ii"] # "approved"
            THEN [@[n] EXCEPT !.stage = "ketua_ii"] ELSE @[n]],
        !.notices = (@ \ TasksOn(@, "loan", Remapped(data)))
            \cup {Notice(u, "loan", n) : u \in DutyUsers(data, "ketua_ii"), n \in Remapped(data)}]

Approvable(row) ==
    /\ row.status = "pending" /\ row.stage = "ketua_utama"
    /\ row.member \in ActiveMembers
    /\ row.reserved
    /\ \A stage \in {"manager", "ketua_i", "ketua_ii"} : row.history[stage] = "approved"
    /\ row.history["ketua_utama"] = "none"

Finalized(data) == {n \in DOMAIN data.withdrawals : Approvable(data.withdrawals[n])}

finalizeLegacyWithdrawalsAwaitingKetuaUtama(data) ==
    [data EXCEPT
        !.withdrawals = [n \in DOMAIN @ |->
            IF n \in Finalized(data) THEN [@[n] EXCEPT !.status = "approved", !.stage = NoStage]
            ELSE @[n]],
        !.notices = (@ \ TasksOn(@, "withdrawal", Finalized(data)))
            \cup UNION {{Notice(u, "approved", n) : u \in ActiveUsersOf(data, data.withdrawals[n].member)} :
                         n \in Finalized(data)}
            \cup {Notice(u, "payout", n) : u \in DutyUsers(data, "bendahara"), n \in Finalized(data)}]
=============================================================================
