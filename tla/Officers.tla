------------------------------ MODULE Officers ------------------------------
(***************************************************************************)
(* Officer appointments, the users behind them, and the notices officers   *)
(* get: internal/app/officers.go, the accounts of internal/app/members.go, *)
(* the notifications of internal/app/approvals.go and the triggers of      *)
(* addMemberBackedOfficerAppointments in internal/app/migrations.go.       *)
(*                                                                         *)
(* None of these handlers takes Server.financialMu, so they interleave     *)
(* statement by statement under READ COMMITTED: a call locks rows          *)
(* (rowLockClause), reads what others have committed, and publishes its    *)
(* own writes when it commits.  A call that meets a locked row waits.  Two *)
(* that wait for each other are broken up by the database.                 *)
(*                                                                         *)
(* The requests that officers decide are reduced to the stage they wait    *)
(* at; deciding one is a single step, because it runs under financialMu.   *)
(***************************************************************************)
EXTENDS Approvals, Integers, Sequences, FiniteSets

CONSTANTS
    Members,
    Roles,              \* the officer roles in use
    Requests,           \* requests that climb the chain of nextApprovalStage
    Calls,              \* HTTP requests being served
    Operations,         \* which of the handlers are called
    DecidedMeanwhile,   \* requests move while an officer is being changed
    MaxEvents           \* bound on the audit events of one officer

ASSUME OfficersAssumption ==
    /\ Roles \subseteq DecidingRoles \cup {"bendahara"}
    /\ "ketua_utama" \in Roles       \* that of the first officers
    /\ Operations \subseteq {"officer", "user", "reset", "membership"}
    /\ DecidedMeanwhile \in BOOLEAN

VARIABLES
    memberStatus,   \* members.status
    users,          \* the member's user that is not a historical identity
    appointments,   \* officer_appointments by member_id, which is unique
    stages,         \* current_approval_stage of each request
    notices,        \* unresolved notifications of the audience 'officer'
    audits,         \* officer_audit_events by target
    calls           \* the transaction of each call

officersVars == <<memberStatus, users, appointments, stages, notices, audits, calls>>

NoUser == [active |-> FALSE, mustChange |-> FALSE, exists |-> FALSE]
NewUser == [active |-> TRUE, mustChange |-> TRUE, exists |-> TRUE]
NoAppointment == [role |-> "none", active |-> FALSE]

Appointments == [role : Roles, active : BOOLEAN] \cup {NoAppointment}
Notices == [to : Members, request : Requests, stage : Stages]
Events == [action : {"created", "role_changed", "activated", "deactivated", "password_reset"},
           role : Roles]

\* A call: its handler, where it stands, the rows it has locked, the
\* appointment it found and the one it wants, and the notices it will write.
IdleCall == [op |-> "none", at |-> "idle", member |-> "none", locks |-> {},
             found |-> NoAppointment, wanted |-> NoAppointment,
             resolved |-> {}, added |-> {}]

CallRows ==
    [op : {"none", "update", "insert", "switch", "account", "membership"},
     at : {"idle", "locking", "counting", "checking", "writing", "committing", "updating",
           "inserting"},
     member : Members \cup {"none"},
     locks : SUBSET ({"member", "user", "appointment"} \X Members),
     found : Appointments, wanted : Appointments,
     resolved : SUBSET Notices, added : SUBSET Notices]

OfficersTypeOK ==
    /\ memberStatus \in [Members -> {"active", "inactive"}]
    /\ users \in [Members -> [active : BOOLEAN, mustChange : BOOLEAN, exists : BOOLEAN]]
    /\ appointments \in [Members -> Appointments]
    /\ stages \in [Requests -> Stages \cup {"none", "closed"}]
    /\ notices \subseteq Notices
    /\ audits \in [Members -> Seq(Events)]
    /\ calls \in [Calls -> CallRows]

-----------------------------------------------------------------------------
(***************************************************************************)
(* Rows, locks and what a statement sees.                                  *)
(***************************************************************************)
LockedByOthers(c) == UNION {calls[d].locks : d \in Calls \ {c}}

Free(c, rows) == rows \cap LockedByOthers(c) = {}

RowsOf(m) == {<<"appointment", m>>, <<"member", m>>, <<"user", m>>}

IsKetuaUtama(m) == appointments[m] = [role |-> "ketua_utama", active |-> TRUE]

ActiveKetuaUtamas == {m \in Members : IsKetuaUtama(m) /\ memberStatus[m] = "active"}

\* An officer who can be notified and can sign in.
Reachable(m) == appointments[m].active /\ memberStatus[m] = "active" /\ users[m].active

\* errLastActiveKetuaUtama, and the trigger protect_last_ketua_utama_appointment.
LeavesNone(found, wanted) ==
    /\ found = [role |-> "ketua_utama", active |-> TRUE]
    /\ wanted # found
    /\ Cardinality(ActiveKetuaUtamas) <= 1

(***************************************************************************)
(* Notifications.                                                          *)
(***************************************************************************)
\* Mutant: the requests that already wait are forgotten.
PendingNotices_None(m, appointment) == {}

\* What syncOfficerNotifications writes for an officer: a notice of every
\* request that waits at the officer's stage, and nothing for an admin.
PendingNotices(m, appointment) ==
    IF ~appointment.active \/ appointment.role = "admin" THEN {}
    ELSE LET stage == approvalStageForOfficer(appointment.role) IN
         {[to |-> m, request |-> r, stage |-> stage] :
              r \in {q \in Requests : stages[q] = stage}}

OpenNotices(m) == {n \in notices : n.to = m}

syncOfficerNotifications(call, m, appointment) ==
    [call EXCEPT !.resolved = OpenNotices(m), !.added = PendingNotices(m, appointment)]

\* createStageNotification: everybody in the role who can be reached.
StageNotices(r, stage) ==
    {[to |-> m, request |-> r, stage |-> stage] :
         m \in {k \in Members : Reachable(k) /\ appointments[k].role = stage}}

\* A decision has to resolve notices a call has resolved and not yet committed.
NoticesFree(r) ==
    \A c \in Calls : \A n \in calls[c].resolved : n.request # r

-----------------------------------------------------------------------------
OfficersInit ==
    /\ memberStatus = [m \in Members |-> "active"]
    /\ \E founders \in (SUBSET Members) \ {{}} :
        /\ appointments = [m \in Members |->
               IF m \in founders THEN [role |-> "ketua_utama", active |-> TRUE]
                                 ELSE NoAppointment]
        /\ users = [m \in Members |-> IF m \in founders THEN NewUser ELSE NoUser]
        /\ audits = [m \in Members |->
               IF m \in founders THEN <<[action |-> "created", role |-> "ketua_utama"]>>
                                 ELSE << >>]
    /\ stages = [r \in Requests |-> "none"]
    /\ notices = {}
    /\ calls = [c \in Calls |-> IdleCall]

tables == <<memberStatus, users, appointments, stages, notices, audits>>

Serve(c, call) == calls' = [calls EXCEPT ![c] = call]

\* Mutant: an error returns without the deferred rollback.
Rollback_Forgotten(c) == Serve(c, [calls[c] EXCEPT !.at = "refused"]) /\ UNCHANGED tables

Rollback(c) == Serve(c, IdleCall) /\ UNCHANGED tables

At(c, op, at) == calls[c].op = op /\ calls[c].at = at

Recorded(m, actions, role) ==
    audits' = [audits EXCEPT ![m] =
        @ \o [n \in DOMAIN actions |-> [action |-> actions[n], role |-> role]]]

CanRecord(m) == Len(audits[m]) + 2 <= MaxEvents

-----------------------------------------------------------------------------
(***************************************************************************)
(* updateOfficerByID: lock, count, write, commit.                          *)
(***************************************************************************)
\* The join is locked table by table, the appointment first.
lockAppointment(c, m, wanted) ==
    /\ calls[c] = IdleCall
    /\ appointments[m] # NoAppointment /\ users[m].exists /\ CanRecord(m)
    /\ Free(c, {<<"appointment", m>>})
    /\ Serve(c, [IdleCall EXCEPT !.op = "update", !.at = "locking", !.member = m,
                                 !.locks = {<<"appointment", m>>}, !.wanted = wanted])
    /\ UNCHANGED tables

\* Mutant: the lock covers the appointment alone.
RowsToLock_Appointment(m) == {<<"appointment", m>>}

RowsToLock(m) == RowsOf(m)

scanOfficer(c) ==
    LET m == calls[c].member IN
    /\ At(c, "update", "locking")
    /\ Free(c, RowsToLock(m))
    /\ \/ /\ calls[c].wanted.active /\ memberStatus[m] # "active"
          /\ Rollback(c)
       \/ /\ ~calls[c].wanted.active \/ memberStatus[m] = "active"
          /\ Serve(c, [calls[c] EXCEPT !.at = "counting", !.locks = RowsToLock(m),
                                       !.found = appointments[m]])
          /\ UNCHANGED tables

countKetuaUtama(c) ==
    /\ At(c, "update", "counting")
    /\ IF LeavesNone(calls[c].found, calls[c].wanted)
       THEN Rollback(c)
       ELSE Serve(c, [calls[c] EXCEPT !.at = "writing"]) /\ UNCHANGED tables

\* The UPDATE, whose trigger counts again, and the notices of the change.
writeOfficer(c) ==
    LET m == calls[c].member
        wanted == calls[c].wanted
        call == [calls[c] EXCEPT !.at = "committing"]
    IN
    /\ At(c, "update", "writing")
    /\ \/ /\ memberStatus[m] = "active" /\ LeavesNone(appointments[m], wanted)
          /\ Rollback(c)
       \/ /\ ~(memberStatus[m] = "active" /\ LeavesNone(appointments[m], wanted))
          /\ Serve(c, IF wanted = calls[c].found THEN call
                      ELSE syncOfficerNotifications(call, m, wanted))
          /\ UNCHANGED tables

Changes(found, wanted) ==
    (IF found.role # wanted.role THEN <<"role_changed">> ELSE << >>)
    \o (IF found.active = wanted.active THEN << >>
        ELSE IF wanted.active THEN <<"activated">> ELSE <<"deactivated">>)

updateOfficerByID(c) ==
    LET m == calls[c].member IN
    /\ At(c, "update", "committing")
    /\ appointments' = [appointments EXCEPT ![m] = calls[c].wanted]
    /\ notices' = (notices \ calls[c].resolved) \cup calls[c].added
    /\ Recorded(m, Changes(calls[c].found, calls[c].wanted), calls[c].wanted.role)
    /\ Serve(c, IdleCall)
    /\ UNCHANGED <<memberStatus, users, stages>>

(***************************************************************************)
(* insertOfficer: the member's row is locked, the first appointment and,   *)
(* if there is none, the user are written, and the waiting requests read.  *)
(***************************************************************************)
lockMember(c, m, role) ==
    /\ calls[c] = IdleCall /\ CanRecord(m)
    /\ Free(c, {<<"member", m>>})
    /\ memberStatus[m] = "active" /\ appointments[m] = NoAppointment
    /\ LET wanted == [role |-> role, active |-> TRUE] IN
       Serve(c, syncOfficerNotifications(
           [IdleCall EXCEPT !.op = "insert", !.at = "committing", !.member = m,
                            !.locks = {<<"member", m>>}, !.wanted = wanted], m, wanted))
    /\ UNCHANGED tables

insertOfficer(c) ==
    LET m == calls[c].member IN
    /\ At(c, "insert", "committing")
    /\ appointments' = [appointments EXCEPT ![m] = calls[c].wanted]
    /\ users' = [users EXCEPT ![m] = IF @.exists THEN @ ELSE NewUser]
    /\ notices' = (notices \ calls[c].resolved) \cup calls[c].added
    /\ Recorded(m, <<"created">>, calls[c].wanted.role)
    /\ Serve(c, IdleCall)
    /\ UNCHANGED <<memberStatus, stages>>

-----------------------------------------------------------------------------
(***************************************************************************)
(* updateMemberUser and createMemberUser.                                  *)
(***************************************************************************)
\* Mutant: the appointments of the other Ketua Utama are only read.
KetuaUtamaRows_Unlocked == {}

KetuaUtamaRows == {<<"appointment", m>> : m \in {k \in Members : IsKetuaUtama(k)}}

\* Before a user is switched off, every active Ketua Utama is locked.
lockKetuaUtamas(c, m) ==
    /\ calls[c] = IdleCall
    /\ Free(c, KetuaUtamaRows)
    /\ Serve(c, [IdleCall EXCEPT !.op = "switch", !.at = "checking", !.member = m,
                                 !.locks = KetuaUtamaRows])
    /\ UNCHANGED tables

checkLastKetuaUtama(c) ==
    LET m == calls[c].member
        signIn == {k \in ActiveKetuaUtamas : users[k].active}
    IN
    /\ At(c, "switch", "checking")
    /\ IF (m \in signIn /\ signIn = {m}) \/ ~users[m].exists
       THEN Rollback(c)
       ELSE Serve(c, [calls[c] EXCEPT !.at = "writing"]) /\ UNCHANGED tables

updateMemberUser(c) ==
    LET m == calls[c].member IN
    /\ At(c, "switch", "writing")
    /\ Free(c, {<<"user", m>>})
    /\ users' = [users EXCEPT ![m].active = FALSE]
    /\ Serve(c, IdleCall)
    /\ UNCHANGED <<memberStatus, appointments, stages, notices, audits>>

\* Switching a user on needs no check.
enableMemberUser(m) ==
    /\ users[m].exists /\ ~users[m].active
    /\ \A c \in Calls : <<"user", m>> \notin calls[c].locks
    /\ users' = [users EXCEPT ![m].active = TRUE]
    /\ UNCHANGED <<memberStatus, appointments, stages, notices, audits, calls>>

\* createMemberUser looks for a user first, outside any transaction.
lookUpMemberUser(c, m) ==
    /\ calls[c] = IdleCall
    /\ Serve(c, [IdleCall EXCEPT !.op = "account", !.member = m,
                                 !.at = IF users[m].exists THEN "updating" ELSE "inserting"])
    /\ UNCHANGED tables

\* The new row waits for the member's row (a foreign key), and the unique
\* index idx_users_one_current_per_member refuses a second one.
createMemberUser(c) ==
    LET m == calls[c].member IN
    \/ /\ At(c, "account", "updating")
       /\ Free(c, {<<"user", m>>})
       /\ users' = [users EXCEPT ![m] = NewUser]
       /\ Serve(c, IdleCall)
       /\ UNCHANGED <<memberStatus, appointments, stages, notices, audits>>
    \/ /\ At(c, "account", "inserting")
       /\ Free(c, {<<"member", m>>})
       /\ \/ users[m].exists /\ Rollback(c)
          \/ /\ ~users[m].exists
             /\ users' = [users EXCEPT ![m] = NewUser]
             /\ Serve(c, IdleCall)
             /\ UNCHANGED <<memberStatus, appointments, stages, notices, audits>>

\* resetOfficerPasswordByID is audited; the member area's reset is not.
resetOfficerPasswordByID(m) ==
    /\ appointments[m] # NoAppointment /\ users[m].exists /\ CanRecord(m)
    /\ \A c \in Calls : RowsOf(m) \cap calls[c].locks = {}
    /\ users' = [users EXCEPT ![m].mustChange = TRUE]
    /\ Recorded(m, <<"password_reset">>, appointments[m].role)
    /\ UNCHANGED <<memberStatus, appointments, stages, notices, calls>>

resetMemberPassword(m) ==
    /\ users[m].exists
    /\ \A c \in Calls : <<"user", m>> \notin calls[c].locks
    /\ users' = [users EXCEPT ![m].mustChange = TRUE]
    /\ UNCHANGED <<memberStatus, appointments, stages, notices, audits, calls>>

changePassword(m) ==
    /\ users[m].exists /\ users[m].active
    /\ \A c \in Calls : <<"user", m>> \notin calls[c].locks
    /\ users' = [users EXCEPT ![m].mustChange = FALSE]
    /\ UNCHANGED <<memberStatus, appointments, stages, notices, audits, calls>>

-----------------------------------------------------------------------------
(***************************************************************************)
(* The last approval of a member deactivation: the member's row is locked  *)
(* and the Ketua Utama counted, then the status is written and the trigger *)
(* suspend_officer_on_member_deactivation updates the appointment.         *)
(***************************************************************************)
lockMembership(c, m) ==
    /\ calls[c] = IdleCall
    /\ \A d \in Calls : calls[d].op # "membership"      \* financialMu
    /\ memberStatus[m] = "active"
    /\ Free(c, {<<"member", m>>})
    /\ Serve(c, [IdleCall EXCEPT !.op = "membership", !.at = "counting", !.member = m,
                                 !.locks = {<<"member", m>>}])
    /\ UNCHANGED tables

countBeforeEnding(c) ==
    LET m == calls[c].member IN
    /\ At(c, "membership", "counting")
    /\ IF LeavesNone(appointments[m], NoAppointment)
       THEN Rollback(c)
       ELSE Serve(c, [calls[c] EXCEPT !.at = "writing"]) /\ UNCHANGED tables

suspendOfficer(c) ==
    LET m == calls[c].member IN
    /\ At(c, "membership", "writing")
    /\ \/ LeavesNone(appointments[m], NoAppointment) /\ Rollback(c)
       \/ /\ ~LeavesNone(appointments[m], NoAppointment)
          /\ appointments[m].active => Free(c, {<<"appointment", m>>})
          /\ Serve(c, [calls[c] EXCEPT !.at = "committing",
                           !.locks = @ \cup {<<"appointment", m>>}])
          /\ UNCHANGED tables

endMembership(c) ==
    LET m == calls[c].member IN
    /\ At(c, "membership", "committing")
    /\ memberStatus' = [memberStatus EXCEPT ![m] = "inactive"]
    /\ appointments' = [appointments EXCEPT ![m].active = FALSE]
    /\ Serve(c, IdleCall)
    /\ UNCHANGED <<users, stages, notices, audits>>

\* The rows a call asks for next.
Wants(c) ==
    LET m == calls[c].member IN
    IF At(c, "update", "locking") THEN RowsToLock(m)
    ELSE IF At(c, "membership", "writing") THEN {<<"appointment", m>>}
    ELSE IF At(c, "switch", "writing") THEN {<<"user", m>>}
    ELSE {}

\* The database ends one of two transactions that wait for each other.
breakDeadlock(c) ==
    /\ \E d \in Calls \ {c} :
        /\ Wants(c) \cap calls[d].locks # {}
        /\ Wants(d) \cap calls[c].locks # {}
    /\ Rollback(c)

-----------------------------------------------------------------------------
MayMove(r) ==
    /\ NoticesFree(r)
    /\ DecidedMeanwhile \/ \A c \in Calls : calls[c] = IdleCall

\* A request is made and waits for the managers.
submit(r) ==
    /\ stages[r] = "none" /\ MayMove(r)
    /\ stages' = [stages EXCEPT ![r] = "manager"]
    /\ notices' = notices \cup StageNotices(r, "manager")
    /\ UNCHANGED <<memberStatus, users, appointments, audits, calls>>

\* It is approved at its stage and moves on, or it is refused.
decide(r, approved) ==
    LET next == IF approved THEN nextApprovalStage(stages[r]) ELSE NoStage
        left == {n \in notices : n.request # r}
    IN
    /\ stages[r] \in Stages /\ MayMove(r)
    /\ stages' = [stages EXCEPT ![r] = IF next = NoStage THEN "closed" ELSE next]
    /\ notices' = IF next = NoStage THEN left ELSE left \cup StageNotices(r, next)
    /\ UNCHANGED <<memberStatus, users, appointments, audits, calls>>

-----------------------------------------------------------------------------
\* What a call does once its transaction has begun.
Proceed(c) ==
    \/ scanOfficer(c) \/ countKetuaUtama(c) \/ writeOfficer(c) \/ updateOfficerByID(c)
    \/ insertOfficer(c)
    \/ checkLastKetuaUtama(c) \/ updateMemberUser(c) \/ createMemberUser(c)
    \/ countBeforeEnding(c) \/ suspendOfficer(c) \/ endMembership(c)

OfficerStep(c, m) ==
    /\ "officer" \in Operations
    /\ \/ \E role \in Roles, active \in BOOLEAN :
             lockAppointment(c, m, [role |-> role, active |-> active])
       \/ \E role \in Roles : lockMember(c, m, role)

UserStep(c, m) ==
    /\ "user" \in Operations
    /\ lockKetuaUtamas(c, m) \/ lookUpMemberUser(c, m) \/ enableMemberUser(m)

ResetStep(m) ==
    /\ "reset" \in Operations
    /\ resetOfficerPasswordByID(m) \/ resetMemberPassword(m) \/ changePassword(m)

OfficersNext ==
    \/ \E c \in Calls : Proceed(c) \/ breakDeadlock(c)
    \/ \E c \in Calls, m \in Members : OfficerStep(c, m) \/ UserStep(c, m)
    \/ "membership" \in Operations /\ \E c \in Calls, m \in Members : lockMembership(c, m)
    \/ \E m \in Members : ResetStep(m)
    \/ \E r \in Requests : submit(r) \/ \E approved \in BOOLEAN : decide(r, approved)

OfficersSpec == OfficersInit /\ [][OfficersNext]_officersVars

-----------------------------------------------------------------------------
\* An active appointment belongs to an active member who has a user, although
\* the membership may be ended while the appointment is being activated: both
\* lock the member's row (CONTEXT.md:264).
OfficersAreMembers ==
    \A m \in Members :
        appointments[m].active => memberStatus[m] = "active" /\ users[m].exists

\* An officer has an open notice of exactly the requests that wait at the stage
\* of the role (CONTEXT.md:267, 268), provided that no request moves while an
\* appointment is being changed.  A treasurer and an admin have none.
NoticesFollowStages ==
    \A m \in Members :
        OpenNotices(m) =
            IF ~Reachable(m) THEN {}
            ELSE {[to |-> m, request |-> r, stage |-> appointments[m].role] :
                      r \in {q \in Requests : stages[q] = appointments[m].role}}

\* Some active Ketua Utama can sign in: each call that switches a user off locks
\* the appointment of every Ketua Utama before it counts the others.
AKetuaUtamaSignsIn == \E m \in ActiveKetuaUtamas : users[m].active
=============================================================================
