--------------------------- MODULE OfficersProofs ---------------------------
(***************************************************************************)
(* Proofs about module Officers, whose calls interleave statement by       *)
(* statement: an active appointment is that of an active member with a     *)
(* user, notices follow the stages of the requests, and a Ketua Utama can  *)
(* sign in.  Each rests on what the lock of a row keeps apart.             *)
(***************************************************************************)
EXTENDS Officers, SequenceTheorems, TLAPS

MemberRow(m) == <<"member", m>>

\* The row of a member is locked by one call at a time.  (That of an appointment
\* is not, in the model: the end of a membership only waits for it if the
\* appointment is active.)
MemberLocksApart ==
    \A c, d \in Calls, m \in Members :
        c # d => ~(MemberRow(m) \in calls[c].locks /\ MemberRow(m) \in calls[d].locks)

Wanted(call) == call.wanted \in [role : Roles, active : BOOLEAN]

\* What a call has found out about its member under the lock of the row, or
\* before, if it cannot change.
CallOK(call, status, accounts) ==
    LET m == call.member IN
    /\ call.op # "none" => m \in Members
    /\ call.op = "update" => Wanted(call) /\ accounts[m].exists
    /\ call.op = "update" /\ call.at # "locking" =>
          /\ MemberRow(m) \in call.locks
          /\ call.wanted.active => status[m] = "active"
    /\ call.op = "insert" =>
          Wanted(call) /\ MemberRow(m) \in call.locks /\ status[m] = "active"
    /\ call.op = "membership" => MemberRow(m) \in call.locks

OfficersInvariant ==
    /\ OfficersTypeOK
    /\ MemberLocksApart
    /\ \A c \in Calls : CallOK(calls[c], memberStatus, users)
    /\ OfficersAreMembers

-----------------------------------------------------------------------------
(***************************************************************************)
(* Types.                                                                  *)
(***************************************************************************)
LEMMA IdleCallTyped == IdleCall \in CallRows
BY DEF IdleCall, CallRows, Appointments

LEMMA NoticesTyped ==
    ASSUME OfficersTypeOK, NEW m \in Members, NEW appointment \in Appointments
    PROVE  /\ OpenNotices(m) \in SUBSET Notices
           /\ PendingNotices(m, appointment) \in SUBSET Notices
<1>1. OpenNotices(m) \in SUBSET Notices
    BY DEF OpenNotices, OfficersTypeOK
<1> DEFINE stage == approvalStageForOfficer(appointment.role)
<1>2. ASSUME NEW n \in PendingNotices(m, appointment)
      PROVE  n \in Notices
    <2>1. PICK r \in Requests : stages[r] = stage /\ n = [to |-> m, request |-> r, stage |-> stage]
        BY <1>2 DEF PendingNotices
    <2>2. appointment.active /\ appointment.role \in Roles
        BY <1>2 DEF PendingNotices, Appointments, NoAppointment
    <2>3. stage \in Stages
        BY <2>1, <2>2, OfficersAssumption
        DEF OfficersTypeOK, approvalStageForOfficer, DecidingRoles, Stages
    <2>4. QED
        BY <2>1, <2>3 DEF Notices
<1>3. QED
    BY <1>1, <1>2

Actions == {"created", "role_changed", "activated", "deactivated", "password_reset"}

LEMMA OneAction ==
    ASSUME NEW action \in Actions
    PROVE  <<action>> \in Seq(Actions)
OBVIOUS

LEMMA ChangesTyped ==
    ASSUME NEW found, NEW wanted
    PROVE  Changes(found, wanted) \in Seq(Actions)
<1> DEFINE role == IF found.role # wanted.role THEN <<"role_changed">> ELSE << >>
           active == IF found.active = wanted.active THEN << >>
                     ELSE IF wanted.active THEN <<"activated">> ELSE <<"deactivated">>
<1>1. <<"role_changed">> \in Seq(Actions) /\ <<"activated">> \in Seq(Actions)
      /\ <<"deactivated">> \in Seq(Actions) /\ << >> \in Seq(Actions)
    BY OneAction, EmptySeq DEF Actions
<1>2. role \in Seq(Actions) /\ active \in Seq(Actions)
    BY <1>1
<1> HIDE DEF role, active
<1>3. role \o active \in Seq(Actions)
    BY <1>2, ConcatProperties
<1>4. QED
    BY <1>3 DEF Changes, role, active

LEMMA AuditsTyped ==
    ASSUME OfficersTypeOK, NEW m \in Members, NEW role \in Roles,
           NEW actions \in Seq(Actions),
           Recorded(m, actions, role)
    PROVE  audits' \in [Members -> Seq(Events)]
<1> DEFINE new == [n \in DOMAIN actions |-> [action |-> actions[n], role |-> role]]
<1>1. new \in [1 .. Len(actions) -> Events] /\ Len(actions) \in Nat
    BY DEF Events, Actions
<1>2. new \in Seq(Events)
    BY <1>1
<1>3. audits[m] \o new \in Seq(Events)
    BY <1>2 DEF OfficersTypeOK
<1>4. QED
    BY <1>3 DEF Recorded, OfficersTypeOK

-----------------------------------------------------------------------------
(***************************************************************************)
(* The steps.                                                              *)
(***************************************************************************)
LEMMA IdleCallOK ==
    ASSUME NEW status, NEW accounts
    PROVE  IdleCall \in CallRows /\ CallOK(IdleCall, status, accounts) /\ IdleCall.locks = {}
BY IdleCallTyped DEF IdleCall, CallOK

\* What a step of one call owes to the others: it takes the row of a member only
\* if nobody has it, and ends a membership only if it has it.
Considerate(c, call) ==
    /\ Serve(c, call)
    /\ \A m \in Members : MemberRow(m) \in call.locks =>
           MemberRow(m) \in calls[c].locks \/ Free(c, {MemberRow(m)})
    /\ \A m \in Members : users[m].exists => users'[m].exists
    /\ \A m \in Members : memberStatus'[m] = memberStatus[m] \/ MemberRow(m) \in calls[c].locks

LEMMA OneCall ==
    ASSUME OfficersInvariant, NEW c \in Calls, NEW call \in CallRows, Considerate(c, call),
           CallOK(call, memberStatus', users')
    PROVE  /\ calls' \in [Calls -> CallRows]
           /\ MemberLocksApart'
           /\ \A d \in Calls : CallOK(calls'[d], memberStatus', users')
<1>1. calls' = [calls EXCEPT ![c] = call] /\ calls \in [Calls -> CallRows]
    BY DEF Considerate, Serve, OfficersInvariant, OfficersTypeOK
<1>2. calls' \in [Calls -> CallRows]
    BY <1>1
<1>3. \A d \in Calls \ {c}, m \in Members :
        MemberRow(m) \in call.locks => MemberRow(m) \notin calls[d].locks
    BY DEF Considerate, OfficersInvariant, MemberLocksApart, Free, LockedByOthers
<1>4. MemberLocksApart'
    BY <1>1, <1>3 DEF MemberLocksApart, OfficersInvariant
<1>5. ASSUME NEW d \in Calls \ {c}
      PROVE  CallOK(calls[d], memberStatus', users')
    <2>1. CallOK(calls[d], memberStatus, users)
        BY DEF OfficersInvariant
    <2>2. \A m \in Members : MemberRow(m) \in calls[d].locks => memberStatus'[m] = memberStatus[m]
        BY DEF Considerate, OfficersInvariant, MemberLocksApart
    <2>3. \A m \in Members : users[m].exists => users'[m].exists
        BY DEF Considerate
    <2>4. QED
        BY <2>1, <2>2, <2>3 DEF CallOK
<1>6. \A d \in Calls : CallOK(calls'[d], memberStatus', users')
    BY <1>1, <1>5
<1>7. QED
    BY <1>2, <1>4, <1>6

\* A step that only moves a call on.
LEMMA TablesStay ==
    ASSUME OfficersInvariant, NEW c \in Calls, NEW call \in CallRows, UNCHANGED tables,
           Serve(c, call), CallOK(call, memberStatus, users),
           \A m \in Members : MemberRow(m) \in call.locks =>
               MemberRow(m) \in calls[c].locks \/ Free(c, {MemberRow(m)})
    PROVE  OfficersInvariant'
<1>1. Considerate(c, call) /\ CallOK(call, memberStatus', users')
    BY DEF tables, Considerate
<1>2. /\ calls' \in [Calls -> CallRows]
      /\ MemberLocksApart'
      /\ \A d \in Calls : CallOK(calls'[d], memberStatus', users')
    BY <1>1, OneCall
<1>3. QED
    BY <1>2 DEF OfficersInvariant, OfficersTypeOK, OfficersAreMembers, tables

LEMMA RolledBack ==
    ASSUME OfficersInvariant, NEW c \in Calls, Rollback(c)
    PROVE  OfficersInvariant'
BY IdleCallOK, TablesStay DEF Rollback

-----------------------------------------------------------------------------
\* A step that changes appointments, users or memberships and then is done.
LEMMA Finished ==
    ASSUME OfficersInvariant, NEW c \in Calls, Considerate(c, IdleCall),
           memberStatus' \in [Members -> {"active", "inactive"}],
           users' \in [Members -> [active : BOOLEAN, mustChange : BOOLEAN, exists : BOOLEAN]],
           appointments' \in [Members -> Appointments],
           UNCHANGED stages, notices' \subseteq Notices,
           audits' \in [Members -> Seq(Events)], OfficersAreMembers'
    PROVE  OfficersInvariant'
<1>1. IdleCall \in CallRows /\ CallOK(IdleCall, memberStatus', users')
    BY IdleCallOK
<1>2. /\ calls' \in [Calls -> CallRows]
      /\ MemberLocksApart'
      /\ \A d \in Calls : CallOK(calls'[d], memberStatus', users')
    BY <1>1, OneCall
<1>3. QED
    BY <1>2 DEF OfficersInvariant, OfficersTypeOK

\* A step that changes users or requests and no call.
LEMMA NoCall ==
    ASSUME OfficersInvariant, UNCHANGED <<memberStatus, appointments, calls>>,
           users' \in [Members -> [active : BOOLEAN, mustChange : BOOLEAN, exists : BOOLEAN]],
           \A m \in Members : users[m].exists => users'[m].exists,
           stages' \in [Requests -> Stages \cup {"none", "closed"}], notices' \subseteq Notices,
           audits' \in [Members -> Seq(Events)]
    PROVE  OfficersInvariant'
<1>1. \A c \in Calls : CallOK(calls[c], memberStatus, users')
    BY DEF OfficersInvariant, CallOK
<1>2. QED
    BY <1>1 DEF OfficersInvariant, OfficersTypeOK, MemberLocksApart, OfficersAreMembers

LEMMA ChangeOfOfficer ==
    ASSUME OfficersInvariant, NEW c \in Calls,
           scanOfficer(c) \/ countKetuaUtama(c) \/ writeOfficer(c)
    PROVE  OfficersInvariant'
<1> DEFINE m == calls[c].member
<1>1. /\ calls[c] \in CallRows /\ CallOK(calls[c], memberStatus, users) /\ calls[c].op = "update"
      /\ m \in Members
    BY DEF OfficersInvariant, OfficersTypeOK, scanOfficer, countKetuaUtama, writeOfficer, At, CallOK
<1>2. CASE Rollback(c)
    BY <1>2, RolledBack
<1>3. CASE ~Rollback(c) /\ scanOfficer(c)
    <2> DEFINE call == [calls[c] EXCEPT !.at = "counting", !.locks = RowsToLock(m),
                                        !.found = appointments[m]]
    <2>1. /\ Free(c, RowsToLock(m)) /\ Serve(c, call) /\ UNCHANGED tables
          /\ calls[c].wanted.active => memberStatus[m] = "active"
        BY <1>3 DEF scanOfficer
    <2>2. appointments[m] \in Appointments /\ RowsToLock(m) \in SUBSET ({"member", "user", "appointment"} \X Members)
        BY <1>1 DEF OfficersInvariant, OfficersTypeOK, RowsToLock, RowsOf
    <2>3. call \in CallRows
        BY <1>1, <2>2 DEF CallRows
    <2>4. MemberRow(m) \in RowsToLock(m) /\ Free(c, {MemberRow(m)})
        BY <2>1 DEF RowsToLock, RowsOf, MemberRow, Free
    <2>5. /\ call.op = "update" /\ call.member = m /\ call.wanted = calls[c].wanted
          /\ call.locks = RowsToLock(m)
        BY <1>1 DEF CallRows
    <2>6. \A k \in Members : MemberRow(k) \in RowsToLock(m) => k = m
        BY DEF RowsToLock, RowsOf, MemberRow
    <2> HIDE DEF call
    <2>7. CallOK(call, memberStatus, users)
        BY <1>1, <2>1, <2>4, <2>5 DEF CallOK, Wanted
    <2>8. QED
        BY <2>1, <2>3, <2>4, <2>5, <2>6, <2>7, TablesStay
<1>4. CASE ~Rollback(c) /\ countKetuaUtama(c)
    <2> DEFINE call == [calls[c] EXCEPT !.at = "writing"]
    <2>1. calls[c].at = "counting" /\ Serve(c, call) /\ UNCHANGED tables
        BY <1>4 DEF countKetuaUtama, At
    <2>2. /\ call \in CallRows /\ call.op = "update" /\ call.member = m
          /\ call.wanted = calls[c].wanted /\ call.locks = calls[c].locks
        BY <1>1 DEF CallRows
    <2> HIDE DEF call
    <2>3. CallOK(call, memberStatus, users)
        BY <1>1, <2>1, <2>2 DEF CallOK, Wanted
    <2>4. QED
        BY <2>1, <2>2, <2>3, TablesStay
<1>5. CASE ~Rollback(c) /\ writeOfficer(c)
    <2>1. PICK resolved \in SUBSET Notices, added \in SUBSET Notices :
              Serve(c, [calls[c] EXCEPT !.at = "committing", !.resolved = resolved, !.added = added])
        <3>1. calls[c].wanted \in Appointments
            BY <1>1 DEF CallRows
        <3>2. /\ OpenNotices(m) \in SUBSET Notices
              /\ PendingNotices(m, calls[c].wanted) \in SUBSET Notices
            BY <1>1, <3>1, NoticesTyped DEF OfficersInvariant
        <3>3. CASE calls[c].wanted = calls[c].found
            <4>1. Serve(c, [calls[c] EXCEPT !.at = "committing"])
                BY <1>5, <3>3 DEF writeOfficer
            <4>2. [calls[c] EXCEPT !.at = "committing"]
                    = [calls[c] EXCEPT !.at = "committing", !.resolved = calls[c].resolved,
                                       !.added = calls[c].added]
                BY <1>1 DEF CallRows
            <4>3. QED
                BY <1>1, <4>1, <4>2 DEF CallRows
        <3>4. CASE calls[c].wanted # calls[c].found
            <4>1. Serve(c, syncOfficerNotifications([calls[c] EXCEPT !.at = "committing"], m,
                                                    calls[c].wanted))
                BY <1>5, <3>4 DEF writeOfficer
            <4>2. QED
                BY <1>1, <3>2, <4>1 DEF syncOfficerNotifications, CallRows
        <3>5. QED
            BY <3>3, <3>4
    <2> DEFINE call == [calls[c] EXCEPT !.at = "committing", !.resolved = resolved, !.added = added]
    <2>2. calls[c].at = "writing" /\ UNCHANGED tables
        BY <1>5 DEF writeOfficer, At
    <2>3. /\ call \in CallRows /\ call.op = "update" /\ call.member = m
          /\ call.wanted = calls[c].wanted /\ call.locks = calls[c].locks
        BY <1>1 DEF CallRows
    <2>4. Serve(c, call)
        BY <2>1
    <2> HIDE DEF call
    <2>5. CallOK(call, memberStatus, users)
        BY <1>1, <2>2, <2>3 DEF CallOK, Wanted
    <2>6. QED
        BY <2>2, <2>3, <2>4, <2>5, TablesStay
<1>6. QED
    BY <1>2, <1>3, <1>4, <1>5

LEMMA OfficerChanged ==
    ASSUME OfficersInvariant, NEW c \in Calls, updateOfficerByID(c)
    PROVE  OfficersInvariant'
<1> DEFINE m == calls[c].member
           wanted == calls[c].wanted
           found == calls[c].found
<1>1. /\ calls[c] \in CallRows /\ m \in Members /\ wanted \in [role : Roles, active : BOOLEAN]
      /\ users[m].exists
      /\ wanted.active => memberStatus[m] = "active"
    BY DEF OfficersInvariant, OfficersTypeOK, updateOfficerByID, At, CallOK, Wanted
<1>2. Considerate(c, IdleCall)
    BY IdleCallOK DEF Considerate, updateOfficerByID
<1>3. audits' \in [Members -> Seq(Events)]
    <2>1. Changes(found, wanted) \in Seq(Actions) /\ wanted.role \in Roles
        BY <1>1, ChangesTyped
    <2>2. Recorded(m, Changes(found, wanted), wanted.role)
        BY DEF updateOfficerByID
    <2>3. QED
        BY <1>1, <2>1, <2>2, AuditsTyped DEF OfficersInvariant
<1>4. appointments' = [appointments EXCEPT ![m] = wanted] /\ UNCHANGED <<memberStatus, users, stages>>
    BY DEF updateOfficerByID
<1>5. wanted \in Appointments
    BY <1>1 DEF Appointments
<1>6. appointments' \in [Members -> Appointments]
    BY <1>4, <1>5 DEF OfficersInvariant, OfficersTypeOK
<1>7. OfficersAreMembers'
    BY <1>1, <1>4 DEF OfficersAreMembers, OfficersInvariant, OfficersTypeOK
<1>8. notices' \subseteq Notices
    BY <1>1 DEF updateOfficerByID, CallRows, OfficersInvariant, OfficersTypeOK
<1>9. QED
    BY <1>2, <1>3, <1>4, <1>6, <1>7, <1>8, Finished DEF OfficersInvariant, OfficersTypeOK

LEMMA OfficerInserted ==
    ASSUME OfficersInvariant, NEW c \in Calls, insertOfficer(c)
    PROVE  OfficersInvariant'
<1> DEFINE m == calls[c].member
           wanted == calls[c].wanted
<1>1. /\ calls[c] \in CallRows /\ m \in Members /\ wanted \in [role : Roles, active : BOOLEAN]
      /\ memberStatus[m] = "active"
    BY DEF OfficersInvariant, OfficersTypeOK, insertOfficer, At, CallOK, Wanted
<1>2. /\ users' = [users EXCEPT ![m] = IF @.exists THEN @ ELSE NewUser]
      /\ appointments' = [appointments EXCEPT ![m] = wanted]
      /\ UNCHANGED <<memberStatus, stages>>
    BY DEF insertOfficer
<1>3. /\ users' \in [Members -> [active : BOOLEAN, mustChange : BOOLEAN, exists : BOOLEAN]]
      /\ users'[m].exists
      /\ \A k \in Members : users[k].exists => users'[k].exists
    BY <1>1, <1>2 DEF OfficersInvariant, OfficersTypeOK, NewUser
<1>4. Considerate(c, IdleCall)
    BY <1>3, IdleCallOK DEF Considerate, insertOfficer
<1>5. audits' \in [Members -> Seq(Events)]
    <2>1. Recorded(m, <<"created">>, wanted.role) /\ wanted.role \in Roles
        BY <1>1 DEF insertOfficer
    <2>2. <<"created">> \in Seq(Actions)
        BY OneAction DEF Actions
    <2>3. QED
        BY <1>1, <2>1, <2>2, AuditsTyped DEF OfficersInvariant
<1>6. wanted \in Appointments
    BY <1>1 DEF Appointments
<1>7. appointments' \in [Members -> Appointments]
    BY <1>2, <1>6 DEF OfficersInvariant, OfficersTypeOK
<1>8. OfficersAreMembers'
    BY <1>1, <1>2, <1>3 DEF OfficersAreMembers, OfficersInvariant, OfficersTypeOK
<1>9. notices' \subseteq Notices
    BY <1>1 DEF insertOfficer, CallRows, OfficersInvariant, OfficersTypeOK
<1>10. QED
    BY <1>2, <1>3, <1>4, <1>5, <1>7, <1>8, <1>9, Finished DEF OfficersInvariant, OfficersTypeOK

\* A call begins: it locks rows that are free.
LEMMA Begun ==
    ASSUME OfficersInvariant, NEW c \in Calls, NEW call \in CallRows, UNCHANGED tables,
           Serve(c, call), CallOK(call, memberStatus, users),
           NEW m \in Members, NEW rows, call.locks = rows, Free(c, rows)
    PROVE  OfficersInvariant'
<1>1. \A k \in Members : MemberRow(k) \in call.locks => Free(c, {MemberRow(k)})
    BY DEF Free
<1>2. QED
    BY <1>1, TablesStay

LEMMA OfficerBegun ==
    ASSUME OfficersInvariant, NEW c \in Calls, NEW m \in Members, OfficerStep(c, m)
    PROVE  OfficersInvariant'
<1>1. ASSUME NEW wanted \in [role : Roles, active : BOOLEAN], lockAppointment(c, m, wanted)
      PROVE  OfficersInvariant'
    <2> DEFINE rows == {<<"appointment", m>>}
               call == [IdleCall EXCEPT !.op = "update", !.at = "locking", !.member = m,
                                        !.locks = rows, !.wanted = wanted]
    <2>1. wanted \in Appointments /\ rows \in SUBSET ({"member", "user", "appointment"} \X Members)
        BY DEF Appointments
    <2>2. call \in CallRows /\ call.op = "update" /\ call.at = "locking" /\ call.member = m
          /\ call.wanted = wanted /\ call.locks = rows
        BY <2>1, IdleCallTyped DEF CallRows
    <2>3. Serve(c, call) /\ UNCHANGED tables /\ Free(c, rows) /\ users[m].exists
        BY <1>1 DEF lockAppointment
    <2> HIDE DEF call, rows
    <2>4. CallOK(call, memberStatus, users)
        BY <2>2, <2>3 DEF CallOK, Wanted
    <2>5. QED
        BY <2>2, <2>3, <2>4, Begun
<1>2. ASSUME NEW role \in Roles, lockMember(c, m, role)
      PROVE  OfficersInvariant'
    <2> DEFINE wanted == [role |-> role, active |-> TRUE]
               rows == {<<"member", m>>}
               resolved == OpenNotices(m)
               added == PendingNotices(m, wanted)
               call == [IdleCall EXCEPT !.op = "insert", !.at = "committing", !.member = m,
                                        !.locks = rows, !.wanted = wanted,
                                        !.resolved = resolved, !.added = added]
    <2>1. wanted \in Appointments /\ rows \in SUBSET ({"member", "user", "appointment"} \X Members)
        BY DEF Appointments
    <2>2. resolved \in SUBSET Notices /\ added \in SUBSET Notices
        BY <2>1, NoticesTyped DEF OfficersInvariant
    <2>3. Serve(c, call) /\ UNCHANGED tables /\ Free(c, rows) /\ memberStatus[m] = "active"
        BY <1>2 DEF lockMember, syncOfficerNotifications, IdleCall
    <2>4. wanted \in [role : Roles, active : BOOLEAN]
        OBVIOUS
    <2> HIDE DEF wanted, rows, resolved, added
    <2>5. call \in CallRows /\ call.op = "insert" /\ call.member = m
          /\ call.wanted = wanted /\ call.locks = rows
        BY <2>1, <2>2, IdleCallTyped DEF CallRows
    <2>6. MemberRow(m) \in rows
        BY DEF rows, MemberRow
    <2> HIDE DEF call
    <2>7. CallOK(call, memberStatus, users)
        BY <2>3, <2>4, <2>5, <2>6 DEF CallOK, Wanted
    <2>8. QED
        BY <2>3, <2>5, <2>7, Begun
<1>3. QED
    BY <1>1, <1>2 DEF OfficerStep

-----------------------------------------------------------------------------
LEMMA KetuaUtamaRowsTyped ==
    /\ KetuaUtamaRows \in SUBSET ({"member", "user", "appointment"} \X Members)
    /\ \A m \in Members : MemberRow(m) \notin KetuaUtamaRows
BY DEF KetuaUtamaRows, MemberRow

LEMMA UserStepHolds ==
    ASSUME OfficersInvariant, NEW c \in Calls, NEW m \in Members, UserStep(c, m)
    PROVE  OfficersInvariant'
<1>1. CASE lockKetuaUtamas(c, m)
    <2> DEFINE call == [IdleCall EXCEPT !.op = "switch", !.at = "checking", !.member = m,
                                        !.locks = KetuaUtamaRows]
    <2>1. call \in CallRows /\ call.op = "switch" /\ call.member = m /\ call.locks = KetuaUtamaRows
        BY IdleCallTyped, KetuaUtamaRowsTyped DEF CallRows
    <2>2. Serve(c, call) /\ UNCHANGED tables /\ Free(c, KetuaUtamaRows)
        BY <1>1 DEF lockKetuaUtamas
    <2> HIDE DEF call
    <2>3. CallOK(call, memberStatus, users)
        BY <2>1 DEF CallOK
    <2>4. QED
        BY <2>1, <2>2, <2>3, Begun
<1>2. CASE lookUpMemberUser(c, m)
    <2>1. PICK at \in {"updating", "inserting"} :
              Serve(c, [IdleCall EXCEPT !.op = "account", !.member = m, !.at = at])
        BY <1>2 DEF lookUpMemberUser
    <2> DEFINE call == [IdleCall EXCEPT !.op = "account", !.member = m, !.at = at]
    <2>2. call \in CallRows /\ call.op = "account" /\ call.member = m /\ call.locks = {}
        BY IdleCallTyped, IdleCallOK DEF CallRows
    <2>3. Serve(c, call) /\ UNCHANGED tables /\ Free(c, {})
        BY <1>2, <2>1 DEF lookUpMemberUser, Free
    <2> HIDE DEF call
    <2>4. CallOK(call, memberStatus, users)
        BY <2>2 DEF CallOK
    <2>5. QED
        BY <2>2, <2>3, <2>4, Begun
<1>3. CASE enableMemberUser(m)
    <2>1. users' = [users EXCEPT ![m].active = TRUE]
          /\ UNCHANGED <<memberStatus, appointments, stages, notices, audits, calls>>
        BY <1>3 DEF enableMemberUser
    <2>2. users' \in [Members -> [active : BOOLEAN, mustChange : BOOLEAN, exists : BOOLEAN]]
          /\ \A k \in Members : users[k].exists => users'[k].exists
        BY <2>1 DEF OfficersInvariant, OfficersTypeOK
    <2>3. QED
        BY <2>1, <2>2, NoCall DEF OfficersInvariant, OfficersTypeOK
<1>4. QED
    BY <1>1, <1>2, <1>3 DEF UserStep

\* The users of a call that ends by writing one.
LEMMA UserWritten ==
    ASSUME OfficersInvariant, NEW c \in Calls, NEW m \in Members,
           NEW user \in [active : BOOLEAN, mustChange : BOOLEAN, exists : BOOLEAN],
           users[m].exists => user.exists, users' = [users EXCEPT ![m] = user],
           Serve(c, IdleCall), UNCHANGED <<memberStatus, appointments, stages, notices, audits>>
    PROVE  OfficersInvariant'
<1>1. /\ users' \in [Members -> [active : BOOLEAN, mustChange : BOOLEAN, exists : BOOLEAN]]
      /\ \A k \in Members : users[k].exists => users'[k].exists
    BY DEF OfficersInvariant, OfficersTypeOK
<1>2. Considerate(c, IdleCall)
    BY <1>1, IdleCallOK DEF Considerate
<1>3. OfficersAreMembers'
    BY <1>1 DEF OfficersAreMembers, OfficersInvariant
<1>4. QED
    BY <1>1, <1>2, <1>3, Finished DEF OfficersInvariant, OfficersTypeOK

LEMMA UserChanged ==
    ASSUME OfficersInvariant, NEW c \in Calls,
           checkLastKetuaUtama(c) \/ updateMemberUser(c) \/ createMemberUser(c)
    PROVE  OfficersInvariant'
<1> DEFINE m == calls[c].member
<1>1. /\ calls[c] \in CallRows /\ m \in Members /\ calls[c].op \in {"switch", "account"}
      /\ CallOK(calls[c], memberStatus, users)
    BY DEF OfficersInvariant, OfficersTypeOK, checkLastKetuaUtama, updateMemberUser,
           createMemberUser, At, CallOK
<1>2. CASE Rollback(c)
    BY <1>2, RolledBack
<1>3. CASE ~Rollback(c) /\ checkLastKetuaUtama(c)
    <2> DEFINE call == [calls[c] EXCEPT !.at = "writing"]
    <2>1. Serve(c, call) /\ UNCHANGED tables
        BY <1>3 DEF checkLastKetuaUtama
    <2>2. /\ call \in CallRows /\ call.op = calls[c].op /\ call.member = m
          /\ call.locks = calls[c].locks
        BY <1>1 DEF CallRows
    <2> HIDE DEF call
    <2>3. CallOK(call, memberStatus, users)
        BY <1>1, <2>2 DEF CallOK
    <2>4. QED
        BY <2>1, <2>2, <2>3, TablesStay
<1>4. CASE updateMemberUser(c)
    <2> DEFINE user == [users[m] EXCEPT !.active = FALSE]
    <2>1. users' = [users EXCEPT ![m] = user] /\ Serve(c, IdleCall)
          /\ UNCHANGED <<memberStatus, appointments, stages, notices, audits>>
        BY <1>4 DEF updateMemberUser
    <2>2. user \in [active : BOOLEAN, mustChange : BOOLEAN, exists : BOOLEAN]
          /\ user.exists = users[m].exists
        BY <1>1 DEF OfficersInvariant, OfficersTypeOK
    <2> HIDE DEF user
    <2>3. QED
        BY <1>1, <2>1, <2>2, UserWritten
<1>5. CASE ~Rollback(c) /\ createMemberUser(c)
    <2>1. users' = [users EXCEPT ![m] = NewUser] /\ Serve(c, IdleCall)
          /\ UNCHANGED <<memberStatus, appointments, stages, notices, audits>>
        BY <1>5 DEF createMemberUser
    <2>2. NewUser \in [active : BOOLEAN, mustChange : BOOLEAN, exists : BOOLEAN] /\ NewUser.exists
        BY DEF NewUser
    <2>3. QED
        BY <1>1, <2>1, <2>2, UserWritten
<1>6. QED
    BY <1>2, <1>3, <1>4, <1>5

LEMMA PasswordReset ==
    ASSUME OfficersInvariant, NEW m \in Members, ResetStep(m)
    PROVE  OfficersInvariant'
<1>1. PICK must \in BOOLEAN :
          users' = [users EXCEPT ![m].mustChange = must]
          /\ UNCHANGED <<memberStatus, appointments, stages, notices, calls>>
    BY DEF ResetStep, resetOfficerPasswordByID, resetMemberPassword, changePassword
<1>2. audits' \in [Members -> Seq(Events)]
    <2>1. CASE resetOfficerPasswordByID(m)
        <3>1. appointments[m].role \in Roles /\ Recorded(m, <<"password_reset">>, appointments[m].role)
            BY <2>1 DEF resetOfficerPasswordByID, OfficersInvariant, OfficersTypeOK, Appointments
        <3>2. <<"password_reset">> \in Seq(Actions)
            BY OneAction DEF Actions
        <3>3. QED
            BY <3>1, <3>2, AuditsTyped DEF OfficersInvariant
    <2>2. CASE UNCHANGED audits
        BY <2>2 DEF OfficersInvariant, OfficersTypeOK
    <2>3. QED
        BY <2>1, <2>2 DEF ResetStep, resetMemberPassword, changePassword
<1>3. users' \in [Members -> [active : BOOLEAN, mustChange : BOOLEAN, exists : BOOLEAN]]
      /\ \A k \in Members : users[k].exists => users'[k].exists
    BY <1>1 DEF OfficersInvariant, OfficersTypeOK
<1>4. QED
    BY <1>1, <1>2, <1>3, NoCall DEF OfficersInvariant, OfficersTypeOK

-----------------------------------------------------------------------------
LEMMA MembershipStep ==
    ASSUME OfficersInvariant, NEW c \in Calls,
           \/ \E m \in Members : lockMembership(c, m)
           \/ countBeforeEnding(c) \/ suspendOfficer(c) \/ endMembership(c)
    PROVE  OfficersInvariant'
<1> DEFINE m == calls[c].member
<1>1. CASE Rollback(c)
    BY <1>1, RolledBack
<1>2. ASSUME NEW k \in Members, lockMembership(c, k)
      PROVE  OfficersInvariant'
    <2> DEFINE rows == {<<"member", k>>}
               call == [IdleCall EXCEPT !.op = "membership", !.at = "counting", !.member = k,
                                        !.locks = rows]
    <2>1. rows \in SUBSET ({"member", "user", "appointment"} \X Members) /\ MemberRow(k) \in rows
        BY DEF MemberRow
    <2>2. Serve(c, call) /\ UNCHANGED tables /\ Free(c, rows)
        BY <1>2 DEF lockMembership
    <2> HIDE DEF rows
    <2>3. call \in CallRows /\ call.op = "membership" /\ call.member = k /\ call.locks = rows
        BY <2>1, IdleCallTyped DEF CallRows
    <2> HIDE DEF call
    <2>4. CallOK(call, memberStatus, users)
        BY <2>1, <2>3 DEF CallOK
    <2>5. QED
        BY <2>2, <2>3, <2>4, Begun
<1>3. ASSUME calls[c].op = "membership"
      PROVE  calls[c] \in CallRows /\ m \in Members /\ MemberRow(m) \in calls[c].locks
    BY <1>3 DEF OfficersInvariant, OfficersTypeOK, CallOK
<1>4. CASE ~Rollback(c) /\ (countBeforeEnding(c) \/ suspendOfficer(c))
    <2>1. /\ UNCHANGED tables /\ calls[c].op = "membership"
          /\ \/ Serve(c, [calls[c] EXCEPT !.at = "writing"])
             \/ Serve(c, [calls[c] EXCEPT !.at = "committing",
                                          !.locks = @ \cup {<<"appointment", m>>}])
        BY <1>4 DEF countBeforeEnding, suspendOfficer, At
    <2>2. PICK at \in {"writing", "committing"}, more \in SUBSET {<<"appointment", m>>} :
              Serve(c, [calls[c] EXCEPT !.at = at, !.locks = calls[c].locks \cup more])
        <3>1. CASE Serve(c, [calls[c] EXCEPT !.at = "writing"])
            <4>1. [calls[c] EXCEPT !.at = "writing"]
                    = [calls[c] EXCEPT !.at = "writing", !.locks = calls[c].locks \cup {}]
                BY <1>3, <2>1 DEF CallRows
            <4>2. QED
                BY <3>1, <4>1
        <3>2. CASE Serve(c, [calls[c] EXCEPT !.at = "committing",
                                             !.locks = @ \cup {<<"appointment", m>>}])
            BY <3>2
        <3>3. QED
            BY <2>1, <3>1, <3>2
    <2> DEFINE rows == calls[c].locks \cup more
               call == [calls[c] EXCEPT !.at = at, !.locks = rows]
    <2>3. Serve(c, call)
        BY <2>2
    <2>4. rows \in SUBSET ({"member", "user", "appointment"} \X Members) /\ MemberRow(m) \in rows
          /\ \A k \in Members : MemberRow(k) \in rows => MemberRow(k) \in calls[c].locks
        BY <1>3, <2>1 DEF MemberRow, CallRows
    <2> HIDE DEF rows
    <2>5. call \in CallRows /\ call.op = "membership" /\ call.member = m /\ call.locks = rows
        BY <1>3, <2>1, <2>4 DEF CallRows
    <2> HIDE DEF call
    <2>6. CallOK(call, memberStatus, users)
        BY <1>3, <2>1, <2>4, <2>5 DEF CallOK
    <2>7. QED
        BY <2>1, <2>3, <2>4, <2>5, <2>6, TablesStay
<1>5. CASE endMembership(c)
    <2>1. /\ memberStatus' = [memberStatus EXCEPT ![m] = "inactive"]
          /\ appointments' = [appointments EXCEPT ![m].active = FALSE]
          /\ Serve(c, IdleCall) /\ UNCHANGED <<users, stages, notices, audits>>
          /\ m \in Members /\ MemberRow(m) \in calls[c].locks
        BY <1>3, <1>5 DEF endMembership, At
    <2>2. Considerate(c, IdleCall)
        BY <2>1, IdleCallOK DEF Considerate, OfficersInvariant, OfficersTypeOK
    <2>3. [appointments[m] EXCEPT !.active = FALSE] \in Appointments
        <3>1. CASE appointments[m] \in [role : Roles, active : BOOLEAN]
            <4>1. [appointments[m] EXCEPT !.active = FALSE] \in [role : Roles, active : BOOLEAN]
                BY <3>1
            <4>2. QED
                BY <4>1 DEF Appointments
        <3>2. CASE appointments[m] = NoAppointment
            <4>1. NoAppointment \in [role : {"none"}, active : {FALSE}]
                BY DEF NoAppointment
            <4>2. NoAppointment = [NoAppointment EXCEPT !.active = NoAppointment.active]
                BY <4>1, Zenon
            <4>3. NoAppointment.active = FALSE
                BY <4>1
            <4>4. [NoAppointment EXCEPT !.active = FALSE] = NoAppointment
                BY <4>2, <4>3, Zenon
            <4>5. QED
                BY <3>2, <4>4 DEF Appointments
        <3>3. QED
            BY <2>1, <3>1, <3>2 DEF OfficersInvariant, OfficersTypeOK, Appointments
    <2>4. appointments' \in [Members -> Appointments] /\ ~appointments'[m].active
          /\ memberStatus' \in [Members -> {"active", "inactive"}]
        BY <2>1, <2>3 DEF OfficersInvariant, OfficersTypeOK, Appointments, NoAppointment
    <2>5. OfficersAreMembers'
        BY <2>1, <2>4 DEF OfficersAreMembers, OfficersInvariant, OfficersTypeOK
    <2>6. QED
        BY <2>1, <2>2, <2>4, <2>5, Finished DEF OfficersInvariant, OfficersTypeOK
<1>6. QED
    BY <1>1, <1>2, <1>4, <1>5

-----------------------------------------------------------------------------
LEMMA StageNoticesTyped ==
    ASSUME NEW r \in Requests, NEW stage \in Stages
    PROVE  StageNotices(r, stage) \subseteq Notices
BY DEF StageNotices, Notices

LEMMA NextStage ==
    ASSUME NEW stage \in Stages
    PROVE  nextApprovalStage(stage) \in Stages \cup {NoStage}
BY DEF nextApprovalStage, Stages

LEMMA RequestMoved ==
    ASSUME OfficersInvariant, NEW r \in Requests,
           submit(r) \/ \E approved \in BOOLEAN : decide(r, approved)
    PROVE  OfficersInvariant'
<1>1. CASE submit(r)
    <2>1. stages' \in [Requests -> Stages \cup {"none", "closed"}]
        BY <1>1 DEF submit, OfficersInvariant, OfficersTypeOK, Stages
    <2>2. "manager" \in Stages
        BY DEF Stages
    <2>3. notices' \subseteq Notices
        BY <1>1, <2>2, StageNoticesTyped DEF submit, OfficersInvariant, OfficersTypeOK
    <2>4. QED
        BY <1>1, <2>1, <2>3, NoCall DEF submit, OfficersInvariant, OfficersTypeOK
<1>2. ASSUME NEW approved \in BOOLEAN, decide(r, approved)
      PROVE  OfficersInvariant'
    <2> DEFINE next == IF approved THEN nextApprovalStage(stages[r]) ELSE NoStage
    <2>1. next \in Stages \cup {NoStage}
        BY <1>2, NextStage DEF decide
    <2>2. stages' \in [Requests -> Stages \cup {"none", "closed"}]
        BY <1>2, <2>1 DEF decide, OfficersInvariant, OfficersTypeOK
    <2>3. next \in Stages => StageNotices(r, next) \subseteq Notices
        BY StageNoticesTyped
    <2>4. notices' \subseteq Notices
        BY <1>2, <2>1, <2>3 DEF decide, OfficersInvariant, OfficersTypeOK
    <2>5. QED
        BY <1>2, <2>2, <2>4, NoCall DEF decide, OfficersInvariant, OfficersTypeOK
<1>3. QED
    BY <1>1, <1>2

-----------------------------------------------------------------------------
LEMMA OfficersInvariantInit == OfficersInit => OfficersInvariant
<1> SUFFICES ASSUME OfficersInit
             PROVE  OfficersInvariant
    OBVIOUS
<1>1. PICK founders \in (SUBSET Members) \ {{}} :
        /\ appointments = [m \in Members |->
               IF m \in founders THEN [role |-> "ketua_utama", active |-> TRUE]
                                 ELSE NoAppointment]
        /\ users = [m \in Members |-> IF m \in founders THEN NewUser ELSE NoUser]
        /\ audits = [m \in Members |->
               IF m \in founders THEN <<[action |-> "created", role |-> "ketua_utama"]>>
                                 ELSE << >>]
    BY DEF OfficersInit
<1>2. /\ memberStatus = [m \in Members |-> "active"] /\ stages = [r \in Requests |-> "none"]
      /\ notices = {} /\ calls = [c \in Calls |-> IdleCall]
    BY DEF OfficersInit
<1>3. audits \in [Members -> Seq(Events)]
    <2>1. [action |-> "created", role |-> "ketua_utama"] \in Events
        BY OfficersAssumption DEF Events
    <2>2. <<[action |-> "created", role |-> "ketua_utama"]>> \in Seq(Events) /\ << >> \in Seq(Events)
        BY <2>1, EmptySeq
    <2>3. QED
        BY <1>1, <2>2
<1>4. appointments \in [Members -> Appointments]
    <2>1. [role |-> "ketua_utama", active |-> TRUE] \in Appointments
        BY OfficersAssumption DEF Appointments
    <2>2. QED
        BY <1>1, <2>1 DEF Appointments
<1>5. users \in [Members -> [active : BOOLEAN, mustChange : BOOLEAN, exists : BOOLEAN]]
    BY <1>1 DEF NewUser, NoUser
<1>6. calls \in [Calls -> CallRows]
    BY <1>2, IdleCallOK
<1>7. OfficersTypeOK
    BY <1>2, <1>3, <1>4, <1>5, <1>6 DEF OfficersTypeOK
<1>8. MemberLocksApart /\ \A c \in Calls : CallOK(calls[c], memberStatus, users)
    BY <1>2, IdleCallOK DEF MemberLocksApart
<1>9. OfficersAreMembers
    BY <1>1, <1>2 DEF OfficersAreMembers, NoAppointment, NewUser
<1>10. QED
    BY <1>7, <1>8, <1>9 DEF OfficersInvariant

LEMMA OfficersInvariantNext == OfficersInvariant /\ [OfficersNext]_officersVars => OfficersInvariant'
<1> SUFFICES ASSUME OfficersInvariant, [OfficersNext]_officersVars
             PROVE  OfficersInvariant'
    OBVIOUS
<1>1. CASE \E c \in Calls : Proceed(c) \/ breakDeadlock(c)
    <2>1. PICK c \in Calls : Proceed(c) \/ breakDeadlock(c)
        BY <1>1
    <2>2. CASE breakDeadlock(c)
        BY <2>2, RolledBack DEF breakDeadlock
    <2>3. CASE scanOfficer(c) \/ countKetuaUtama(c) \/ writeOfficer(c)
        BY <2>3, ChangeOfOfficer
    <2>4. CASE updateOfficerByID(c)
        BY <2>4, OfficerChanged
    <2>5. CASE insertOfficer(c)
        BY <2>5, OfficerInserted
    <2>6. CASE checkLastKetuaUtama(c) \/ updateMemberUser(c) \/ createMemberUser(c)
        BY <2>6, UserChanged
    <2>7. CASE countBeforeEnding(c) \/ suspendOfficer(c) \/ endMembership(c)
        BY <2>7, MembershipStep
    <2>8. QED
        BY <2>1, <2>2, <2>3, <2>4, <2>5, <2>6, <2>7 DEF Proceed
<1>2. CASE \E c \in Calls, m \in Members : OfficerStep(c, m) \/ UserStep(c, m)
    BY <1>2, OfficerBegun, UserStepHolds
<1>3. CASE \E c \in Calls, m \in Members : lockMembership(c, m)
    BY <1>3, MembershipStep
<1>4. CASE \E m \in Members : ResetStep(m)
    BY <1>4, PasswordReset
<1>5. CASE \E r \in Requests : submit(r) \/ \E approved \in BOOLEAN : decide(r, approved)
    BY <1>5, RequestMoved
<1>6. CASE UNCHANGED officersVars
    BY <1>6 DEF officersVars, OfficersInvariant, OfficersTypeOK, MemberLocksApart, OfficersAreMembers
<1>7. QED
    BY <1>1, <1>2, <1>3, <1>4, <1>5, <1>6 DEF OfficersNext

(***************************************************************************)
(* What holds of appointments, users and calls in every reachable state.   *)
(***************************************************************************)
THEOREM OfficersInvariantHolds == OfficersSpec => []OfficersInvariant
<1>1. QED
    BY OfficersInvariantInit, OfficersInvariantNext, PTL DEF OfficersSpec

(***************************************************************************)
(* An active appointment is that of an active member who has a user,       *)
(* although memberships end and appointments are activated at the same     *)
(* time (officers.go:341, member_deactivation.go:489).                     *)
(***************************************************************************)
THEOREM OfficersAreMembersHolds == OfficersSpec => []OfficersAreMembers
<1>1. OfficersInvariant => OfficersAreMembers
    BY DEF OfficersInvariant
<1>2. QED
    BY <1>1, OfficersInvariantHolds, PTL

-----------------------------------------------------------------------------
(***************************************************************************)
(* Notices.  While officers are appointed and changed, and nobody's user   *)
(* or membership, an officer is reachable who has an active appointment.   *)
(***************************************************************************)
OnlyOfficers == Operations \subseteq {"officer", "reset"} /\ DecidedMeanwhile = FALSE

\* What a change of an officer has read is still true, for it has the row of the
\* member; what it is going to write replaces the notices of the member.
NoticesReady(c) ==
    LET call == calls[c]
        m == call.member
    IN
    /\ call.op \in {"none", "update", "insert"}
    /\ call.op = "update" /\ call.at # "locking" => call.found = appointments[m]
    /\ call.op = "update" /\ (call.at # "committing" \/ call.wanted = call.found) =>
          call.resolved = {} /\ call.added = {}
    /\ (call.op = "insert"
        \/ (call.op = "update" /\ call.at = "committing" /\ call.wanted # call.found)) =>
          call.resolved = OpenNotices(m) /\ call.added = PendingNotices(m, call.wanted)

Noticed == \A m \in Members : OpenNotices(m) = PendingNotices(m, appointments[m])

NoticesInvariant ==
    /\ OfficersInvariant
    /\ \A m \in Members :
          memberStatus[m] = "active" /\ (users[m].exists => users[m].active)
    /\ \A c \in Calls : NoticesReady(c)
    /\ Noticed

LEMMA NoticedIsFollowing == NoticesInvariant => NoticesFollowStages
<1> SUFFICES ASSUME NoticesInvariant, NEW m \in Members
             PROVE  OpenNotices(m) =
                IF ~Reachable(m) THEN {}
                ELSE {[to |-> m, request |-> r, stage |-> appointments[m].role] :
                          r \in {q \in Requests : stages[q] = appointments[m].role}}
    BY DEF NoticesFollowStages
<1>1. OpenNotices(m) = PendingNotices(m, appointments[m])
    BY DEF NoticesInvariant, Noticed
<1>2. Reachable(m) <=> appointments[m].active
    BY DEF Reachable, NoticesInvariant, OfficersInvariant, OfficersAreMembers
<1>3. CASE appointments[m].role = "admin"
    <2>1. \A q \in Requests : stages[q] # "admin"
        BY DEF NoticesInvariant, OfficersInvariant, OfficersTypeOK, Stages
    <2>2. QED
        BY <1>1, <1>2, <1>3, <2>1 DEF PendingNotices
<1>4. CASE appointments[m].role # "admin"
    BY <1>1, <1>2, <1>4 DEF PendingNotices, approvalStageForOfficer
<1>5. QED
    BY <1>3, <1>4

\* The appointments, notices and requests of the others stay as they read them.
LEMMA OthersReady ==
    ASSUME NoticesInvariant, NEW c \in Calls, NEW call, Serve(c, call), UNCHANGED stages,
           \A m \in Members : MemberRow(m) \notin calls[c].locks =>
               appointments'[m] = appointments[m] /\ OpenNotices(m)' = OpenNotices(m)
    PROVE  \A d \in Calls \ {c} : NoticesReady(d)'
<1> SUFFICES ASSUME NEW d \in Calls \ {c}
             PROVE  NoticesReady(d)'
    OBVIOUS
<1> DEFINE m == calls[d].member
<1>1. NoticesReady(d) /\ CallOK(calls[d], memberStatus, users) /\ MemberLocksApart
    BY DEF NoticesInvariant, OfficersInvariant
<1>2. calls'[d] = calls[d]
    BY DEF Serve, NoticesInvariant, OfficersInvariant, OfficersTypeOK
<1>3. CASE calls[d].op = "none" \/ (calls[d].op = "update" /\ calls[d].at = "locking")
    BY <1>1, <1>2, <1>3 DEF NoticesReady
<1>4. CASE ~(calls[d].op = "none" \/ (calls[d].op = "update" /\ calls[d].at = "locking"))
    <2> calls[d].op \in {"update", "insert"} /\ (calls[d].op = "update" => calls[d].at # "locking")
        BY <1>1, <1>4 DEF NoticesReady
    <2> m \in Members /\ MemberRow(m) \in calls[d].locks
        BY <1>1 DEF CallOK
    <2>1. PICK k \in Members : k = m /\ MemberRow(k) \in calls[d].locks
        OBVIOUS
    <2>2. MemberRow(k) \notin calls[c].locks
        BY <1>1, <2>1 DEF MemberLocksApart
    <2>3. appointments'[k] = appointments[k] /\ OpenNotices(k)' = OpenNotices(k)
        BY <2>1, <2>2
    <2>4. PendingNotices(k, calls[d].wanted) = PendingNotices(k, calls[d].wanted)'
        BY <1>2 DEF PendingNotices
    <2> DEFINE resolved == OpenNotices(k)
               added == PendingNotices(k, calls[d].wanted)
    <2>5. resolved' = resolved /\ added' = added
        BY <2>3, <2>4
    <2>6. /\ calls[d].op \in {"none", "update", "insert"}
          /\ calls[d].op = "update" /\ calls[d].at # "locking" => calls[d].found = appointments'[k]
          /\ calls[d].op = "update" /\ (calls[d].at # "committing" \/ calls[d].wanted = calls[d].found) =>
                calls[d].resolved = {} /\ calls[d].added = {}
          /\ (calls[d].op = "insert"
              \/ (calls[d].op = "update" /\ calls[d].at = "committing" /\ calls[d].wanted # calls[d].found)) =>
                calls[d].resolved = resolved' /\ calls[d].added = added'
        BY <1>1, <2>1, <2>3, <2>5 DEF NoticesReady
    <2>7. calls'[d].member = k
        BY <1>2, <2>1
    <2>8. QED
        BY <1>2, <2>6, <2>7 DEF NoticesReady
<1>5. QED
    BY <1>3, <1>4

\* A step that only moves a call on.
LEMMA NoticesStay ==
    ASSUME NoticesInvariant, OfficersInvariant', NEW c \in Calls, NEW call, UNCHANGED tables,
           Serve(c, call), NoticesReady(c)'
    PROVE  NoticesInvariant'
<1>1. \A m, wanted :
        OpenNotices(m)' = OpenNotices(m) /\ PendingNotices(m, wanted)' = PendingNotices(m, wanted)
    BY DEF OpenNotices, PendingNotices, tables
<1>2. \A d \in Calls \ {c} : NoticesReady(d)'
    BY <1>1, OthersReady DEF tables
<1>3. QED
    BY <1>1, <1>2 DEF NoticesInvariant, Noticed, tables

LEMMA NoticesRolledBack ==
    ASSUME NoticesInvariant, OfficersInvariant', NEW c \in Calls, Rollback(c)
    PROVE  NoticesInvariant'
<1>1. calls'[c] = IdleCall
    BY DEF Rollback, Serve, NoticesInvariant, OfficersInvariant, OfficersTypeOK
<1>2. NoticesReady(c)'
    BY <1>1 DEF NoticesReady, IdleCall
<1>3. QED
    BY <1>2, NoticesStay DEF Rollback

\* A call that has become one which is not yet committing.
LEMMA NotYetWriting ==
    ASSUME NoticesInvariant, OfficersInvariant', NEW c \in Calls, NEW call, UNCHANGED tables,
           Serve(c, call), call.op = "update", call.at # "committing",
           call.resolved = {}, call.added = {},
           call.at = "locking" \/ call.found = appointments[call.member]
    PROVE  NoticesInvariant'
<1>1. calls'[c] = call
    BY DEF Serve, NoticesInvariant, OfficersInvariant, OfficersTypeOK
<1>2. NoticesReady(c)'
    BY <1>1 DEF NoticesReady, tables
<1>3. QED
    BY <1>2, NoticesStay

LEMMA NoticesOfChange ==
    ASSUME NoticesInvariant, OfficersInvariant', NEW c \in Calls,
           scanOfficer(c) \/ countKetuaUtama(c) \/ writeOfficer(c)
    PROVE  NoticesInvariant'
<1>1. PICK m \in Members :
        /\ m = calls[c].member /\ calls[c] \in CallRows /\ NoticesReady(c)
        /\ calls[c].op = "update"
    BY DEF NoticesInvariant, OfficersInvariant, OfficersTypeOK, CallOK, scanOfficer,
           countKetuaUtama, writeOfficer, At
<1>2. CASE Rollback(c)
    BY <1>2, NoticesRolledBack
<1>3. CASE ~Rollback(c) /\ scanOfficer(c)
    <2> DEFINE call == [calls[c] EXCEPT !.at = "counting", !.locks = RowsToLock(m),
                                        !.found = appointments[m]]
    <2>1. Serve(c, call) /\ UNCHANGED tables /\ calls[c].at = "locking"
        BY <1>1, <1>3 DEF scanOfficer, At
    <2>2. /\ call.op = "update" /\ call.at = "counting" /\ call.member = m
          /\ call.found = appointments[m]
          /\ call.resolved = calls[c].resolved /\ call.added = calls[c].added
        BY <1>1 DEF CallRows
    <2> HIDE DEF call
    <2>3. call.resolved = {} /\ call.added = {}
        BY <1>1, <2>1, <2>2 DEF NoticesReady
    <2>4. QED
        BY <2>1, <2>2, <2>3, NotYetWriting
<1>4. CASE ~Rollback(c) /\ countKetuaUtama(c)
    <2> DEFINE call == [calls[c] EXCEPT !.at = "writing"]
    <2>1. Serve(c, call) /\ UNCHANGED tables /\ calls[c].at = "counting"
        BY <1>4 DEF countKetuaUtama, At
    <2>2. /\ call.op = "update" /\ call.at = "writing" /\ call.member = m
          /\ call.found = calls[c].found
          /\ call.resolved = calls[c].resolved /\ call.added = calls[c].added
        BY <1>1 DEF CallRows
    <2> HIDE DEF call
    <2>3. call.resolved = {} /\ call.added = {} /\ call.found = appointments[m]
        BY <1>1, <2>1, <2>2 DEF NoticesReady
    <2>4. QED
        BY <2>1, <2>2, <2>3, NotYetWriting
<1>5. CASE ~Rollback(c) /\ writeOfficer(c)
    <2> DEFINE wanted == calls[c].wanted
               call == [calls[c] EXCEPT !.at = "committing"]
               sync == [call EXCEPT !.resolved = OpenNotices(m), !.added = PendingNotices(m, wanted)]
    <2>1. /\ UNCHANGED tables /\ calls[c].at = "writing"
          /\ Serve(c, IF wanted = calls[c].found THEN call ELSE sync)
        BY <1>1, <1>5 DEF writeOfficer, At, syncOfficerNotifications
    <2>2. /\ calls[c].found = appointments[m]
          /\ calls[c].resolved = {} /\ calls[c].added = {}
        BY <1>1, <2>1 DEF NoticesReady
    <2>3. PICK now : now = IF wanted = calls[c].found THEN call ELSE sync
        OBVIOUS
    <2>4. /\ now.op = "update" /\ now.at = "committing" /\ now.member = m
          /\ now.found = calls[c].found /\ now.wanted = wanted
          /\ IF wanted = calls[c].found THEN now.resolved = {} /\ now.added = {}
             ELSE now.resolved = OpenNotices(m) /\ now.added = PendingNotices(m, wanted)
        <3>1. CASE wanted = calls[c].found
            BY <1>1, <2>2, <2>3, <3>1 DEF CallRows
        <3>2. CASE wanted # calls[c].found
            BY <1>1, <2>3, <3>2 DEF CallRows
        <3>3. QED
            BY <3>1, <3>2
    <2>5. Serve(c, now)
        BY <2>1, <2>3
    <2>6. calls'[c] = now
        BY <2>5 DEF Serve, NoticesInvariant, OfficersInvariant, OfficersTypeOK
    <2>7. OpenNotices(m)' = OpenNotices(m) /\ PendingNotices(m, now.wanted)' = PendingNotices(m, now.wanted)
          /\ appointments'[m] = appointments[m]
        BY <2>1 DEF tables, OpenNotices, PendingNotices
    <2> HIDE DEF call, sync
    <2>8. NoticesReady(c)'
        <3>1. now.found = appointments'[m]
            BY <2>2, <2>4, <2>7
        <3>2. now.wanted = now.found => now.resolved = {} /\ now.added = {}
            BY <2>4
        <3>3. now.wanted # now.found =>
                now.resolved = OpenNotices(m)' /\ now.added = PendingNotices(m, now.wanted)'
            BY <2>4, <2>7
        <3>4. QED
            BY <2>4, <2>6, <3>1, <3>2, <3>3 DEF NoticesReady
    <2>9. QED
        BY <2>1, <2>5, <2>8, NoticesStay
<1>6. QED
    BY <1>2, <1>3, <1>4, <1>5

\* The changed officer's notices are those of the new appointment; the others keep
\* theirs.
LEMMA NoticesCommitted ==
    ASSUME NoticesInvariant, OfficersInvariant', NEW c \in Calls,
           updateOfficerByID(c) \/ insertOfficer(c)
    PROVE  NoticesInvariant'
<1> DEFINE wanted == calls[c].wanted
<1>1. PICK m \in Members :
        /\ m = calls[c].member /\ calls[c] \in CallRows /\ NoticesReady(c)
        /\ calls[c].op = "insert" \/ (calls[c].op = "update" /\ calls[c].at = "committing")
        /\ CallOK(calls[c], memberStatus, users)
    BY DEF NoticesInvariant, OfficersInvariant, OfficersTypeOK, CallOK, updateOfficerByID,
           insertOfficer, At
<1>2. MemberRow(m) \in calls[c].locks
    BY <1>1 DEF CallOK
<1>3. /\ appointments' = [appointments EXCEPT ![m] = wanted]
      /\ notices' = (notices \ calls[c].resolved) \cup calls[c].added
      /\ users' = users \/ users' = [users EXCEPT ![m] = IF @.exists THEN @ ELSE NewUser]
      /\ Serve(c, IdleCall) /\ UNCHANGED <<memberStatus, stages>>
    BY <1>1 DEF updateOfficerByID, insertOfficer
<1>4. \A a, k : PendingNotices(k, a)' = PendingNotices(k, a)
    BY <1>3 DEF PendingNotices
<1>5. \A n \in PendingNotices(m, wanted) : n.to = m
    BY DEF PendingNotices
<1>6. /\ OpenNotices(m)' = PendingNotices(m, wanted)
      /\ \A k \in Members \ {m} : OpenNotices(k)' = OpenNotices(k)
    <2>1. CASE calls[c].op = "update" /\ wanted = calls[c].found
        <3>1. calls[c].resolved = {} /\ calls[c].added = {} /\ wanted = appointments[m]
            BY <1>1, <2>1 DEF NoticesReady
        <3>2. notices' = notices
            BY <1>3, <3>1
        <3>3. OpenNotices(m) = PendingNotices(m, wanted)
            BY <3>1 DEF NoticesInvariant, Noticed
        <3>4. QED
            BY <3>2, <3>3 DEF OpenNotices
    <2>2. CASE ~(calls[c].op = "update" /\ wanted = calls[c].found)
        <3>1. calls[c].resolved = OpenNotices(m) /\ calls[c].added = PendingNotices(m, wanted)
            BY <1>1, <2>2 DEF NoticesReady
        <3>2. QED
            BY <1>3, <1>5, <3>1 DEF OpenNotices
    <2>3. QED
        BY <2>1, <2>2
<1>7. \A k \in Members : OpenNotices(k)' = PendingNotices(k, appointments'[k])
    <2> SUFFICES ASSUME NEW k \in Members
                 PROVE  OpenNotices(k)' = PendingNotices(k, appointments'[k])
        OBVIOUS
    <2>1. CASE k = m
        BY <1>3, <1>6, <2>1 DEF NoticesInvariant, OfficersInvariant, OfficersTypeOK
    <2>2. CASE k # m
        BY <1>3, <1>6, <2>2 DEF NoticesInvariant, OfficersInvariant, OfficersTypeOK, Noticed
    <2>3. QED
        BY <2>1, <2>2
<1>8. Noticed'
    BY <1>4, <1>7 DEF Noticed
<1>9. \A d \in Calls \ {c} : NoticesReady(d)'
    <2>1. \A k \in Members : MemberRow(k) \notin calls[c].locks =>
            appointments'[k] = appointments[k] /\ OpenNotices(k)' = OpenNotices(k)
        BY <1>2, <1>3, <1>6 DEF NoticesInvariant, OfficersInvariant, OfficersTypeOK
    <2>2. QED
        BY <1>3, <2>1, OthersReady
<1>10. NoticesReady(c)'
    <2>1. calls'[c] = IdleCall
        BY <1>3 DEF Serve, NoticesInvariant, OfficersInvariant, OfficersTypeOK
    <2>2. QED
        BY <2>1 DEF NoticesReady, IdleCall
<1>11. \A k \in Members :
        memberStatus'[k] = "active" /\ (users'[k].exists => users'[k].active)
    BY <1>3 DEF NoticesInvariant, OfficersInvariant, OfficersTypeOK, NewUser
<1>12. QED
    BY <1>8, <1>9, <1>10, <1>11 DEF NoticesInvariant

LEMMA NoticesOfBegun ==
    ASSUME NoticesInvariant, OfficersInvariant', NEW c \in Calls, NEW m \in Members,
           OfficerStep(c, m)
    PROVE  NoticesInvariant'
<1>1. ASSUME NEW wanted \in [role : Roles, active : BOOLEAN], lockAppointment(c, m, wanted)
      PROVE  NoticesInvariant'
    <2> DEFINE call == [IdleCall EXCEPT !.op = "update", !.at = "locking", !.member = m,
                                        !.locks = {<<"appointment", m>>}, !.wanted = wanted]
    <2>1. Serve(c, call) /\ UNCHANGED tables
        BY <1>1 DEF lockAppointment
    <2>2. call.op = "update" /\ call.at = "locking" /\ call.resolved = {} /\ call.added = {}
        BY DEF IdleCall
    <2> HIDE DEF call
    <2>3. QED
        BY <2>1, <2>2, NotYetWriting
<1>2. ASSUME NEW role \in Roles, lockMember(c, m, role)
      PROVE  NoticesInvariant'
    <2> DEFINE wanted == [role |-> role, active |-> TRUE]
               call == syncOfficerNotifications(
                           [IdleCall EXCEPT !.op = "insert", !.at = "committing", !.member = m,
                                !.locks = {<<"member", m>>}, !.wanted = wanted], m, wanted)
    <2>1. Serve(c, call) /\ UNCHANGED tables
        BY <1>2 DEF lockMember
    <2>2. /\ call.op = "insert" /\ call.member = m /\ call.wanted = wanted
          /\ call.resolved = OpenNotices(m) /\ call.added = PendingNotices(m, wanted)
        BY DEF syncOfficerNotifications, IdleCall
    <2>3. PICK now : now = call
        OBVIOUS
    <2> HIDE DEF call, wanted
    <2>4. calls'[c] = now
        BY <2>1, <2>3 DEF Serve, NoticesInvariant, OfficersInvariant, OfficersTypeOK
    <2>5. OpenNotices(m)' = OpenNotices(m) /\ PendingNotices(m, now.wanted)' = PendingNotices(m, now.wanted)
        BY <2>1 DEF tables, OpenNotices, PendingNotices
    <2>6. NoticesReady(c)'
        BY <2>2, <2>3, <2>4, <2>5 DEF NoticesReady
    <2>7. QED
        BY <2>1, <2>6, NoticesStay
<1>3. QED
    BY <1>1, <1>2 DEF OfficerStep

\* Nothing that the notices depend on has changed.
LEMMA NothingNoticed ==
    ASSUME NoticesInvariant, UNCHANGED <<appointments, stages, notices, calls>>
    PROVE  Noticed' /\ \A c \in Calls : NoticesReady(c)'
<1>1. \A k, a : OpenNotices(k)' = OpenNotices(k) /\ PendingNotices(k, a)' = PendingNotices(k, a)
    BY DEF OpenNotices, PendingNotices
<1>2. Noticed'
    BY <1>1 DEF NoticesInvariant, Noticed
<1>3. ASSUME NEW c \in Calls
      PROVE  NoticesReady(c)'
    <2>1. PICK call, k : call = calls[c] /\ k = call.member
        OBVIOUS
    <2>2. calls'[c] = call /\ NoticesReady(c) /\ appointments' = appointments
        BY <2>1 DEF NoticesInvariant
    <2>3. OpenNotices(k)' = OpenNotices(k)
          /\ PendingNotices(k, call.wanted)' = PendingNotices(k, call.wanted)
        BY <1>1
    <2>4. /\ call.op \in {"none", "update", "insert"}
          /\ call.op = "update" /\ call.at # "locking" => call.found = appointments'[k]
          /\ call.op = "update" /\ (call.at # "committing" \/ call.wanted = call.found) =>
                call.resolved = {} /\ call.added = {}
          /\ (call.op = "insert"
              \/ (call.op = "update" /\ call.at = "committing" /\ call.wanted # call.found)) =>
                call.resolved = OpenNotices(k)' /\ call.added = PendingNotices(k, call.wanted)'
        BY <2>1, <2>2, <2>3 DEF NoticesReady
    <2>5. QED
        BY <2>1, <2>2, <2>4 DEF NoticesReady
<1>4. QED
    BY <1>2, <1>3

LEMMA NoticesOfReset ==
    ASSUME NoticesInvariant, OfficersInvariant', NEW m \in Members, ResetStep(m)
    PROVE  NoticesInvariant'
<1>1. /\ UNCHANGED <<memberStatus, appointments, stages, notices, calls>>
      /\ \E b \in BOOLEAN : users' = [users EXCEPT ![m].mustChange = b]
    BY DEF ResetStep, resetOfficerPasswordByID, resetMemberPassword, changePassword
<1>2. \A k \in Members : users'[k].exists = users[k].exists /\ users'[k].active = users[k].active
    BY <1>1 DEF NoticesInvariant, OfficersInvariant, OfficersTypeOK
<1>3. Noticed' /\ \A c \in Calls : NoticesReady(c)'
    BY <1>1, NothingNoticed
<1>4. QED
    BY <1>1, <1>2, <1>3 DEF NoticesInvariant

\* An approved request leaves the notices of its stage and takes those of the next.
LEMMA NoticesOfRequest ==
    ASSUME NoticesInvariant, OfficersInvariant', DecidedMeanwhile = FALSE, NEW r \in Requests,
           submit(r) \/ \E approved \in BOOLEAN : decide(r, approved)
    PROVE  NoticesInvariant'
<1>1. \A c \in Calls : calls[c] = IdleCall
    BY DEF submit, decide, MayMove
<1>2. UNCHANGED <<memberStatus, users, appointments, audits, calls>>
    BY DEF submit, decide
<1>3. PICK next \in Stages \cup {"closed"} :
        /\ stages' = [stages EXCEPT ![r] = next]
        /\ notices' = {n \in notices : n.request # r}
                \cup (IF next = "closed" THEN {} ELSE StageNotices(r, next))
    <2>1. CASE submit(r)
        <3>1. \A n \in notices : n.request # r
            <4> SUFFICES ASSUME NEW n \in notices, n.request = r
                         PROVE  FALSE
                OBVIOUS
            <4>1. n.to \in Members /\ n \in OpenNotices(n.to)
                BY DEF NoticesInvariant, OfficersInvariant, OfficersTypeOK, Notices, OpenNotices
            <4>2. PICK k \in Members : k = n.to /\ n \in PendingNotices(k, appointments[k])
                BY <4>1 DEF NoticesInvariant, Noticed
            <4>3. n.stage \in Stages /\ stages[n.request] = n.stage
                BY <4>2 DEF PendingNotices, NoticesInvariant, OfficersInvariant, OfficersTypeOK, Notices
            <4>4. QED
                BY <2>1, <4>3 DEF submit, Stages
        <3>2. "manager" \in Stages
            BY DEF Stages
        <3>3. notices = {n \in notices : n.request # r}
            BY <3>1
        <3>4. QED
            BY <2>1, <3>2, <3>3 DEF submit, Stages
    <2>2. ASSUME NEW approved \in BOOLEAN, decide(r, approved)
          PROVE  \E next \in Stages \cup {"closed"} :
                    /\ stages' = [stages EXCEPT ![r] = next]
                    /\ notices' = {n \in notices : n.request # r}
                            \cup (IF next = "closed" THEN {} ELSE StageNotices(r, next))
        <3> DEFINE then == IF approved THEN nextApprovalStage(stages[r]) ELSE NoStage
        <3>1. then \in Stages \cup {NoStage} /\ NoStage \notin Stages /\ "closed" \notin Stages
            BY <2>2, NextStage DEF decide, NoStage, Stages
        <3>2. /\ stages' = [stages EXCEPT ![r] = IF then = NoStage THEN "closed" ELSE then]
              /\ notices' = IF then = NoStage THEN {n \in notices : n.request # r}
                            ELSE {n \in notices : n.request # r} \cup StageNotices(r, then)
            BY <2>2 DEF decide
        <3> HIDE DEF then
        <3>3. CASE then = NoStage
            BY <3>2, <3>3
        <3>4. CASE then # NoStage
            BY <3>1, <3>2, <3>4
        <3>5. QED
            BY <3>3, <3>4
    <2>3. QED
        BY <2>1, <2>2
<1>4. ASSUME NEW m \in Members
      PROVE  OpenNotices(m)' = PendingNotices(m, appointments[m])'
    <2> DEFINE a == appointments[m]
               stage == approvalStageForOfficer(a.role)
               kept == {n \in OpenNotices(m) : n.request # r}
               new == IF a.active /\ a.role = next THEN {[to |-> m, request |-> r, stage |-> next]}
                      ELSE {}
    <2>1. Reachable(m) <=> a.active
        BY DEF Reachable, NoticesInvariant, OfficersInvariant, OfficersAreMembers
    <2>2. a.role # "closed"
        BY OfficersAssumption DEF NoticesInvariant, OfficersInvariant, OfficersTypeOK, Appointments,
            NoAppointment, DecidingRoles
    <2>3. {n \in StageNotices(r, next) : n.to = m} = IF next = "closed" THEN {} ELSE new
        BY <2>1, <2>2 DEF StageNotices
    <2>4. OpenNotices(m)' = kept \cup new
        <3>1. CASE next = "closed"
            BY <1>3, <2>2, <3>1 DEF OpenNotices
        <3>2. CASE next # "closed"
            BY <1>3, <2>3, <3>2 DEF OpenNotices
        <3>3. QED
            BY <3>1, <3>2
    <2>5. OpenNotices(m) = PendingNotices(m, a)
        BY DEF NoticesInvariant, Noticed
    <2>6. CASE ~a.active
        BY <1>2, <2>4, <2>5, <2>6 DEF PendingNotices
    <2>7. CASE a.active /\ a.role = "admin"
        BY <1>2, <1>3, <2>4, <2>5, <2>7 DEF PendingNotices, Stages
    <2>8. CASE a.active /\ a.role # "admin"
        <3>1. OpenNotices(m) = {[to |-> m, request |-> q, stage |-> a.role] :
                                    q \in {p \in Requests : stages[p] = a.role}}
            BY <2>5, <2>8 DEF PendingNotices, approvalStageForOfficer
        <3>2. PendingNotices(m, a)' = {[to |-> m, request |-> q, stage |-> a.role] :
                                    q \in {p \in Requests : stages'[p] = a.role}}
            BY <1>2, <2>8 DEF PendingNotices, approvalStageForOfficer
        <3>3. \A p \in Requests : stages'[p] = IF p = r THEN next ELSE stages[p]
            BY <1>3 DEF NoticesInvariant, OfficersInvariant, OfficersTypeOK
        <3>4. new = IF a.role = next THEN {[to |-> m, request |-> r, stage |-> next]} ELSE {}
            BY <2>8
        <3>5. QED
            BY <2>4, <3>1, <3>2, <3>3, <3>4
    <2>9. QED
        BY <2>6, <2>7, <2>8
<1>5. \A c \in Calls : NoticesReady(c)'
    BY <1>1, <1>2 DEF NoticesReady, IdleCall
<1>6. QED
    BY <1>2, <1>4, <1>5 DEF NoticesInvariant, Noticed

LEMMA NoticesInvariantNext ==
    ASSUME NoticesInvariant, [OfficersNext]_officersVars, OnlyOfficers
    PROVE  NoticesInvariant'
<1>1. OfficersInvariant'
    BY OfficersInvariantNext DEF NoticesInvariant
<1>2. ASSUME NEW c \in Calls, Proceed(c) \/ breakDeadlock(c)
      PROVE  NoticesInvariant'
    <2>1. calls[c].op \in {"none", "update", "insert"}
        BY DEF NoticesInvariant, NoticesReady
    <2>2. CASE breakDeadlock(c)
        BY <1>1, <2>2, NoticesRolledBack DEF breakDeadlock
    <2>3. CASE scanOfficer(c) \/ countKetuaUtama(c) \/ writeOfficer(c)
        BY <1>1, <2>3, NoticesOfChange
    <2>4. CASE updateOfficerByID(c) \/ insertOfficer(c)
        BY <1>1, <2>4, NoticesCommitted
    <2>5. QED
        BY <1>2, <2>1, <2>2, <2>3, <2>4
        DEF Proceed, checkLastKetuaUtama, updateMemberUser, createMemberUser, countBeforeEnding,
            suspendOfficer, endMembership, At
<1>3. ASSUME NEW c \in Calls, NEW m \in Members, OfficerStep(c, m) \/ UserStep(c, m)
      PROVE  NoticesInvariant'
    BY <1>1, <1>3, NoticesOfBegun DEF UserStep, OnlyOfficers
<1>4. CASE \E m \in Members : ResetStep(m)
    BY <1>1, <1>4, NoticesOfReset
<1>5. CASE \E r \in Requests : submit(r) \/ \E approved \in BOOLEAN : decide(r, approved)
    BY <1>1, <1>5, NoticesOfRequest DEF OnlyOfficers
<1>6. CASE UNCHANGED officersVars
    BY <1>1, <1>6, NothingNoticed DEF officersVars, NoticesInvariant
<1>7. QED
    BY <1>2, <1>3, <1>4, <1>5, <1>6 DEF OfficersNext, OnlyOfficers

(***************************************************************************)
(* While users and memberships stay, every officer has an open notice of   *)
(* exactly the requests that wait at the stage of the role, although two   *)
(* officers are appointed or changed at once, and a call reads requests    *)
(* and notices long before it commits (officers.go:341, approvals.go:178). *)
(***************************************************************************)
THEOREM NoticesFollowStagesHolds ==
    ASSUME OnlyOfficers
    PROVE  OfficersSpec => []NoticesFollowStages
<1>1. OfficersInit => NoticesInvariant
    <2> SUFFICES ASSUME OfficersInit
                 PROVE  NoticesInvariant
        OBVIOUS
    <2>1. OfficersInvariant
        BY OfficersInvariantInit
    <2>2. /\ memberStatus = [m \in Members |-> "active"] /\ stages = [r \in Requests |-> "none"]
          /\ notices = {} /\ calls = [c \in Calls |-> IdleCall]
          /\ \A m \in Members : users[m].exists => users[m].active
        BY DEF OfficersInit, NewUser, NoUser
    <2>3. \A c \in Calls : NoticesReady(c)
        BY <2>2 DEF NoticesReady, IdleCall
    <2>4. Noticed
        <3> SUFFICES ASSUME NEW m \in Members
                     PROVE  OpenNotices(m) = PendingNotices(m, appointments[m])
            BY DEF Noticed
        <3>1. OpenNotices(m) = {}
            BY <2>2 DEF OpenNotices
        <3>2. appointments[m].active => approvalStageForOfficer(appointments[m].role) # "none"
            BY <2>1, OfficersAssumption DEF OfficersInvariant, OfficersTypeOK, Appointments,
                NoAppointment, approvalStageForOfficer, DecidingRoles
        <3>3. QED
            BY <2>2, <3>1, <3>2 DEF PendingNotices
    <2>5. QED
        BY <2>1, <2>2, <2>3, <2>4 DEF NoticesInvariant
<1>2. NoticesInvariant /\ [OfficersNext]_officersVars => NoticesInvariant'
    BY NoticesInvariantNext
<1>3. QED
    BY <1>1, <1>2, NoticedIsFollowing, PTL DEF OfficersSpec

-----------------------------------------------------------------------------
(***************************************************************************)
(* Who can sign in.  As long as only users are changed, a call that        *)
(* switches one off has the appointments of all Ketua Utama.               *)
(***************************************************************************)
OnlyUsers == Operations \subseteq {"user", "reset"}

\* Once counted, another Ketua Utama can sign in until the user is switched off.
SwitchOK(c) ==
    /\ calls[c].op \in {"none", "switch", "account"}
    /\ calls[c].op = "switch" => calls[c].locks = KetuaUtamaRows
    /\ At(c, "switch", "writing") =>
          \E k \in ActiveKetuaUtamas : k # calls[c].member /\ users[k].active

SwitchesInvariant ==
    /\ OfficersInvariant
    /\ \A c \in Calls : SwitchOK(c)
    /\ \A c, d \in Calls : calls[c].op = "switch" /\ calls[d].op = "switch" => c = d
    /\ AKetuaUtamaSignsIn

\* Only the switch of the call, if there is one, may be the end of somebody's user.
LEMMA UsersStay ==
    ASSUME SwitchesInvariant, OfficersInvariant', NEW c \in Calls, NEW call, Serve(c, call),
           UNCHANGED <<memberStatus, appointments>>,
           \A k \in Members : users[k].active => users'[k].active,
           call = IdleCall \/ (call.op = "account" /\ call.locks = {})
    PROVE  SwitchesInvariant'
<1>1. /\ calls'[c] = call
      /\ \A d \in Calls \ {c} : calls'[d] = calls[d]
    BY DEF Serve, SwitchesInvariant, OfficersInvariant, OfficersTypeOK
<1>2. KetuaUtamaRows' = KetuaUtamaRows /\ ActiveKetuaUtamas' = ActiveKetuaUtamas
    BY DEF KetuaUtamaRows, ActiveKetuaUtamas, IsKetuaUtama
<1>3. \A k \in ActiveKetuaUtamas : users[k].active => users'[k].active
    BY DEF ActiveKetuaUtamas
<1>4. call.op \in {"none", "account"}
    BY DEF IdleCall
<1>5. SwitchOK(c)'
    BY <1>1, <1>4 DEF SwitchOK, At
<1>6. ASSUME NEW d \in Calls \ {c}
      PROVE  SwitchOK(d)'
    BY <1>1, <1>2, <1>3 DEF SwitchesInvariant, SwitchOK, At
<1>7. AKetuaUtamaSignsIn'
    BY <1>2, <1>3 DEF SwitchesInvariant, AKetuaUtamaSignsIn
<1>8. QED
    BY <1>1, <1>4, <1>5, <1>6, <1>7 DEF SwitchesInvariant

LEMMA Switched ==
    ASSUME SwitchesInvariant, OfficersInvariant', NEW c \in Calls,
           checkLastKetuaUtama(c) \/ updateMemberUser(c)
    PROVE  SwitchesInvariant'
<1>1. /\ calls[c] \in CallRows /\ SwitchOK(c) /\ calls[c].op = "switch"
      /\ \A d \in Calls \ {c} : calls[d].op # "switch"
      /\ UNCHANGED <<memberStatus, appointments>>
    BY DEF SwitchesInvariant, OfficersInvariant, OfficersTypeOK, checkLastKetuaUtama,
           updateMemberUser, At, Rollback, tables
<1>2. KetuaUtamaRows' = KetuaUtamaRows /\ ActiveKetuaUtamas' = ActiveKetuaUtamas
    BY <1>1 DEF KetuaUtamaRows, ActiveKetuaUtamas, IsKetuaUtama
<1>3. CASE Rollback(c)
    BY <1>3, UsersStay DEF Rollback, tables
<1>4. CASE ~Rollback(c) /\ checkLastKetuaUtama(c)
    <2> DEFINE m == calls[c].member
               call == [calls[c] EXCEPT !.at = "writing"]
    <2>1. /\ Serve(c, call) /\ UNCHANGED tables
          /\ \E k \in ActiveKetuaUtamas : users[k].active /\ k # m
        BY <1>4 DEF checkLastKetuaUtama, SwitchesInvariant, AKetuaUtamaSignsIn
    <2>2. call.op = "switch" /\ call.locks = calls[c].locks /\ call.member = m
        BY <1>1 DEF CallRows
    <2>3. calls' = [calls EXCEPT ![c] = call]
        BY <2>1 DEF Serve
    <2> HIDE DEF call
    <2>4. calls'[c] = call /\ \A d \in Calls \ {c} : calls'[d] = calls[d]
        BY <2>3 DEF SwitchesInvariant, OfficersInvariant, OfficersTypeOK
    <2>5. users' = users
        BY <2>1 DEF tables
    <2>6. SwitchOK(c)'
        BY <1>1, <1>2, <2>1, <2>2, <2>4, <2>5 DEF SwitchOK, At
    <2>7. ASSUME NEW d \in Calls \ {c}
          PROVE  SwitchOK(d)'
        BY <1>2, <2>4, <2>5 DEF SwitchesInvariant, SwitchOK, At
    <2>8. AKetuaUtamaSignsIn'
        BY <1>2, <2>5 DEF SwitchesInvariant, AKetuaUtamaSignsIn
    <2>9. QED
        BY <1>1, <2>4, <2>6, <2>7, <2>8 DEF SwitchesInvariant
<1>5. CASE updateMemberUser(c)
    <2> DEFINE m == calls[c].member
    <2>1. /\ users' = [users EXCEPT ![m].active = FALSE] /\ Serve(c, IdleCall)
          /\ At(c, "switch", "writing")
        BY <1>5 DEF updateMemberUser
    <2>2. PICK k \in ActiveKetuaUtamas : k # m /\ users[k].active
        BY <1>1, <2>1 DEF SwitchOK
    <2>3. users'[k].active
        BY <2>1, <2>2 DEF ActiveKetuaUtamas, SwitchesInvariant, OfficersInvariant, OfficersTypeOK
    <2>4. AKetuaUtamaSignsIn'
        BY <1>2, <2>3 DEF AKetuaUtamaSignsIn
    <2>5. calls'[c] = IdleCall /\ \A d \in Calls \ {c} : calls'[d] = calls[d]
        BY <2>1 DEF Serve, SwitchesInvariant, OfficersInvariant, OfficersTypeOK
    <2>6. \A d \in Calls : SwitchOK(d)'
        BY <1>1, <2>5 DEF SwitchesInvariant, SwitchOK, At, IdleCall
    <2>7. QED
        BY <2>4, <2>5, <2>6 DEF SwitchesInvariant, IdleCall
<1>6. QED
    BY <1>3, <1>4, <1>5

\* A second call waits for the appointment of a Ketua Utama, and there is one.
LEMMA SwitchBegun ==
    ASSUME SwitchesInvariant, OfficersInvariant', NEW c \in Calls, NEW m \in Members,
           lockKetuaUtamas(c, m)
    PROVE  SwitchesInvariant'
<1> DEFINE call == [IdleCall EXCEPT !.op = "switch", !.at = "checking", !.member = m,
                                    !.locks = KetuaUtamaRows]
<1>1. calls' = [calls EXCEPT ![c] = call] /\ UNCHANGED tables /\ Free(c, KetuaUtamaRows)
    BY DEF lockKetuaUtamas, Serve
<1>2. call.op = "switch" /\ call.at = "checking" /\ call.locks = KetuaUtamaRows
    BY DEF IdleCall
<1> HIDE DEF call
<1>3. calls'[c] = call /\ \A d \in Calls \ {c} : calls'[d] = calls[d]
    BY <1>1 DEF SwitchesInvariant, OfficersInvariant, OfficersTypeOK
<1>4. /\ KetuaUtamaRows' = KetuaUtamaRows /\ ActiveKetuaUtamas' = ActiveKetuaUtamas
      /\ users' = users
    BY <1>1 DEF KetuaUtamaRows, ActiveKetuaUtamas, IsKetuaUtama, tables
<1>5. KetuaUtamaRows # {}
    BY DEF SwitchesInvariant, AKetuaUtamaSignsIn, ActiveKetuaUtamas, KetuaUtamaRows
<1>6. \A d \in Calls \ {c} : calls[d].op # "switch"
    BY <1>1, <1>5 DEF Free, LockedByOthers, SwitchesInvariant, SwitchOK
<1>7. SwitchOK(c)'
    BY <1>2, <1>3, <1>4 DEF SwitchOK, At
<1>8. ASSUME NEW d \in Calls \ {c}
      PROVE  SwitchOK(d)'
    BY <1>3, <1>4 DEF SwitchesInvariant, SwitchOK, At
<1>9. AKetuaUtamaSignsIn'
    BY <1>4 DEF SwitchesInvariant, AKetuaUtamaSignsIn
<1>10. QED
    BY <1>3, <1>6, <1>7, <1>8, <1>9 DEF SwitchesInvariant

\* A step that changes users or requests and no call.
LEMMA NothingSwitched ==
    ASSUME SwitchesInvariant, OfficersInvariant', UNCHANGED <<memberStatus, appointments, calls>>,
           \A k \in Members : users[k].active => users'[k].active
    PROVE  SwitchesInvariant'
<1>1. KetuaUtamaRows' = KetuaUtamaRows /\ ActiveKetuaUtamas' = ActiveKetuaUtamas
    BY DEF KetuaUtamaRows, ActiveKetuaUtamas, IsKetuaUtama
<1>2. \A k \in ActiveKetuaUtamas : users[k].active => users'[k].active
    BY DEF ActiveKetuaUtamas
<1>3. ASSUME NEW c \in Calls
      PROVE  SwitchOK(c)'
    BY <1>1, <1>2 DEF SwitchesInvariant, SwitchOK, At
<1>4. AKetuaUtamaSignsIn'
    BY <1>1, <1>2 DEF SwitchesInvariant, AKetuaUtamaSignsIn
<1>5. QED
    BY <1>3, <1>4 DEF SwitchesInvariant

LEMMA SwitchesInvariantNext ==
    ASSUME SwitchesInvariant, [OfficersNext]_officersVars, OnlyUsers
    PROVE  SwitchesInvariant'
<1>1. OfficersInvariant'
    BY OfficersInvariantNext DEF SwitchesInvariant
<1> USE <1>1
<1>2. users \in [Members -> [active : BOOLEAN, mustChange : BOOLEAN, exists : BOOLEAN]]
    BY DEF SwitchesInvariant, OfficersInvariant, OfficersTypeOK
<1>3. ASSUME NEW c \in Calls, Proceed(c) \/ breakDeadlock(c)
      PROVE  SwitchesInvariant'
    <2>1. calls[c].op \in {"none", "switch", "account"}
        BY DEF SwitchesInvariant, SwitchOK
    <2>2. CASE Rollback(c)
        BY <2>2, UsersStay DEF Rollback, tables
    <2>3. CASE checkLastKetuaUtama(c) \/ updateMemberUser(c)
        BY <2>3, Switched
    <2>4. CASE ~Rollback(c) /\ createMemberUser(c)
        <3>1. /\ users' = [users EXCEPT ![calls[c].member] = NewUser]
              /\ Serve(c, IdleCall) /\ UNCHANGED <<memberStatus, appointments>>
            BY <2>4 DEF createMemberUser
        <3>2. \A k \in Members : users[k].active => users'[k].active
            BY <1>2, <3>1 DEF NewUser
        <3>3. QED
            BY <3>1, <3>2, UsersStay
    <2>5. QED
        BY <1>3, <2>1, <2>2, <2>3, <2>4
        DEF Proceed, breakDeadlock, scanOfficer, countKetuaUtama, writeOfficer, updateOfficerByID,
            insertOfficer, countBeforeEnding, suspendOfficer, endMembership, At
<1>4. ASSUME NEW c \in Calls, NEW m \in Members, OfficerStep(c, m) \/ UserStep(c, m)
      PROVE  SwitchesInvariant'
    <2>1. CASE lockKetuaUtamas(c, m)
        BY <2>1, SwitchBegun
    <2>2. CASE lookUpMemberUser(c, m)
        <3> DEFINE call == [IdleCall EXCEPT !.op = "account", !.member = m,
                                !.at = IF users[m].exists THEN "updating" ELSE "inserting"]
        <3>1. Serve(c, call) /\ UNCHANGED tables
            BY <2>2 DEF lookUpMemberUser
        <3>2. call.op = "account" /\ call.locks = {}
            BY DEF IdleCall
        <3> HIDE DEF call
        <3>3. QED
            BY <3>1, <3>2, UsersStay DEF tables
    <2>3. CASE enableMemberUser(m)
        <3>1. \A k \in Members : users[k].active => users'[k].active
            BY <1>2, <2>3 DEF enableMemberUser
        <3>2. QED
            BY <2>3, <3>1, NothingSwitched DEF enableMemberUser
    <2>4. QED
        BY <1>4, <2>1, <2>2, <2>3 DEF OfficerStep, UserStep, OnlyUsers
<1>5. ASSUME NEW m \in Members, ResetStep(m)
      PROVE  SwitchesInvariant'
    <2>1. /\ UNCHANGED <<memberStatus, appointments, calls>>
          /\ \E b \in BOOLEAN : users' = [users EXCEPT ![m].mustChange = b]
        BY <1>5 DEF ResetStep, resetOfficerPasswordByID, resetMemberPassword, changePassword
    <2>2. \A k \in Members : users[k].active => users'[k].active
        BY <1>2, <2>1
    <2>3. QED
        BY <2>1, <2>2, NothingSwitched
<1>6. CASE \E r \in Requests : submit(r) \/ \E approved \in BOOLEAN : decide(r, approved)
    <2>1. UNCHANGED <<memberStatus, users, appointments, calls>>
        BY <1>6 DEF submit, decide
    <2>2. QED
        BY <2>1, NothingSwitched
<1>7. CASE UNCHANGED officersVars
    BY <1>7, NothingSwitched DEF officersVars
<1>8. QED
    BY <1>3, <1>4, <1>5, <1>6, <1>7 DEF OfficersNext, OnlyUsers

(***************************************************************************)
(* While officers and memberships stay, a Ketua Utama can sign in, however *)
(* many users are switched off at once (members.go:291).                  *)
(***************************************************************************)
THEOREM AKetuaUtamaSignsInHolds ==
    ASSUME OnlyUsers
    PROVE  OfficersSpec => []AKetuaUtamaSignsIn
<1>1. OfficersInit => SwitchesInvariant
    <2> SUFFICES ASSUME OfficersInit
                 PROVE  SwitchesInvariant
        OBVIOUS
    <2>1. PICK founders \in (SUBSET Members) \ {{}} :
            /\ appointments = [m \in Members |->
                   IF m \in founders THEN [role |-> "ketua_utama", active |-> TRUE]
                                     ELSE NoAppointment]
            /\ users = [m \in Members |-> IF m \in founders THEN NewUser ELSE NoUser]
        BY DEF OfficersInit
    <2>2. /\ memberStatus = [m \in Members |-> "active"]
          /\ calls = [c \in Calls |-> IdleCall]
        BY DEF OfficersInit
    <2>3. PICK k \in Members : k \in founders
        BY <2>1
    <2>4. AKetuaUtamaSignsIn
        BY <2>1, <2>2, <2>3 DEF AKetuaUtamaSignsIn, ActiveKetuaUtamas, IsKetuaUtama, NewUser
    <2>5. \A c \in Calls : calls[c].op = "none"
        BY <2>2 DEF IdleCall
    <2>6. QED
        BY <2>4, <2>5, OfficersInvariantInit DEF SwitchesInvariant, SwitchOK, At
<1>2. SwitchesInvariant /\ [OfficersNext]_officersVars => SwitchesInvariant'
    BY SwitchesInvariantNext
<1>3. SwitchesInvariant => AKetuaUtamaSignsIn
    BY DEF SwitchesInvariant
<1>4. QED
    BY <1>1, <1>2, <1>3, PTL DEF OfficersSpec
=============================================================================
