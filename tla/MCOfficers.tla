----------------------------- MODULE MCOfficers -----------------------------
(***************************************************************************)
(* What the appointments, the users and the notices promise, and the       *)
(* instances of Officers that are checked.                                 *)
(***************************************************************************)
EXTENDS Officers, FiniteSetsExt

(***************************************************************************)
(* The first state chooses what happens:                                   *)
(*   calls    two calls at once change appointments, users and memberships *)
(*   notices  requests climb while officers are appointed, one thing at a  *)
(*            time                                                         *)
(*   users    two calls at once switch users, and passwords are reset      *)
(***************************************************************************)
VARIABLE scenario

mcVars == <<officersVars, scenario>>

Served(c) == Proceed(c) \/ breakDeadlock(c)

\* A bound on all audit events together, where a call begins: one that has begun
\* is not held up.
FewEvents == FoldSet(LAMBDA m, sum : sum + Len(audits[m]), 0, Members) < MaxEvents

\* Where two calls meet, roles that do not differ to a call are left out.
CallsMeet ==
    \/ \E c \in Calls : Served(c)
    \/ \E c \in Calls, m \in Members :
          \/ /\ FewEvents /\ OfficerStep(c, m)
             /\ calls'[c].wanted.role \notin {"admin", "bendahara"}
          \/ UserStep(c, m)
          \/ lockMembership(c, m)

RequestsClimb ==
    \/ \E r \in Requests : submit(r) \/ \E approved \in BOOLEAN : decide(r, approved)
    \/ \E c \in Calls :
          /\ \A d \in Calls \ {c} : calls[d] = IdleCall
          /\ Served(c) \/ \E m \in Members : FewEvents /\ OfficerStep(c, m)

UsersSwitched ==
    \/ \E c \in Calls : Served(c) \/ \E m \in Members : UserStep(c, m)
    \/ \E m \in Members : FewEvents /\ ResetStep(m)

MCNext ==
    /\ \/ scenario = "calls" /\ CallsMeet
       \/ scenario = "notices" /\ RequestsClimb
       \/ scenario = "users" /\ UsersSwitched
    /\ UNCHANGED scenario

\* A handler that has begun goes on, and the database looks for deadlocks.
OfficersInstanceInit == OfficersInit /\ scenario \in {"calls", "notices", "users"}

OfficersInstance ==
    /\ OfficersInstanceInit /\ [][MCNext]_mcVars
    /\ \A c \in Calls : SF_officersVars(Proceed(c)) /\ WF_officersVars(breakDeadlock(c))

\* As long as only users are changed, an active Ketua Utama can sign in,
\* even if several are switched off at once.
AKetuaUtamaCanSignIn == scenario = "users" => AKetuaUtamaSignsIn

\* Every call comes to an end: no two wait for each other for ever, and no
\* refused call keeps its rows.
CallsEnd == \A c \in Calls : calls[c] # IdleCall ~> calls[c] = IdleCall
=============================================================================
