----------------------------- MODULE Approvals -----------------------------
(***************************************************************************)
(* The approval chains shared by loan requests, withdrawal requests and    *)
(* member deactivations: internal/app/approvals.go and the role table of   *)
(* internal/app/authorization.go.  A module without state.                 *)
(*                                                                         *)
(* A request waits at one stage at a time (current_approval_stage).  Each  *)
(* stage is decided by an officer of the role it is named after, except    *)
(* that an admin decides the manager's stage.                              *)
(***************************************************************************)

Stages == {"manager", "ketua_i", "ketua_ii", "ketua_utama"}

NoStage == ""    \* current_approval_stage IS NULL, read through COALESCE

\* The officer roles whose permissions include requests.decide.
DecidingRoles == {"admin", "manager", "ketua_i", "ketua_ii", "ketua_utama"}

approvalStageForOfficer(role) == IF role = "admin" THEN "manager" ELSE role

nextApprovalStage(stage) ==
    CASE stage = "manager"  -> "ketua_i"
      [] stage = "ketua_i"  -> "ketua_ii"
      [] stage = "ketua_ii" -> "ketua_utama"
      [] OTHER              -> NoStage

nextLoanApprovalStage(stage) ==
    CASE stage = "manager"  -> "ketua_ii"
      [] stage = "ketua_ii" -> "ketua_i"
      [] stage = "ketua_i"  -> "ketua_utama"
      [] OTHER              -> NoStage

nextWithdrawalApprovalStage(stage) ==
    CASE stage = "manager"  -> "ketua_ii"
      [] stage = "ketua_ii" -> "ketua_i"
      [] OTHER              -> NoStage

(***************************************************************************)
(* The decisions on one request: the rows of loan_request_approvals,       *)
(* withdrawal_request_approvals or member_deactivation_request_approvals   *)
(* with its request_id.  UNIQUE (request_id, stage) makes them a function  *)
(* of the stage.                                                           *)
(***************************************************************************)
Histories == [Stages -> {"none", "approved", "rejected"}]

EmptyHistory == [stage \in Stages |-> "none"]

\* The insert succeeds when the unique index holds no row for the stage yet.
MayDecide(history, stage) == stage \in Stages /\ history[stage] = "none"

insertApprovalDecision(history, stage, decision) ==
    [history EXCEPT ![stage] = decision]

DecidedStages(history) == {stage \in Stages : history[stage] # "none"}

(***************************************************************************)
(* The audiences a request has an unresolved notification for.  A stage    *)
(* notification goes to the officers of a role, an outcome notification to *)
(* the member; handlers resolve all of a request's before adding new ones. *)
(***************************************************************************)
Audiences == Stages \cup {"bendahara", "member"}

resolveRequestNotifications(notices) == {}

createNotifications(notices, audiences) == notices \cup audiences
=============================================================================
