---------------------------- MODULE LoanPromise ----------------------------
(***************************************************************************)
(* What the cooperative promises about loans, without officers, stages,    *)
(* notices or tables.  A request is asked for, terms are agreed on once,   *)
(* the terms are approved, and exactly they are lent, once; or the request *)
(* is closed before any money moves.  A member has one request open at a   *)
(* time.                                                                   *)
(***************************************************************************)
CONSTANTS Requests, People, NoOne, Deals, NoDeal

VARIABLES
    phase,      \* of each request
    debtor,     \* the member it is for, once asked
    deal        \* the terms, once agreed on

promiseVars == <<phase, debtor, deal>>

Phases == {"none", "asked", "agreed", "approved", "lent", "closed"}

OpenPhases == {"asked", "agreed", "approved"}

PromiseInit ==
    /\ phase = [q \in Requests |-> "none"]
    /\ debtor = [q \in Requests |-> NoOne]
    /\ deal = [q \in Requests |-> NoDeal]

\* Only the terms of these are new.
DealsMade(requests) ==
    /\ \A q \in requests : deal'[q] \in Deals \ {NoDeal}
    /\ deal' = [q \in Requests |-> IF q \in requests THEN deal'[q] ELSE deal[q]]

\* Requests are asked for, one or several at once; imported purchases among
\* them are agreed on and lent in the same step.
Ask(asked, lent) ==
    LET new == asked \cup lent IN
    /\ \A q \in new :
          /\ phase[q] = "none" /\ debtor'[q] \in People
          /\ \A other \in Requests \ {q} :
                debtor'[other] = debtor'[q] => other \notin new /\ phase[other] \notin OpenPhases
    /\ phase' = [q \in Requests |-> IF q \in lent THEN "lent"
                                    ELSE IF q \in asked THEN "asked" ELSE phase[q]]
    /\ debtor' = [q \in Requests |-> IF q \in new THEN debtor'[q] ELSE debtor[q]]
    /\ DealsMade(lent)

Enter(q, next) == phase' = [phase EXCEPT ![q] = next] /\ UNCHANGED debtor

\* One person who may decide in the place of all agrees and approves at once.
Agree(q) ==
    /\ phase[q] = "asked"
    /\ Enter(q, "agreed") \/ Enter(q, "approved")
    /\ DealsMade({q})

Approve(q) == phase[q] = "agreed" /\ Enter(q, "approved") /\ UNCHANGED deal

Lend(q) == phase[q] = "approved" /\ Enter(q, "lent") /\ UNCHANGED deal

Close(q) == phase[q] \in OpenPhases /\ Enter(q, "closed") /\ UNCHANGED deal

PromiseNext ==
    \/ \E asked, lent \in SUBSET Requests : asked \cap lent = {} /\ Ask(asked, lent)
    \/ \E q \in Requests : Agree(q) \/ Approve(q) \/ Lend(q) \/ Close(q)

PromiseSpec == PromiseInit /\ [][PromiseNext]_promiseVars
=============================================================================
