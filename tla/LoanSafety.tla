----------------------------- MODULE LoanSafety -----------------------------
(***************************************************************************)
(* What must hold of loan requests, of those that officers enter for       *)
(* members, and of the loans made from them.                               *)
(***************************************************************************)
EXTENDS LoanBatches

Asked == {q \in LoanRequestIds : loanRequests[q].status # "none"}

Debts == {l \in LoanIds : loans[l].status # "none"}

(***************************************************************************)
(* A disbursed request has made one loan, on the terms its officers        *)
(* approved: principal, duration, fee and obligation of the loan are those *)
(* of the proposal, whatever happened to the savings, to the member's type *)
(* or to the schedule since.  No loan is without a request, and no two     *)
(* requests share one.  (disburseLoanRequestByID,                          *)
(* createAutoApprovedImportedLoanTx)                                       *)
(***************************************************************************)
LentAsAgreed ==
    /\ \A q \in Asked :
          LET row == loanRequests[q] IN
          IF row.disbursed = EmptyDate THEN row.loan = NoLoanId
          ELSE LET loan == loans[row.loan] IN
               /\ row.status = "approved" /\ row.loan \in Debts
               /\ loan.member = row.member /\ loan.type = row.type
               /\ row.proposed = [principal |-> loan.principal, fee |-> loan.fee,
                                  duration |-> Len(loan.installments),
                                  monthlyFee |-> loan.monthlyFee,
                                  obligation |-> loan.obligation]
               /\ Scheduled(loan.installments) = row.proposed.principal + row.proposed.fee
    /\ \A l \in Debts : Cardinality({q \in Asked : loanRequests[q].loan = l}) = 1

(***************************************************************************)
(* Nobody's approval is skipped, repeated or taken out of turn: manager,   *)
(* ketua II, ketua I, and ketua utama from the threshold on.  An override  *)
(* is recorded at the stage at which the request waited; imported vouchers *)
(* and purchases carry no decisions at all.                                *)
(***************************************************************************)
LoanStagesBefore(stage) ==
    CASE stage = "manager"  -> {}
      [] stage = "ketua_ii" -> {"manager"}
      [] stage = "ketua_i"  -> {"manager", "ketua_ii"}
      [] stage = "ketua_utama" -> {"manager", "ketua_ii", "ketua_i"}
      [] OTHER -> Stages

ApprovedBy(stages) == [x \in Stages |-> IF x \in stages THEN "approved" ELSE "none"]

StagesFor(row) ==
    IF row.proposed.principal >= ketuaUtamaLoanApprovalThreshold THEN Stages
    ELSE Stages \ {"ketua_utama"}

ChainOf(row, history, override) ==
    LET last == IF override # NoStage THEN override ELSE row.stage IN
    IF row.imported THEN history = EmptyHistory
    ELSE IF row.status = "pending" \/ override # NoStage
    THEN /\ last \in Stages /\ history = ApprovedBy(LoanStagesBefore(last))
         /\ last # "manager" => last \in StagesFor(row)
    ELSE CASE row.status = "approved" -> history = ApprovedBy(StagesFor(row))
           [] row.status = "rejected" ->
                  \E x \in Stages : history = insertApprovalDecision(
                                                  ApprovedBy(LoanStagesBefore(x)), x, "rejected")
           [] OTHER -> \E x \in Stages \cup {NoStage} :
                           \/ history = ApprovedBy(LoanStagesBefore(x))
                           \/ history = ApprovedBy(StagesFor(row))

LoanChain == \A q \in Asked : ChainOf(loanRequests[q], loanApprovals[q], loanOverrides[q])

(***************************************************************************)
(* Open notifications address whoever can act or has to be told: the stage *)
(* it waits at, also the member when an officer asked in the member's name *)
(* or the manager changed the terms; member and treasurer once it may be   *)
(* paid; the member alone once it was paid or rejected.                    *)
(***************************************************************************)
LoanNoticesFor(row) ==
    CASE row.status = "pending" ->
            {row.stage} \cup
            (IF \/ row.stage = "manager" /\ row.source = "admin"
                \/ row.stage = "ketua_ii" /\ TermsChanged(row) THEN {"member"} ELSE {})
      [] row.status = "approved" -> IF row.disbursed = EmptyDate THEN {"member", "bendahara"}
                                                                 ELSE {"member"}
      [] row.status = "rejected" -> {"member"}
      [] OTHER -> {}

(***************************************************************************)
(* Paying off the older loans with a new one moves exactly what is owed:   *)
(* the amount kept back is the sum of the repayments recorded in the same  *)
(* step, it does not exceed the principal, afterwards the new loan is the  *)
(* member's only unpaid regular one, and no loan of another type or of     *)
(* another member is touched.                                              *)
(***************************************************************************)
PaysOffExactly ==
    [][\A q \in Asked :
          LET row == loanRequests'[q]
              new == {r \in RepaymentIds : repayments[r].status = "none"
                                           /\ repayments'[r].status = "recorded"}
          IN loanRequests[q].disbursed = EmptyDate /\ row.disbursed # EmptyDate =>
             /\ row.payoff = SumFunction([r \in new |-> repayments'[r].amount])
             /\ row.payoff <= row.proposed.principal
             /\ \A l \in Debts :
                   IF row.settle /\ loans[l].type = "regular" /\ loans[l].member = row.member
                   THEN loans'[l].remaining = 0 ELSE loans'[l] = loans[l]
      ]_lendingVars

(***************************************************************************)
(* Money is lent only within the limit of that moment: a deposit removed,  *)
(* a balance gone negative or a type changed after the approval stops the  *)
(* disbursement to a member who asked; the sum cannot wrap around.         *)
(***************************************************************************)
ExactLimit(m) ==
    (IF memberType[m] = "employee" THEN 4 ELSE IF memberType[m] = "contract_worker" THEN 2 ELSE 1)
    * (Positive(categoryBalance(m, "wajib")) + Positive(categoryBalance(m, "sukarela")))

LentWithinLimit ==
    [][\A q \in Asked :
          /\ loanRequests[q].disbursed = EmptyDate /\ loanRequests'[q].disbursed # EmptyDate
          /\ loanRequests[q].source = "member"
          => /\ loanRequests[q].proposed.principal <= ExactLimit(loanRequests[q].member)
             /\ memberStatus[loanRequests[q].member] = "active"
      ]_lendingVars

-----------------------------------------------------------------------------
PhaseOf(row) ==
    CASE row.status = "none"     -> "none"
      [] row.status = "pending"  -> IF row.proposed = NoProposal THEN "asked" ELSE "agreed"
      [] row.status = "approved" -> IF row.disbursed = EmptyDate THEN "approved" ELSE "lent"
      [] OTHER                   -> "closed"

Promise == INSTANCE LoanPromise WITH
    Requests <- LoanRequestIds, People <- Members, NoOne <- Nobody,
    Deals <- Proposals, NoDeal <- NoProposal,
    phase  <- [q \in LoanRequestIds |-> PhaseOf(loanRequests[q])],
    debtor <- [q \in LoanRequestIds |-> loanRequests[q].member],
    deal   <- [q \in LoanRequestIds |-> loanRequests[q].proposed]

\* The tables of this module implement the promise: terms are agreed on once and
\* never change afterwards, what was approved is lent once or not at all, and a
\* member has one request open at a time, however the handlers interleave.
ImplementsPromise == Promise!PromiseSpec

-----------------------------------------------------------------------------
RowsOfBatch(b) == parseAdminLoanWorkbook(batches[b].file)

(***************************************************************************)
(* A batch is created as a whole or not at all: a committed one has made   *)
(* one request for each row of its workbook, in order, for the member and  *)
(* the amount of the row; any other has made none.  No request belongs to  *)
(* two batches, and a workbook is committed once, whoever uploads it again *)
(* and however often, although a purchase that was paid out would not      *)
(* itself stand in the way of a second one.  (commitAdminLoanRequestBatch) *)
(***************************************************************************)
BatchesAreWhole ==
    /\ \A b \in BatchIds :
          CASE batches[b].status = "none" -> TRUE
            [] batches[b].status = "committed" ->
                 LET ids == batches[b].requests rows == RowsOfBatch(b) IN
                 /\ Len(ids) = Len(rows)
                 /\ \A n \in DOMAIN rows :
                       LET row == loanRequests[ids[n]] IN
                       /\ row.source = "admin" /\ row.member = rows[n].member
                       /\ row.type = rows[n].type /\ row.requested = rows[n].amount
                       /\ row.imported <=> isAutoApprovedLoanImportType(rows[n].type)
            [] OTHER -> batches[b].requests = << >>
    /\ \A b, other \in BatchIds :
          batches[b].status = "committed" /\ batches[other].status = "committed" /\ b # other =>
              /\ batches[b].file # batches[other].file
              /\ Range(batches[b].requests) \cap Range(batches[other].requests) = {}

(***************************************************************************)
(* The preview binds nobody: what is committed holds at the commit.  Every *)
(* member is active, is not leaving and has nothing in flight, nobody      *)
(* occurs twice, the preview has not run out, and rows that wait for a     *)
(* manager were acknowledged when there was none.                          *)
(***************************************************************************)
CommitsHoldNow ==
    [][\A b \in BatchIds :
          batches[b].status # "committed" /\ batches'[b].status = "committed" =>
          LET rows == RowsOfBatch(b) IN
          /\ ~batches[b].expired
          /\ \A n \in DOMAIN rows :
                /\ memberStatus[rows[n].member] = "active"
                /\ \A q \in LoanRequestIds :
                      loanRequests[q].member = rows[n].member => ~InFlight(loanRequests[q])
                /\ \A k \in DOMAIN rows : rows[k].member = rows[n].member => k = n
                /\ (rows[n].type = "regular" /\ ~hasManager) => batches'[b].acknowledged
      ]_intakeVars

(***************************************************************************)
(* A request that is sent again under its key is created once, although    *)
(* the key is looked up before the lock is taken and the request of the    *)
(* first call may have been closed by then.  (createAdminLoanRequestFor)   *)
(***************************************************************************)
KeysMakeOneRequest ==
    \A q, other \in LoanRequestIds :
        keyOf[q] # NoKey /\ keyOf[q] = keyOf[other] => q = other

\* What officers enter is entered once, by workbook and by key.
EnteredOnce == BatchesAreWhole /\ KeysMakeOneRequest

FromBatch(q) == \E b \in BatchIds : batches[b].status = "committed" /\ q \in Range(batches[b].requests)

\* Whoever has to act on a request or must know of it is told; the manager is
\* told of a batch as a whole, not of each request in it.
LoanNoticesFollow ==
    \A q \in Asked :
        LET row == loanRequests[q] IN
        loanNotices[q] = LoanNoticesFor(row) \
            (IF FromBatch(q) /\ row.status = "pending" THEN {"manager"} ELSE {})

\* A request, its decisions, its notices and its loan tell one story, however
\* the handlers of members, officers and super admins interleave.
RequestsTellTheTruth ==
    /\ LentAsAgreed
    /\ LoanChain
    /\ LoanNoticesFollow
=============================================================================
