---------------------------- MODULE LoanBatches ----------------------------
(***************************************************************************)
(* Loan requests that officers enter for members: one at a time, under an  *)
(* idempotency key, or as a workbook that is previewed and then committed  *)
(* as a whole (internal/app/admin_loan_requests.go).                       *)
(*                                                                         *)
(* A preview is held against the state of its moment and stays good for    *)
(* fifteen minutes; the commit reads its rows back and holds them against  *)
(* the state it finds.  Vouchers and purchases are approved and paid out   *)
(* by the commit itself, other types wait for the manager.                 *)
(*                                                                         *)
(* A workbook is the sequence of its rows, and its hash is the workbook.   *)
(* All members have a login; the warning that one has none is left out.    *)
(***************************************************************************)
EXTENDS LoanRequests

CONSTANTS
    BatchIds, Officers,
    Workbooks,          \* what officers upload
    BlankRow,           \* a row without any value
    MaxRows,            \* adminLoanRequestMaxRows
    Keys,               \* idempotency keys of single requests
    NoKey,
    Calls               \* single requests being handled at the same time

WorkbookRow == [member : Members \cup {Nobody}, type : LoanTypes \cup {"unsupported"},
                amount : Nat, duration : Nat, fee : Nat \cup {NoFee}]

ASSUME LoanBatchesAssumption ==
    /\ NoKey \notin Keys /\ MaxRows \in Nat
    /\ Workbooks \subseteq Seq(WorkbookRow \cup {BlankRow})

VARIABLES
    hasManager,     \* an active officer with the role of manager or admin has a login
    batches,        \* loan_request_batches with their rows
    keyOf,          \* loan_requests.creation_idempotency_key, with created_by
    calls           \* single requests between the look-up of the key and the lock

batchVars == <<hasManager, batches, keyOf, calls>>

intakeVars == <<lendingVars, batchVars>>

BatchRows ==
    [status : {"preview", "validation_failed", "committed"}, creator : Officers,
     file : Workbooks, expired : BOOLEAN, warned : BOOLEAN, acknowledged : BOOLEAN,
     requests : Seq(LoanRequestIds)]

NoBatch == [status |-> "none"]

IdleCall == [key |-> NoKey]

LoanBatchesTypeOK ==
    /\ LoanRequestsTypeOK
    /\ hasManager \in BOOLEAN
    /\ batches \in [BatchIds -> BatchRows \cup {NoBatch}]
    /\ keyOf \in [LoanRequestIds -> Keys \cup {NoKey}]
    /\ calls \in [Calls -> [key : Keys, member : Members, input : LoanInputs] \cup {IdleCall}]

-----------------------------------------------------------------------------
\* The rows that are not blank.  A workbook without one, or with too many, is not read.
parseAdminLoanWorkbook(book) ==
    LET kept[n \in 0 .. Len(book)] ==
            IF n = 0 THEN << >>
            ELSE IF book[n] = BlankRow THEN kept[n - 1] ELSE Append(kept[n - 1], book[n])
    IN  kept[Len(book)]

Readable(book) == Len(parseAdminLoanWorkbook(book)) \in 1 .. MaxRows

isAutoApprovedLoanImportType(type) == type \in {"voucher", "goods_purchase_paylater"}

\* Errors that the cells of a row have whatever the tables hold.
CellError(row) ==
    \/ row.type = "unsupported" \/ row.amount = 0 \/ row.duration = 0
    \/ (row.type = "voucher" /\ (row.fee = NoFee \/ row.amount > MaxInt64 - row.fee))
    \/ (row.type # "voucher" /\ row.fee # NoFee)

validateAdminLoanRow(row) ==
    /\ ~CellError(row) /\ validateLoanRequestInput(row)
    /\ row.member \in Members
    /\ memberStatus[row.member] = "active"
    /\ ~hasPendingMemberDeactivation(row.member)
    /\ ~HasRequestInFlight(row.member)

\* Which rows are without an error; a member occurs once.
validateAdminLoanBatchRows(rows) ==
    [n \in DOMAIN rows |->
        /\ \A k \in 1 .. n - 1 : rows[k].member # rows[n].member
        /\ validateAdminLoanRow(rows[n])]

\* Nobody could decide on the rows that need a manager.
activeManagerApproverWarning(rows) ==
    /\ ~hasManager
    /\ \E n \in DOMAIN rows :
          validateAdminLoanBatchRows(rows)[n] /\ ~isAutoApprovedLoanImportType(rows[n].type)

AllValid(rows) == \A n \in DOMAIN rows : validateAdminLoanBatchRows(rows)[n]

\* The input of a row, and the terms of a row that is paid out at once.
InputOf(row) == [type |-> row.type, amount |-> row.amount, duration |-> row.duration,
                 fee |-> row.fee]

ImportedTerms(row) ==
    IF row.type = "voucher"
    THEN calculateVoucherLoanSchedule(row.amount, row.fee, row.duration, Today)
    ELSE calculatePaylaterLoanSchedule(row.amount, row.duration, Today)

-----------------------------------------------------------------------------
LoanBatchesInit ==
    /\ LoanRequestsInit
    /\ hasManager \in BOOLEAN
    /\ batches = [b \in BatchIds |-> NoBatch]
    /\ keyOf = [q \in LoanRequestIds |-> NoKey]
    /\ calls = [c \in Calls |-> IdleCall]

persistAdminLoanBatch(b, officer, book, status, warned) ==
    batches' = [batches EXCEPT ![b] =
        [status |-> status, creator |-> officer, file |-> book, expired |-> FALSE,
         warned |-> warned, acknowledged |-> FALSE, requests |-> << >>]]

\* A workbook is uploaded.
adminLoanRequestBatchPreview(b, officer, book) ==
    LET rows == parseAdminLoanWorkbook(book) IN
    /\ batches[b].status = "none"
    /\ IF Readable(book) /\ AllValid(rows)
       THEN persistAdminLoanBatch(b, officer, book, "preview", activeManagerApproverWarning(rows))
       ELSE persistAdminLoanBatch(b, officer, book, "validation_failed",
                                  ~Readable(book) \/ activeManagerApproverWarning(rows))
    /\ UNCHANGED <<lendingVars, hasManager, keyOf, calls>>

\* Fifteen minutes pass.
ExpirePreview(b) ==
    /\ batches[b].status = "preview" /\ ~batches[b].expired
    /\ batches' = [batches EXCEPT ![b].expired = TRUE]
    /\ UNCHANGED <<lendingVars, hasManager, keyOf, calls>>

Committed(book) == \E b \in BatchIds : batches[b].status = "committed" /\ batches[b].file = book

MayCommit(b, officer) ==
    /\ batches[b].status = "preview" /\ ~batches[b].expired
    /\ batches[b].creator = officer
    /\ ~Committed(batches[b].file)

\* Rows with errors now, or warnings nobody acknowledged: the batch is put down
\* as it stands, and nothing is created.
refuseAdminLoanRequestBatch(b, officer, acknowledge) ==
    LET rows   == parseAdminLoanWorkbook(batches[b].file)
        warned == activeManagerApproverWarning(rows)
    IN  /\ MayCommit(b, officer)
        /\ \/ /\ ~AllValid(rows)
              /\ batches' = [batches EXCEPT ![b].status = "validation_failed", ![b].warned = warned]
           \/ /\ AllValid(rows) /\ warned /\ ~acknowledge
              /\ batches' = [batches EXCEPT ![b].warned = TRUE]
        /\ UNCHANGED <<lendingVars, hasManager, keyOf, calls>>

\* The request of an imported row, approved and paid out as it is created.
ImportedRequest(row, l) ==
    [NewLoanRequest(row.member, "admin", InputOf(row)) EXCEPT
        !.status = "approved", !.stage = NoStage, !.imported = TRUE, !.reviewed = TRUE,
        !.proposed = Proposal(ImportedTerms(row)), !.disbursed = Today, !.loan = l]

\* Mutant: the preview's word is taken for the rows.
RowsHold_Previewed(rows) == TRUE

RowsHold(rows) == AllValid(rows)

\* The requests that a commit creates, under the ids given.
createFromRow(rows, ids, loanIds, q) ==
    IF \A n \in DOMAIN rows : ids[n] # q THEN loanRequests[q]
    ELSE LET n == CHOOSE n \in DOMAIN rows : ids[n] = q IN
         IF isAutoApprovedLoanImportType(rows[n].type)
         THEN ImportedRequest(rows[n], loanIds[n])
         ELSE NewLoanRequest(rows[n].member, "admin", InputOf(rows[n]))

\* ids and loanIds number the new rows of loan_requests and loans.
commitAdminLoanRequestBatch(b, officer, acknowledge, ids, loanIds) ==
    LET rows     == parseAdminLoanWorkbook(batches[b].file)
        warned   == activeManagerApproverWarning(rows)
        imported == {n \in DOMAIN rows : isAutoApprovedLoanImportType(rows[n].type)}
    IN  /\ MayCommit(b, officer)
        /\ RowsHold(rows) /\ (warned => acknowledge)
        /\ DOMAIN ids = DOMAIN rows /\ DOMAIN loanIds = imported
        /\ IsInjective(ids) /\ IsInjective(loanIds)
        /\ \A n \in DOMAIN rows : loanRequests[ids[n]].status = "none"
        /\ \A n \in imported :
               ~Refused(ImportedTerms(rows[n])) /\ loans[loanIds[n]].status = "none"
        /\ loanRequests' = [q \in LoanRequestIds |-> createFromRow(rows, ids, loanIds, q)]
        /\ loans' = [l \in LoanIds |->
               IF \E n \in imported : loanIds[n] = l
               THEN LET n == CHOOSE n \in imported : loanIds[n] = l IN
                    NewLoan(rows[n].member, rows[n].type, Today, Today, ImportedTerms(rows[n]))
               ELSE loans[l]]
        /\ loanNotices' = [q \in LoanRequestIds |->
               IF \E n \in DOMAIN rows : ids[n] = q THEN {"member"} ELSE loanNotices[q]]
        /\ batches' = [batches EXCEPT ![b].status = "committed", ![b].warned = warned,
                           ![b].acknowledged = acknowledge, ![b].requests = ids]
        /\ UNCHANGED <<savingsVars, repayments, suspensions, memberType, loanApprovals,
                       loanOverrides, hasManager, keyOf, calls>>

-----------------------------------------------------------------------------
KeyUsed(key) == \E q \in LoanRequestIds : keyOf[q] = key

\* A single request arrives.  The key is looked up before the lock is taken; a
\* key that is found is answered with its request and nothing happens.
lookUpIdempotencyKey(c, key, m, input) ==
    /\ calls[c] = IdleCall /\ ~KeyUsed(key)
    /\ calls' = [calls EXCEPT ![c] = [key |-> key, member |-> m, input |-> input]]
    /\ UNCHANGED <<lendingVars, hasManager, batches, keyOf>>

\* Mutant: the index on the key is not unique.
MayUseKey_Twice(key) == TRUE

\* The unique index on (created_by, creation_idempotency_key).
MayUseKey(key) == ~KeyUsed(key)

\* A warning that no manager could decide is acknowledged with the request.
createUnderKey(c, q) ==
    LET call == calls[c] IN
    /\ call # IdleCall /\ MayUseKey(call.key)
    /\ createAdminLoanRequestFor(q, call.member, call.input)
    /\ keyOf' = [keyOf EXCEPT ![q] = call.key]
    /\ calls' = [calls EXCEPT ![c] = IdleCall]
    /\ UNCHANGED <<hasManager, batches>>

\* The request is refused, or the client goes away.
dropCall(c) ==
    /\ calls[c] # IdleCall
    /\ calls' = [calls EXCEPT ![c] = IdleCall]
    /\ UNCHANGED <<lendingVars, hasManager, batches, keyOf>>

\* Officers come and go.
managerChanges ==
    /\ hasManager' = ~hasManager
    /\ UNCHANGED <<lendingVars, batches, keyOf, calls>>

-----------------------------------------------------------------------------
BatchStep(b) ==
    \/ \E officer \in Officers, book \in Workbooks : adminLoanRequestBatchPreview(b, officer, book)
    \/ ExpirePreview(b)
    \/ \E officer \in Officers, acknowledge \in BOOLEAN :
           \/ refuseAdminLoanRequestBatch(b, officer, acknowledge)
           \/ /\ MayCommit(b, officer)
              /\ LET rows == parseAdminLoanWorkbook(batches[b].file) IN
                 \E ids \in [DOMAIN rows -> LoanRequestIds] :
                 \E loanIds \in [{n \in DOMAIN rows : isAutoApprovedLoanImportType(rows[n].type)}
                                     -> LoanIds] :
                     commitAdminLoanRequestBatch(b, officer, acknowledge, ids, loanIds)

KeyStep(c) ==
    \/ \E key \in Keys, m \in Members, input \in LoanInputs : lookUpIdempotencyKey(c, key, m, input)
    \/ \E q \in LoanRequestIds : createUnderKey(c, q)
    \/ dropCall(c)

LoanBatchesNext ==
    \/ \E b \in BatchIds : BatchStep(b)
    \/ \E c \in Calls : KeyStep(c)
    \/ managerChanges
    \/ LoanRequestsNext /\ UNCHANGED batchVars

LoanBatchesSpec == LoanBatchesInit /\ [][LoanBatchesNext]_intakeVars
=============================================================================
