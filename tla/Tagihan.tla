------------------------------- MODULE Tagihan -------------------------------
(***************************************************************************)
(* Monthly deductions from the payroll (Tagihan): the statement of what is *)
(* due, the workbook that is exported for it, and the returned workbook    *)
(* that is previewed and then confirmed: internal/app/tagihan.go,          *)
(* tagihan_review.go, tagihan_loan_details.go, tagihan_suspension.go and   *)
(* member_tagihan_config.go.                                               *)
(*                                                                         *)
(* A preview and a confirmation are transactions under Server.financialMu, *)
(* the first rolled back; between them everything else may happen.  Nothing*)
(* is stored for a preview: what the officer holds is a token that names   *)
(* the file, the month, the date and a digest of the state that was shown. *)
(* Days within a month, the notes and the reason of a suspension are left  *)
(* out.                                                                    *)
(***************************************************************************)
EXTENDS LoanRepayments

CONSTANTS
    Configs,         \* the monthly savings an officer may set for a member
    Files,           \* workbooks that are uploaded, besides those just exported
    ClaimIds,        \* preview tokens in the hands of officers
    HandReferences,  \* references of what is recorded by hand: statement months or NoMonth
    RecordMonths     \* months to which deposits by hand are dated

NoMonth == 0

Deducted == {"wajib", "sukarela"}
Forms == {"detailed", "amounts", "statuses"}

\* What the second sheet of a workbook says of a loan.
Details == [member : Members, action : {"payment", "suspend"}, actual : Nat]

\* Checked when a workbook is read and, of its members and loans, before anything of it
\* is shown or recorded: amounts are not below zero, members and loans are known.
FileOK(f) ==
    /\ f.month \in StatementMonths /\ f.date \in Nat /\ f.form \in Forms
    /\ f.members \subseteq Members
    /\ DOMAIN f.details \subseteq LoanIds /\ \A l \in DOMAIN f.details : f.details[l] \in Details
    /\ f.form = "amounts" => \A m \in f.members : f.actual[m] \in [LoanTypes -> Nat]

\* A table holds finitely many rows.
ASSUME TagihanAssumption ==
    /\ IsFiniteSet(Members)
    /\ Deducted \subseteq Categories
    /\ Configs \subseteq [Deducted -> Nat]
    /\ HandReferences \subseteq StatementMonths \cup {NoMonth}
    /\ RecordMonths \subseteq Nat
    /\ \A f \in Files : FileOK(f)

VARIABLES
    configs,      \* member_tagihan_configs
    employees,    \* members of a type that is deducted from the payroll
    marks,        \* of each saving record: its reference, its month, its place in time
    references,   \* of each repayment: the statement month in reference_no
    mapped,       \* every account the import needs is mapped and may be posted to
    claims        \* preview tokens that have not expired

importVars  == <<configs, employees, marks, references, mapped, claims>>
tagihanVars == <<savingsVars, loansVars, importVars>>

NoConfig == [c \in Deducted |-> -1]     \* the member has no row
NoMark   == [reference |-> NoMonth, month |-> NoMonth, at |-> 0]
NoClaim  == [file |-> "none"]

TagihanTypeOK ==
    /\ LoansTypeOK /\ SavingsTypeOK
    /\ configs \in [Members -> Configs \cup {NoConfig} \cup [Deducted -> DepositAmounts \cup {0}]]
    /\ employees \subseteq Members
    /\ \A s \in SavingIds : marks[s].reference \in StatementMonths \cup {NoMonth}
    /\ references \in [RepaymentIds -> StatementMonths \cup {NoMonth}]
    /\ mapped \in BOOLEAN
    /\ DOMAIN claims = ClaimIds

-----------------------------------------------------------------------------
(***************************************************************************)
(* What is due, and what the import has recorded.                          *)
(***************************************************************************)
Configured(m, c) == IF configs[m] = NoConfig THEN 0 ELSE configs[m][c]

DepositsOf(m, c, month) ==
    {s \in RowsOf(m, c, "deposit") : marks[s].reference = month}
RecordedSaving(m, c, month) == AmountOf(DepositsOf(m, c, month))

LoansOf(m) == {l \in LoanIds : loans[l].status # "none" /\ loans[l].member = m}

UnpaidOn(items, numbers) == SumFunction([n \in numbers |-> Unpaid(items[n])])

DueBy(items, month) == {n \in DOMAIN items : MonthOf(items[n].due) <= month}
DueIn(items, month) == {n \in DOMAIN items : MonthOf(items[n].due) = month}

\* Mutant: the instalments of the coming months are due as well.
Due_Early(l, month) == IF Collectable(loans[l]) THEN UnpaidSum(loans[l].installments) ELSE 0

\* What is unpaid of the instalments up to the end of the month.
Due(l, month) ==
    IF ~Collectable(loans[l]) THEN 0
    ELSE UnpaidOn(loans[l].installments, DueBy(loans[l].installments, month))

RepaymentsOf(l, month) == {r \in RecordedFor(repayments, l) : references[r] = month}
RecordedPaid(l, month) == SumFunction([r \in RepaymentsOf(l, month) |-> repayments[r].amount])

(***************************************************************************)
(* The statement: savings of the month that were not deposited yet, and    *)
(* the instalments due.                                                    *)
(***************************************************************************)
tagihanSavingRecordedForStatementMonth(m, c, month) ==
    \E s \in RowsOf(m, c, "deposit") : marks[s].reference = month \/ marks[s].month = month

tagihanSavingAmounts(m, c, month) ==
    IF tagihanSavingRecordedForStatementMonth(m, c, month) THEN 0 ELSE Configured(m, c)

\* Summed over the instalments by the database, not by loan.
tagihanLoanDueTotalForType(m, type, month) ==
    LET items(l) == loans[l].installments
        rows == {row \in UNION {{l} \X DueBy(items(l), month) : l \in LoansOf(m)} :
                    LET l == row[1] IN
                    /\ loans[l].type = type
                    /\ Collectable(loans[l]) /\ loans[l].remaining > 0
                    /\ Unpaid(items(l)[row[2]]) > 0}
    IN SumFunction([row \in rows |-> Unpaid(loans[row[1]].installments[row[2]])])

StatementTotal(m, month) ==
    SumFunction([c \in Deducted |-> tagihanSavingAmounts(m, c, month)])
    + SumFunction([type \in LoanTypes |-> tagihanLoanDueTotalForType(m, type, month)])

tagihanRows(month) ==
    {m \in Members : memberStatus[m] = "active" /\ StatementTotal(m, month) > 0}

(***************************************************************************)
(* A workbook: the members of its first sheet, those marked unpaid, their  *)
(* realised amounts (form "amounts"), and for single loans what to do with *)
(* them and how much was received.  In the older forms only suspensions    *)
(* name a loan.                                                            *)
(***************************************************************************)
Detail(m, action, actual) == [member |-> m, action |-> action, actual |-> actual]

\* The loans of the second sheet, and the bill of each: arrears and the month.
BilledLoans(month) ==
    {l \in LoanIds :
        /\ loans[l].status # "none" /\ Collectable(loans[l]) /\ loans[l].remaining > 0
        /\ memberStatus[loans[l].member] = "active" /\ loans[l].member \in employees
        /\ \E n \in DueBy(loans[l].installments, month) : Unpaid(loans[l].installments[n]) > 0}

\* Mutant: the column of the bill leaves out the arrears.
Bill_Current(l, month) == UnpaidOn(loans[l].installments, DueIn(loans[l].installments, month))

Bill(l, month) ==
    LET items   == loans[l].installments
        arrears == {n \in DOMAIN items : MonthOf(items[n].due) < month}
    IN UnpaidOn(items, arrears) + UnpaidOn(items, DueIn(items, month))

\* As it is exported: each loan is paid as billed.
exportTagihanXLSX(month) ==
    [form |-> "detailed", month |-> month, date |-> month,
     members |-> tagihanRows(month) \cap employees, unpaid |-> {}, actual |-> << >>,
     details |-> [l \in BilledLoans(month) |-> Detail(loans[l].member, "payment", Bill(l, month))]]

\* The loans that the page offers for a suspension.
suspensionLoans(month) ==
    {l \in LoanIds :
        /\ loans[l].status = "active" /\ loans[l].remaining > 0 /\ loans[l].type = "regular"
        /\ memberStatus[loans[l].member] = "active" /\ loans[l].member \in employees
        /\ suspensionFee(loans[l]) > 0 /\ <<l, month>> \notin suspensions
        /\ \E n \in DueIn(loans[l].installments, month) : loans[l].installments[n].paid = 0}

Suspends(f) == {l \in DOMAIN f.details : f.details[l].action = "suspend"}

-----------------------------------------------------------------------------
(***************************************************************************)
(* The review of a workbook, by loan type in the older forms and by loan   *)
(* in the detailed one.                                                    *)
(***************************************************************************)
OfType(f, m, type) == {l \in LoansOf(m) \ Suspends(f) : loans[l].type = type}

RecordedOfType(f, m, type) ==
    SumFunction([l \in OfType(f, m, type) |-> RecordedPaid(l, f.month)])
ExpectedOfType(f, m, type) ==
    SumFunction([l \in OfType(f, m, type) |-> Due(l, f.month) + RecordedPaid(l, f.month)])

ActualOfType(f, m, type) ==
    IF m \in f.unpaid THEN 0
    ELSE IF f.form = "amounts" THEN f.actual[m][type] ELSE ExpectedOfType(f, m, type)

TypeAccepted(f, m, type) ==
    LET actual   == ActualOfType(f, m, type)
        recorded == RecordedOfType(f, m, type)
        open     == {l \in OfType(f, m, type) : Due(l, f.month) + RecordedPaid(l, f.month) > 0}
    IN /\ actual <= ExpectedOfType(f, m, type)
       /\ m \notin f.unpaid /\ recorded > 0 => actual = recorded
       /\ recorded = 0 /\ actual > 0 => Cardinality(open) <= 1

DetailAccepted(f, l) ==
    LET d == f.details[l] IN
    /\ loans[l].status # "none" /\ d.member = loans[l].member /\ d.member \in f.members
    /\ d.actual <= Due(l, f.month) + RecordedPaid(l, f.month)
    /\ d.action = "payment" /\ RecordedPaid(l, f.month) > 0 => d.actual = RecordedPaid(l, f.month)

\* Savings are collected in full; what was collected before has to be the same.
SavingAccepted(f, m, c) ==
    /\ RecordedSaving(m, c, f.month) > 0 => RecordedSaving(m, c, f.month) = Configured(m, c)
    /\ hasPendingMemberDeactivation(m) => Configured(m, c) <= RecordedSaving(m, c, f.month)

RowAccepted(f, m) ==
    /\ memberStatus[m] = "active" /\ m \in employees
    /\ \A c \in Deducted : SavingAccepted(f, m, c)
    /\ f.form # "detailed" => \A type \in LoanTypes : TypeAccepted(f, m, type)

NewSuspensions(f) == {l \in Suspends(f) : <<l, f.month>> \notin suspensions}

SuspensionAccepted(f, l) ==
    /\ loans[l].status # "none" /\ f.details[l].member = loans[l].member
    /\ f.details[l].member \in f.members /\ f.date >= f.month
    /\ l \in NewSuspensions(f) => Suspendable(l, f.month)

\* What confirming the file records: savings by member and category.
Deposits(f) ==
    [mc \in {mc \in f.members \X Deducted :
                Configured(mc[1], mc[2]) > 0 /\ RecordedSaving(mc[1], mc[2], f.month) = 0} |->
        Configured(mc[1], mc[2])]

DetailPayments(f) ==
    [l \in {l \in DOMAIN f.details : f.details[l].action = "payment" /\ f.details[l].actual > 0
                                     /\ RecordedPaid(l, f.month) = 0} |-> f.details[l].actual]

\* The one open loan of a type receives the amount of the type.
TypePayments(f) ==
    [l \in {l \in LoanIds \ Suspends(f) :
                /\ loans[l].status # "none" /\ loans[l].member \in f.members \ f.unpaid
                /\ Due(l, f.month) > 0
                /\ RecordedOfType(f, loans[l].member, loans[l].type) = 0
                /\ ActualOfType(f, loans[l].member, loans[l].type) > 0} |->
        ActualOfType(f, loans[l].member, loans[l].type)]

Payments(f) == IF f.form = "detailed" THEN DetailPayments(f) ELSE TypePayments(f)

\* All of it is accepted, and none of it would wait for an account.
Accepted(f) ==
    /\ \A m \in f.members : RowAccepted(f, m)
    /\ f.form = "detailed" => \A l \in DOMAIN f.details : DetailAccepted(f, l)
    /\ \A l \in Suspends(f) : SuspensionAccepted(f, l)
    /\ mapped \/ (DOMAIN Deposits(f)) \cup (DOMAIN Payments(f)) \cup NewSuspensions(f) = {}

\* Mutant: the state that was shown is not part of the token.
Fingerprint_Loans(f) ==
    [m \in f.members |-> <<memberStatus[m], hasPendingMemberDeactivation(m)>>]

\* What the digest of a preview covers.
Fingerprint(f) ==
    [rows |-> [m \in f.members |->
        [status  |-> memberStatus[m], leaving |-> hasPendingMemberDeactivation(m),
         savings |-> [c \in Deducted |-> <<Configured(m, c), RecordedSaving(m, c, f.month)>>],
         loans   |-> [l \in LoansOf(m) |->
                        <<loans[l].status, loans[l].remaining, loans[l].finalDue,
                          loans[l].installments, RecordedPaid(l, f.month)>>]]],
     skipped |-> Suspends(f) \ NewSuspensions(f)]

\* What a preview shows.
Shown(f) == [deposits |-> Deposits(f), payments |-> Payments(f), suspended |-> NewSuspensions(f)]

-----------------------------------------------------------------------------
(***************************************************************************)
(* The operations.                                                         *)
(***************************************************************************)
readTagihanFile == Files \cup {exportTagihanXLSX(month) : month \in StatementMonths}

\* A preview is a transaction that is rolled back, and a token.
previewTagihan(p, f) ==
    /\ claims[p] = NoClaim
    /\ Accepted(f)
    /\ claims' = [claims EXCEPT ![p] = [file |-> f, state |-> Fingerprint(f), shown |-> Shown(f)]]
    /\ UNCHANGED <<savingsVars, loansVars, configs, employees, marks, references, mapped>>

\* Thirty minutes are over.
expireTagihanPreview(p) ==
    /\ claims[p] # NoClaim
    /\ claims' = [claims EXCEPT ![p] = NoClaim]
    /\ UNCHANGED <<savingsVars, loansVars, configs, employees, marks, references, mapped>>

FreeSavings == SetToSeq({s \in SavingIds : savings[s].type = "none"})
FreeRepayments == SetToSeq({r \in RepaymentIds : repayments[r].status = "none"})
CreatedSavings == Cardinality({s \in SavingIds : savings[s].type # "none"})

\* recordPaidTagihanRowTx: the deposits.
recordDeposits(f, deposits) ==
    LET items == SetToSeq(DOMAIN deposits)
        ids   == {FreeSavings[k] : k \in 1 .. Len(items)}
        Nth(s) == CHOOSE k \in 1 .. Len(items) : FreeSavings[k] = s
    IN /\ Len(items) <= Len(FreeSavings)
       /\ savings' = [s \in SavingIds |->
            IF s \notin ids THEN savings[s]
            ELSE [type |-> "deposit", member |-> items[Nth(s)][1], category |-> items[Nth(s)][2],
                  amount |-> deposits[items[Nth(s)]]]]
       /\ marks' = [s \in SavingIds |->
            IF s \notin ids THEN marks[s]
            ELSE [reference |-> f.month, month |-> f.date, at |-> CreatedSavings + Nth(s)]]

recordTagihanRepaymentTx(row, amount) == Repaid(row, amount)

\* applyLoanSuspensionTx and recordPaidTagihanRowTx: the loans.
recordPayments(f, payments, new) ==
    LET items == SetToSeq(DOMAIN payments)
        ids   == {FreeRepayments[k] : k \in 1 .. Len(items)}
        Nth(r) == CHOOSE k \in 1 .. Len(items) : FreeRepayments[k] = r
    IN /\ Len(items) <= Len(FreeRepayments)
       /\ \A l \in DOMAIN payments : MayRepay(loans[l], payments[l])
       /\ loans' = [l \in LoanIds |->
            IF l \in new THEN Suspended(loans[l], f.month)
            ELSE IF l \in DOMAIN payments THEN recordTagihanRepaymentTx(loans[l], payments[l])
            ELSE loans[l]]
       /\ suspensions' = suspensions \cup (new \X {f.month})
       /\ repayments' = [r \in RepaymentIds |->
            IF r \notin ids THEN repayments[r]
            ELSE [status |-> "recorded", loan |-> items[Nth(r)], amount |-> payments[items[Nth(r)]]]]
       /\ references' = [r \in RepaymentIds |-> IF r \in ids THEN f.month ELSE references[r]]

\* The confirmation: the token is valid, and the state is the one it was given for.
confirmTagihan(p) ==
    /\ claims[p] # NoClaim
    /\ LET f == claims[p].file IN
        /\ Accepted(f)
        /\ Fingerprint(f) = claims[p].state
        /\ recordDeposits(f, Deposits(f))
        /\ recordPayments(f, Payments(f), NewSuspensions(f))
    /\ UNCHANGED <<memberStatus, deactivations, configs, employees, mapped, claims>>

updateMemberTagihanConfig(m, config) ==
    /\ configs' = [configs EXCEPT ![m] = config]
    /\ UNCHANGED <<savingsVars, loansVars, employees, marks, references, mapped, claims>>

\* An import of seed data gives members without a configuration their latest
\* saving record.
LatestSaving(m, c) ==
    LET rows == {s \in SavingIds : savings[s].member = m /\ savings[s].category = c
                                   /\ savings[s].type \in {"deposit", "withdrawal"}}
        Later(s, q) == \/ marks[s].month > marks[q].month
                       \/ marks[s].month = marks[q].month /\ marks[s].at >= marks[q].at
    IN IF rows = {} THEN 0
       ELSE LET s == CHOOSE s \in rows : \A q \in rows : Later(s, q) IN
            IF savings[s].type = "deposit" THEN savings[s].amount ELSE 0

ensureMissingMemberTagihanConfigs ==
    /\ configs' = [m \in Members |->
            IF configs[m] # NoConfig THEN configs[m] ELSE [c \in Deducted |-> LatestSaving(m, c)]]
    /\ UNCHANGED <<savingsVars, loansVars, employees, marks, references, mapped, claims>>

setMemberType(m) ==
    /\ employees' = IF m \in employees THEN employees \ {m} ELSE employees \cup {m}
    /\ UNCHANGED <<savingsVars, loansVars, configs, marks, references, mapped, claims>>

\* The rules and accounts of the chart are completed or taken away.
setMappings ==
    /\ mapped' = ~mapped
    /\ UNCHANGED <<savingsVars, loansVars, configs, employees, marks, references, claims>>

recordSavingByHand(s, m, c, amount, month, reference) ==
    /\ insertSaving(s, m, c, amount)
    /\ marks' = [marks EXCEPT ![s] =
           [reference |-> reference, month |-> month, at |-> CreatedSavings + 1]]
    /\ UNCHANGED <<loansVars, configs, employees, references, mapped, claims>>

correctSavingByHand(s, amount) ==
    /\ correctSavingByID(s, amount)
    /\ UNCHANGED <<loansVars, importVars>>

removeSavingByHand(s) ==
    /\ removeSavingByID(s)
    /\ UNCHANGED <<loansVars, importVars>>

recordRepaymentByHand(l, r, amount, reference) ==
    /\ recordRepaymentTx(l, r, amount)
    /\ references' = [references EXCEPT ![r] = reference]
    /\ UNCHANGED <<configs, employees, marks, mapped, claims>>

correctRepaymentByHand(r, amount) ==
    /\ correctRepaymentByID(r, amount)
    /\ UNCHANGED importVars

removeRepaymentByHand(r) ==
    /\ removeRepaymentByID(r)
    /\ UNCHANGED importVars

recordTagihanSuspension(l, month) ==
    /\ mapped
    /\ applyLoanSuspensionTx(l, month)
    /\ UNCHANGED importVars

\* A member asks to leave, with nothing pending; the request is rejected or, at the
\* end, carried out.
insertMemberDeactivationRequest(d, m) ==
    /\ memberStatus[m] = "active" /\ ~hasPendingMemberDeactivation(m)
    /\ deactivations[d].status = "none"
    /\ deactivations' = [deactivations EXCEPT ![d].status = "pending", ![d].member = m]
    /\ UNCHANGED <<memberStatus, savings, loansVars, importVars>>

decideMemberDeactivationRequest(d) ==
    /\ deactivations[d].status = "pending"
    /\ \E decision \in {"approved", "rejected"} :
        /\ deactivations' = [deactivations EXCEPT ![d].status = decision]
        /\ memberStatus' = IF decision = "rejected" THEN memberStatus
                           ELSE [memberStatus EXCEPT ![deactivations[d].member] = "inactive"]
    /\ UNCHANGED <<savings, loansVars, importVars>>

disburse(l, c) == openLoan(l, c) /\ UNCHANGED importVars

-----------------------------------------------------------------------------
TagihanInit ==
    /\ memberStatus = [m \in Members |-> "active"]
    /\ savings = [s \in SavingIds |-> NoSaving]
    /\ deactivations = [d \in DeactivationIds |-> NoDeactivation]
    /\ LoansInit
    /\ configs = [m \in Members |-> NoConfig]
    /\ employees = Members
    /\ marks = [s \in SavingIds |-> NoMark]
    /\ references = [r \in RepaymentIds |-> NoMonth]
    /\ mapped = TRUE
    /\ claims = [p \in ClaimIds |-> NoClaim]

ImportStep ==
    \E p \in ClaimIds :
        \/ \E f \in readTagihanFile : previewTagihan(p, f)
        \/ confirmTagihan(p)
        \/ expireTagihanPreview(p)

MemberStep ==
    \/ \E m \in Members, config \in Configs : updateMemberTagihanConfig(m, config)
    \/ ensureMissingMemberTagihanConfigs
    \/ \E m \in Members : setMemberType(m)
    \/ setMappings
    \/ \E d \in DeactivationIds, m \in Members : insertMemberDeactivationRequest(d, m)
    \/ \E d \in DeactivationIds : decideMemberDeactivationRequest(d)

SavingStep ==
    \/ \E s \in SavingIds, m \in Members, c \in Deducted, amount \in DepositAmounts,
          month \in RecordMonths, reference \in HandReferences :
           recordSavingByHand(s, m, c, amount, month, reference)
    \/ \E s \in SavingIds, amount \in DepositAmounts : correctSavingByHand(s, amount)
    \/ \E s \in SavingIds : removeSavingByHand(s)

LoanStep ==
    \/ \E l \in LoanIds, c \in Contracts : disburse(l, c)
    \/ \E l \in LoanIds, r \in RepaymentIds, amount \in RepaymentAmounts,
          reference \in HandReferences : recordRepaymentByHand(l, r, amount, reference)
    \/ \E r \in RepaymentIds, amount \in RepaymentAmounts : correctRepaymentByHand(r, amount)
    \/ \E r \in RepaymentIds : removeRepaymentByHand(r)
    \/ \E l \in LoanIds, month \in StatementMonths : recordTagihanSuspension(l, month)

TagihanNext == ImportStep \/ MemberStep \/ SavingStep \/ LoanStep

TagihanSpec == TagihanInit /\ [][TagihanNext]_tagihanVars

-----------------------------------------------------------------------------
(***************************************************************************)
(* What has to hold of the monthly deductions.                             *)
(***************************************************************************)
NewSavings == {s \in SavingIds : savings[s].type = "none" /\ savings'[s].type # "none"}
NewRepayments ==
    {r \in RepaymentIds : repayments[r].status = "none" /\ repayments'[r].status # "none"}

\* The step confirms p.
Confirms(p) ==
    claims[p] # NoClaim /\ claims' = claims /\ mapped' = mapped /\ confirmTagihan(p)

\* A confirmation records exactly what its preview showed, whatever was recorded,
\* corrected, suspended or configured in between: fingerprint of reviewTagihan.
PreviewIsPromise ==
    [][\A p \in ClaimIds : Confirms(p) =>
        LET shown == claims[p].shown IN
        /\ {<<savings'[s].member, savings'[s].category, savings'[s].amount>> : s \in NewSavings}
             = {<<mc[1], mc[2], shown.deposits[mc]>> : mc \in DOMAIN shown.deposits}
        /\ {<<repayments'[r].loan, repayments'[r].amount>> : r \in NewRepayments}
             = {<<l, shown.payments[l]>> : l \in DOMAIN shown.payments}
        /\ suspensions' \ suspensions = shown.suspended \X {claims[p].file.month}
      ]_tagihanVars

\* Neither the deposit of a member and category nor the payment of a loan is
\* recorded twice for a statement month (CONTEXT.md, "must not create duplicate").
OnceAMonth(month) ==
    /\ \A m \in Members, c \in Deducted :
        \/ DepositsOf(m, c, month)' = DepositsOf(m, c, month)
        \/ DepositsOf(m, c, month) = {} /\ Cardinality(DepositsOf(m, c, month)') = 1
    /\ \A l \in LoanIds :
        \/ RepaymentsOf(l, month)' = RepaymentsOf(l, month)
        \/ RepaymentsOf(l, month) = {} /\ Cardinality(RepaymentsOf(l, month)') = 1

\* No instalment is paid that falls due after the statement month, and none of a
\* loan that the file suspends.
WhatIsDue(f) ==
    \A l \in LoanIds : loans'[l] # loans[l] =>
        \A n \in DOMAIN loans[l].installments :
            loans'[l].installments[n].paid > loans[l].installments[n].paid =>
                MonthOf(loans[l].installments[n].due) <= f.month /\ l \notin Suspends(f)

\* The balance a leaving member was told stays, and an inactive member has no
\* deposits.
LeavingStays ==
    \A s \in NewSavings :
        /\ memberStatus[savings'[s].member] = "active"
        /\ ~\E d \in DeactivationIds : deactivations[d].member = savings'[s].member
                                       /\ deactivations[d].status = "pending"

\* No file, and no second confirmation of one, collects twice, early, or from a
\* member who leaves, whatever was recorded, corrected and removed by hand between
\* the imports (tagihan_review.go:306, :342, :429).
CollectedOnceAndDue ==
    [][\A p \in ClaimIds : Confirms(p) =>
        /\ OnceAMonth(claims[p].file.month)
        /\ WhatIsDue(claims[p].file)
        /\ LeavingStays
      ]_tagihanVars

\* The statement of the month, the sheet of loans in its workbook and the review
\* compute the same bill, each in its own way: by type, as arrears and the month,
\* and by loan; so a workbook that is returned as it was exported fits.
BillsAgree ==
    \A month \in StatementMonths :
        LET sheet == exportTagihanXLSX(month).details IN
        /\ \A l \in LoanIds : loans[l].status # "none" =>
            IF l \in DOMAIN sheet THEN sheet[l].actual = Due(l, month)
            ELSE Due(l, month) = 0 \/ memberStatus[loans[l].member] # "active"
                 \/ loans[l].member \notin employees
        /\ \A m \in Members, type \in LoanTypes :
            tagihanLoanDueTotalForType(m, type, month)
              = SumFunction([l \in {l \in LoansOf(m) : loans[l].type = type} |-> Due(l, month)])
        /\ \A l \in DOMAIN sheet : loans[l].member \in exportTagihanXLSX(month).members
=============================================================================
