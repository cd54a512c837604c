---------------------------- MODULE SeedManifest ----------------------------
(***************************************************************************)
(* What the import of historical data makes of a manifest:                 *)
(* validateSeedManifest of internal/app/seed_import.go.  A step validates  *)
(* one manifest.                                                           *)
(*                                                                         *)
(* Cells hold tenths of a rupiah, so that amounts may be fractional, or    *)
(* are Blank or Unreadable.  A date is that of LoanSchedule, or NoDate.    *)
(* A manifest is a record of sequences:                                    *)
(*   members  [name, joined, balances : category -> cell]                  *)
(*   savings  [name, date, amounts : category -> cell]                     *)
(*   loans    [name, hint, primary, principal, fee, obligation,            *)
(*             installment, remaining, duration, start, end, status]       *)
(*   evidence [name, hint, detail, method, amount, date]                   *)
(***************************************************************************)
EXTENDS LoanSchedule, FiniteSets

VARIABLE report     \* the manifest validated last, its rows and the issues found

Blank      == -9999999
Unreadable == -9999998
NoDate     == 0
NoHint     == ""

Categories == {"pokok", "wajib", "sukarela", "shu", "khusus"}

\* Fractions are refused in the cells of loans.
parseSeedMoney(cell) ==
    [value      |-> IF cell \in {Blank, Unreadable} \/ cell % 10 # 0 THEN 0 ELSE cell \div 10,
     fractional |-> cell \notin {Blank, Unreadable} /\ cell % 10 # 0,
     bad        |-> cell = Unreadable]

Magnitude(x) == IF x < 0 THEN -x ELSE x

\* And rounded, half away from zero, in those of savings.
parseSeedMoneyRounded(cell) ==
    LET money   == parseSeedMoney(cell)
        nearest == (Magnitude(cell) + 5) \div 10
    IN  IF money.fractional THEN [money EXCEPT !.value = IF cell < 0 THEN -nearest ELSE nearest]
        ELSE money

Rupiah(cell) == parseSeedMoneyRounded(cell).value

Blocker(entity, reason) == [blocker |-> TRUE, entity |-> entity, reason |-> reason]
Warning(entity, reason) == [blocker |-> FALSE, entity |-> entity, reason |-> reason]

\* An issue where a condition holds.
If(condition, issue) == IF condition THEN {issue} ELSE {}

hasBlockers(issues) == \E issue \in issues : issue.blocker

-----------------------------------------------------------------------------
(***************************************************************************)
(* Members.                                                                *)
(***************************************************************************)
Named(manifest, name) == {n \in DOMAIN manifest.members : manifest.members[n].name = name}

Known(manifest, name) == Cardinality(Named(manifest, name)) = 1

preparedMembers(manifest) ==
    SelectSeq(manifest.members, LAMBDA member : Known(manifest, member.name))

BalanceIssues(category, cell) ==
    LET money == parseSeedMoneyRounded(cell) IN
    If(money.bad, Blocker("member", "balance is invalid"))
      \cup If(money.value < 0, Blocker("member", "balance cannot be negative"))
      \cup If(category = "pkpri" /\ money.value # 0, Blocker("member", "no confirmed mapping"))
      \cup If(money.fractional, Warning("member", "balance rounded"))

MemberIssues(manifest) ==
    UNION {IF ~Known(manifest, member.name) THEN {Blocker("member", "name must be unique")}
           ELSE If(member.joined = NoDate, Blocker("member", "join date is required"))
                  \cup UNION {BalanceIssues(c, member.balances[c]) : c \in DOMAIN member.balances}
             : member \in Range(manifest.members)}

-----------------------------------------------------------------------------
Saving(name, category, value) ==
    [name |-> name, category |-> category,
     type |-> IF value < 0 THEN "withdrawal" ELSE "deposit", amount |-> Magnitude(value)]

\* A record is <<where it comes from, row, category, saving>>.
openingBalances(manifest) ==
    LET members == preparedMembers(manifest) IN
    {<<"opening", nc[1], nc[2],
       Saving(members[nc[1]].name, nc[2], Rupiah(members[nc[1]].balances[nc[2]]))>> :
        nc \in {mc \in (DOMAIN members) \X {"pokok", "khusus"} :
                    Rupiah(members[mc[1]].balances[mc[2]]) > 0}}

Imported(row, category) ==
    /\ ~parseSeedMoneyRounded(row.amounts[category]).bad
    /\ Rupiah(row.amounts[category]) # 0 /\ row.date # NoDate

\* The rows of known members, and the columns that are recorded.
LedgerCells(manifest) ==
    {nc \in (DOMAIN manifest.savings) \X Categories :
        /\ Known(manifest, manifest.savings[nc[1]].name)
        /\ Imported(manifest.savings[nc[1]], nc[2])}

ledgerRecords(manifest) ==
    {<<"ledger", nc[1], nc[2],
       Saving(manifest.savings[nc[1]].name, nc[2],
              Rupiah(manifest.savings[nc[1]].amounts[nc[2]]))>> : nc \in LedgerCells(manifest)}

ledgerTotal(manifest, name, category) ==
    FoldLeft(LAMBDA sum, row :
                 IF row.name = name /\ Imported(row, category)
                 THEN sum + Rupiah(row.amounts[category]) ELSE sum,
             0, manifest.savings)

SavingIssues(manifest) ==
    UNION {IF ~Known(manifest, row.name) THEN {Warning("saving", "row skipped")}
           ELSE UNION {LET money == parseSeedMoneyRounded(row.amounts[c]) IN
                       If(money.bad, Blocker("saving", "amount is invalid"))
                         \cup If(money.fractional, Warning("saving", "amount rounded"))
                         \cup If(money.value # 0 /\ row.date = NoDate,
                                 Blocker("saving", "record date is missing"))
                         : c \in Categories}
             : row \in Range(manifest.savings)}

ReconciliationIssues(manifest) ==
    UNION {LET cell  == mc[1].balances[mc[2]]
               money == parseSeedMoneyRounded(cell)
           IN  If(/\ cell # Blank /\ ~money.bad /\ ~money.fractional
                  /\ ledgerTotal(manifest, mc[1].name, mc[2]) # money.value,
                  Blocker("saving_reconciliation", "ledger does not match Master Anggota"))
             : mc \in Range(preparedMembers(manifest)) \X {"wajib", "sukarela"}}

-----------------------------------------------------------------------------
(***************************************************************************)
(* Loans.                                                                  *)
(***************************************************************************)
\* The primary workbook has no column for the obligation.
Obligation(loan) ==
    LET given == parseSeedMoney(loan.obligation)
        pokok == parseSeedMoney(loan.principal)
        admin == parseSeedMoney(loan.fee)
    IN  IF /\ ~given.bad /\ given.value = 0 /\ ~pokok.bad /\ ~admin.bad
           /\ pokok.value > 0 /\ admin.value >= 0
        THEN pokok.value + admin.value ELSE given.value

\* A cell of the instalments may say "Lunas" instead: Blank here.
Installment(loan) ==
    LET given == parseSeedMoney(loan.installment) IN
    IF ~given.bad /\ given.value = 0 /\ Obligation(loan) > 0 /\ loan.duration > 0
    THEN Obligation(loan) \div loan.duration ELSE given.value

Cells(loan) == {loan.principal, loan.fee, loan.obligation, loan.installment}

LoanIssues(manifest) ==
    UNION {IF ~Known(manifest, loan.name) THEN {Blocker("loan", "member is not present")}
           ELSE UNION {If(\E cell \in Cells(loan) : parseSeedMoney(cell).fractional,
                          Blocker("loan", "no rounding is allowed")),
                       If(\E cell \in Cells(loan) : parseSeedMoney(cell).bad,
                          Blocker("loan", "cell is invalid")),
                       If(parseSeedMoney(loan.principal).value <= 0,
                          Blocker("loan", "principal must be positive")),
                       If(parseSeedMoney(loan.fee).value < 0,
                          Blocker("loan", "admin fee cannot be negative")),
                       If(Obligation(loan) <= 0, Blocker("loan", "obligation must be positive")),
                       If(loan.duration \notin 1 .. 120, Blocker("loan", "duration")),
                       If(loan.start = NoDate, Blocker("loan", "start date is missing")),
                       If(Installment(loan) <= 0, Blocker("loan", "installment must be positive"))}
             : loan \in Range(manifest.loans)}

sourceLoans(manifest) ==
    SelectSeq(manifest.loans, LAMBDA loan : Known(manifest, loan.name))

-----------------------------------------------------------------------------
(***************************************************************************)
(* Repayments: each row of the evidence goes to one loan of its member.    *)
(***************************************************************************)
InWindow(loan, row) ==
    /\ loan.start # NoDate /\ row.date >= loan.start
    /\ loan.end # NoDate => row.date <= loan.end

ByHint(loan, row) == row.hint # NoHint /\ row.hint = loan.hint

\* The number of a detail row is not that of a loan.
Matches(loan, row) ==
    IF row.detail /\ row.date # NoDate THEN InWindow(loan, row) ELSE ByHint(loan, row)

Candidates(loans, row) == {n \in DOMAIN loans : loans[n].name = row.name}
Matching(loans, row)   == {n \in Candidates(loans, row) : Matches(loans[n], row)}

\* Mutant: the first of several loans is taken.
Selected_First(loans, row) ==
    IF Matching(loans, row) # {} THEN {CHOOSE n \in Matching(loans, row) :
                                         \A k \in Matching(loans, row) : n <= k}
    ELSE IF Cardinality(Candidates(loans, row)) = 1 THEN Candidates(loans, row) ELSE {}

\* At most one; a member's only loan takes whatever the member has repaid.
Selected(loans, row) ==
    IF Cardinality(Matching(loans, row)) = 1 THEN Matching(loans, row)
    ELSE IF Cardinality(Candidates(loans, row)) = 1 THEN Candidates(loans, row) ELSE {}

Cicilan(row) == row.method = "3. Cicilan"

\* A positive amount is a repayment, a refund or a suspension only an event.
Repays(row) ==
    /\ Cicilan(row) /\ ~parseSeedMoney(row.amount).bad /\ ~parseSeedMoney(row.amount).fractional
    /\ parseSeedMoney(row.amount).value > 0 /\ row.date # NoDate

IsEvent(row) ==
    /\ Cicilan(row) /\ ~parseSeedMoney(row.amount).bad /\ ~parseSeedMoney(row.amount).fractional
    /\ parseSeedMoney(row.amount).value <= 0

EvidenceIssue(manifest, row) ==
    LET money == parseSeedMoney(row.amount) IN
    IF row.method = "" THEN {Warning("loan_evidence", "blank Metod excluded")}
    ELSE IF ~Cicilan(row) THEN {}
    ELSE IF ~Known(manifest, row.name) THEN {Blocker("loan_repayment", "member is not present")}
    ELSE IF Selected(sourceLoans(manifest), row) = {}
    THEN {Blocker("loan_repayment", "cannot be matched to exactly one source loan")}
    ELSE IF money.bad \/ money.fractional THEN {Blocker("loan_repayment", "amount")}
    ELSE IF IsEvent(row) THEN {Warning("loan_repayment", "kept as an event")}
    ELSE If(row.date = NoDate, Blocker("loan_repayment", "date is missing"))

EvidenceIssues(manifest) ==
    UNION {EvidenceIssue(manifest, row) : row \in Range(manifest.evidence)}

\* The rows of evidence that a loan has taken.
RowsOf(manifest, n, Kind(_)) ==
    {k \in DOMAIN manifest.evidence :
        Kind(manifest.evidence[k]) /\ n \in Selected(sourceLoans(manifest), manifest.evidence[k])}

Repayments(manifest, n) ==
    SortSeq(SetToSeq(RowsOf(manifest, n, Repays)),
            LAMBDA a, b : manifest.evidence[a].date < manifest.evidence[b].date)

AmountsOf(manifest, rows) ==
    [k \in DOMAIN rows |-> parseSeedMoney(manifest.evidence[rows[k]].amount).value]

Total(amounts) == FoldLeft(LAMBDA sum, a : sum + a, 0, amounts)

\* time.AddDate: a day that the month lacks runs over into the next.
AddMonths(date, months) ==
    LET month == MonthOf(date) + months
        days  == DaysIn(month)
    IN  IF DayOf(date) <= days THEN Date(month, DayOf(date)) ELSE Date(month + 1, DayOf(date) - days)

\* The last instalment takes the remainder.
SeedInstallments(loan) ==
    [n \in 1 .. loan.duration |->
        [due       |-> AddMonths(loan.start, IF loan.primary THEN n - 1 ELSE n),
         scheduled |-> Obligation(loan) \div loan.duration
                         + (IF n = loan.duration THEN Obligation(loan) % loan.duration ELSE 0),
         paid      |-> 0]]

buildSeedSchedule(loan, amounts) ==
    IF loan.start = NoDate \/ loan.duration < 1 \/ Obligation(loan) < 1 THEN NoSchedule
    ELSE allocateRepaymentsOldestFirst(SeedInstallments(loan), amounts)

Outstanding(manifest, n) ==
    Obligation(sourceLoans(manifest)[n]) - Total(AmountsOf(manifest, Repayments(manifest, n)))

\* More than the obligation was repaid for a loan that the source calls Lunas.
Overpaid(manifest, n) ==
    Outstanding(manifest, n) < 0 /\ sourceLoans(manifest)[n].status = "Lunas"

preparedLoan(manifest, n) ==
    LET loan     == sourceLoans(manifest)[n]
        left     == Outstanding(manifest, n)
        schedule == buildSeedSchedule(loan, AmountsOf(manifest, Repayments(manifest, n)))
    IN  [name |-> loan.name, obligation |-> Obligation(loan), installment |-> Installment(loan),
         remaining |-> IF Overpaid(manifest, n) THEN 0 ELSE left,
         status |-> IF Overpaid(manifest, n) THEN "adjustment_due"
                    ELSE IF left = 0 THEN "paid" ELSE "active",
         repayments |-> RowsOf(manifest, n, Repays), events |-> RowsOf(manifest, n, IsEvent),
         schedule |-> IF Installment(loan) > 0 THEN schedule ELSE NoSchedule]

LoanReconciliationIssues(manifest) ==
    UNION {LET source == sourceLoans(manifest)[n]
               loan   == preparedLoan(manifest, n)
               stated == parseSeedMoney(source.remaining)
           IN  IF loan.remaining < 0 THEN {Blocker("loan_reconciliation", "repaid too much")}
               ELSE UNION {
                 If(Overpaid(manifest, n), Warning("loan_reconciliation", "adjustment_due")),
                 If(/\ source.remaining # Blank
                    /\ stated.bad \/ stated.fractional \/ stated.value # loan.remaining,
                    Blocker("loan_reconciliation", "remaining balance")),
                 If(source.status = "Lunas" /\ loan.status = "active",
                    Blocker("loan_reconciliation", "Lunas conflicts")),
                 If(source.status = "Cicilan" /\ loan.status = "paid",
                    Blocker("loan_reconciliation", "Cicilan conflicts")),
                 If(/\ source.start # NoDate /\ source.duration > 0 /\ loan.installment > 0
                    /\ Len(loan.schedule) # source.duration,
                    Blocker("loan_schedule", "incomplete")),
                 If(/\ source.end # NoDate /\ loan.schedule # NoSchedule
                    /\ loan.schedule[Len(loan.schedule)].due # source.end,
                    Blocker("loan_schedule", "end date"))}
             : n \in DOMAIN sourceLoans(manifest)}

-----------------------------------------------------------------------------
validateSeedManifest(manifest) ==
    [manifest |-> manifest,
     savings  |-> openingBalances(manifest) \cup ledgerRecords(manifest),
     loans    |-> [n \in DOMAIN sourceLoans(manifest) |-> preparedLoan(manifest, n)],
     issues   |-> UNION {MemberIssues(manifest), SavingIssues(manifest),
                         ReconciliationIssues(manifest), LoanIssues(manifest),
                         EvidenceIssues(manifest), LoanReconciliationIssues(manifest)}]

NoManifest == [members |-> << >>, savings |-> << >>, loans |-> << >>, evidence |-> << >>]

ManifestInit == report = validateSeedManifest(NoManifest)

Validate(manifest) ==
    /\ report.manifest = NoManifest
    /\ report' = validateSeedManifest(manifest)

Accepted == ~hasBlockers(report.issues)
-----------------------------------------------------------------------------
\* What the records of one member come to.
Balance(savings, name, category) ==
    LET Of(type) == {s \in savings : /\ s[4].name = name /\ s[4].category = category
                                     /\ s[4].type = type}
        Sum(set) == FoldLeft(LAMBDA sum, s : sum + s[4].amount, 0, SetToSeq(set))
    IN  Sum(Of("deposit")) - Sum(Of("withdrawal"))

\* Whoever has a whole balance of wajib or sukarela in the master sheet has it
\* after the import: the records that are written, deposits and withdrawals,
\* come to it (seed_import.go:525-586, two loops over the same rows).
BalancesReconcile ==
    Accepted =>
        \A member \in Range(preparedMembers(report.manifest)), c \in {"wajib", "sukarela"} :
            LET cell == member.balances[c] IN
            cell # Blank /\ ~parseSeedMoneyRounded(cell).fractional =>
                Balance(report.savings, member.name, c) = Rupiah(cell)

\* The balance, the status and the schedule of a loan are calculated apart from
\* each other and agree: the schedule asks for the obligation, the instalments
\* that are paid come to what is no longer outstanding, and a loan is paid when
\* every instalment is (seed_import.go:758-800, 1233-1272).
SchedulesAgree ==
    Accepted =>
        \A loan \in Range(report.loans) :
            /\ Scheduled(loan.schedule) = loan.obligation
            /\ PaidSum(loan.schedule) = loan.obligation - loan.remaining
            /\ (loan.status # "active") = (UnpaidSum(loan.schedule) = 0)

\* No repayment is credited to a loan while another loan of the member could
\* claim it as well, none is credited twice and none of "3. Cicilan" is lost
\* (seed_import.go:680-757).
CreditedOnce ==
    Accepted =>
        \A k \in DOMAIN report.manifest.evidence :
            LET row    == report.manifest.evidence[k]
                loans  == sourceLoans(report.manifest)
                takers == {n \in DOMAIN report.loans :
                             k \in report.loans[n].repayments \cup report.loans[n].events}
            IN  IF Cicilan(row)
                THEN \E n \in DOMAIN loans : takers = {n} /\ Matching(loans, row) \subseteq {n}
                ELSE takers = {}

\* An accepted manifest is taken over to the rupiah, whatever its sheets say of
\* each other: balances, schedules and repayments.
ImportsReconcile ==
    /\ BalancesReconcile
    /\ SchedulesAgree
    /\ CreditedOnce
=============================================================================
