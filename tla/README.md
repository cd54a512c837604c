# A verification project for kopdes

kopdes is the back office of a savings-and-loan cooperative: a Go server
(`src/internal/app`, Gin and PostgreSQL) through which members ask for loans and
withdrawals, officers decide on them in a fixed order, a treasurer pays, and a
general ledger records every movement.  This directory holds TLA+ modules that
model its components, TLC runs that check them on small instances, and proofs,
checked by TLAPS, that hold for every instance.

Paths without a prefix are under `src/internal/app`.

## How the server works

Each state-changing request is one function that opens a transaction, reads with
`FOR UPDATE` (`rowLockClause`, `server.go:19`), checks, writes and commits; every
error path rolls back.  PostgreSQL runs at READ COMMITTED.  Most of these functions
also hold one process-wide mutex, `Server.financialMu`.  There are no queues, timers or
background jobs, so what is concurrent is the interleaving of these transactions.

Three kinds of handlers follow, and each is modelled as what it is.

* **Under the mutex, one transaction.**  One handler is one action: its guard is the
  conjunction of its checks, and a handler that fails is no step.  Withdrawals,
  deactivations, loans, repayments, journals, the confirmation of a Tagihan, the
  posting of a cash entry.  The rejections and cancellations among them that do not
  take the mutex rely on the request's row lock and on guarded UPDATEs, which makes them
  atomic with respect to the other handlers of the same row.
* **Without the mutex.**  Officer appointments, users, accounts and cash categories are
  modelled statement by statement: a call locks rows, waits for locked ones, reads what
  others have committed, and publishes its writes when it commits.
* **Several transactions.**  The start of a server and the import of historical data are
  sequences of transactions, one step each, with crashes between any two.  So are a preview and
  its later confirmation, and an idempotency key that is looked up before the lock.

## Inventory

| Component | State | Operations | Interacts with | What is hard | Correct when |
|---|---|---|---|---|---|
| Approval chains (`approvals.go`, `authorization.go`) | `*_approvals`, `notifications` | next stage, decide, notify, resolve | every request | three orders over the same stage names | no stage skipped, repeated or out of turn |
| Savings (`savings.go`, `saving_corrections.go`) | `saving_records`, removals | deposit, correct, remove | withdrawals, deactivations, limits, ledger | balances are sums read again each time; corrections look at no balance | withdrawal rows come from payments only |
| Withdrawals (`withdrawals.go`, `super_admin_overrides.go`) | requests, reservations, decisions, overrides, notices | submit, edit, approve, reject, cancel, override, disburse | savings | several requests on one balance; five tables a step | paid once, in full; promises stay covered; closed is closed |
| Member deactivation (`member_deactivation.go`) | requests, decisions, `members.status` | request, approve, reject, cancel, final payout | savings, withdrawals, officers | recorded balances against current ones; two Ketua Utama at once | a member leaves with nothing open and nothing owed |
| Loan requests (`loan_requests.go`, `loans.go`, `super_admin_overrides.go`) | requests, decisions, overrides, notices | submit, approve with terms, reject, cancel, override, disburse | savings (limit), loans | limit, payoff and schedule are computed again at the disbursement | lent once, on the terms agreed, within the limit |
| Loan batches (`admin_loan_requests.go`) | batches, keys | preview, commit, single request under a key | loan requests | stale previews, repeated calls | each workbook and key enters its requests once |
| Loan schedules (`loan_schedule.go`) | none | fees, instalments, dates | loans, seed, migrations | rounding next to the largest `int64` | exact, and the instalments sum to the debt |
| Loans and repayments (`loans.go`, `repayments.go`, `repayment_corrections.go`) | loans, instalments, repayments, suspensions | record, correct, remove, move the start, skip a month | Tagihan, ledger | oldest-first allocation replayed | the history explains the loan |
| Officers (`officers.go`, `members.go`) | appointments, users, notices, audits | appoint, change, switch, reset | approvals, deactivation | no mutex: locks, deadlocks, stale reads | officers are members; a Ketua Utama can sign in |
| Chart of accounts (`accounting.go`, `coa_import.go`) | accounts, mappings, drafts | insert, update, switch off, import | ledger | no mutex; uses counted before the UPDATE | used accounts keep their meaning |
| Ledger (`accounting*.go`) | journals, lines, mappings | post, resolve, reverse, backfill, correct | every money movement | journals that wait, reversals by hand | journals mirror records |
| Manual cash (`manual_cash_transactions.go`, `cash_transaction_*`) | drafts, transactions, sequences, categories | draft, approve, reverse, import categories | ledger | several officers on one draft or category | a draft is posted once; the list is what the books say |
| Tagihan (`tagihan*.go`, `member_tagihan_config.go`) | configurations, suspensions, tokens | export, preview, confirm | savings, repayments, deactivation | stale previews, second imports | what was shown is recorded, once and when due |
| Migrations and start-up (`migrations.go`, `auth.go`, `cmd/api`) | all of it | migrate, map officers, ensure a super admin | everything | crashes, several servers, bad mappings | nobody loses rights, tasks or payments |
| Seed import (`seed_import.go`, `cmd/seed`) | runs, rows, credentials | validate, import, append | start-up | crashes, retries, concurrent imports | a run's status is true of the rows |
| Authentication (`auth.go`) | sessions, throttle | log in, log out | all | | partly modelled, see the end |
| Reports, pages, translations, tracing | none | read and format | | | not modelled |

`PROJECT.json` lists the hazards of each at the line where they bite, with the
properties that cover them.

## Modules

| Module | Models |
|---|---|
| `Approvals` | stages, the orders of the three chains, decisions, open notices (no state) |
| `Savings` | saving records, balances, deposits, corrections, removals |
| `Withdrawals` | extends `Savings`; one action per handler of a withdrawal request |
| `WithdrawalSafety` | what must hold of withdrawals, and their mapping to the escrow |
| `PayoutEscrow` | abstract: held once, adjusted before agreement, then paid once or given back |
| `MemberDeactivation`, `DeactivationSafety` | extends `Withdrawals`: ending a membership, and what must hold of it |
| `LoanSchedule`, `LoanQuotes` | the arithmetic of fees, instalments and dates; a step that quotes one loan |
| `Loans` | loans, instalments, repayments, suspensions; no system of its own |
| `LoanRepayments` | extends `Loans`: the life of loans after they were paid out |
| `LoanRequests` | extends `Loans`: from asking for a loan to being paid it |
| `LoanBatches` | extends `LoanRequests`: workbooks and idempotency keys |
| `LoanSafety`, `LoanPromise` | what must hold of lending; abstract: terms agreed once, lent once, one open request per member |
| `Officers` | appointments, users, notices, statement by statement |
| `ChartOfAccounts` | accounts, mappings and drafts, lock by lock |
| `Ledger` | journals and mapping rules |
| `CashCategories`, `ManualCash` | the category forest; drafts, postings, reversals, the cash list and report |
| `Tagihan` | extends `LoanRepayments`: statement, workbook, preview, confirmation |
| `LegacyData`, `Startup`, `StartupSafety` | the migrations that convert rows; several servers that start |
| `SeedManifest`, `SeedImport` | what a manifest is made into; several imports on one database |
| `MC…` | the instances TLC checks, some with the properties of their component |
| `SumProofs` | laws of sums over finite sets |
| `WithdrawalsProofs` | proofs about withdrawals and, on top of them, deactivations |
| `LoanProofs` | lemmas about `LoanSchedule` and `Loans`; proofs about the arithmetic of terms, about loans after they were paid out, about loan requests, workbooks and keys, and about the loans made from them |
| `TagihanProofs` | proofs about monthly deductions |
| `OfficersProofs` | proofs about officers, notices and users |
| `LedgerProofs` | proofs about journals and mapping rules |
| `ChartProofs` | proofs about the chart of accounts; a proof about servers that start |
| `CashAndSeedProofs` | proofs about cash transactions, the list and the report of them, and their categories; proofs about concurrent imports of historical data |

### Correspondence

* A table is a function from its ids to records; a row that does not exist yet has
  `status` or `type` `"none"`, or is a `No…` constant.  Ids are drawn by `newID()` (16 random
  bytes), so TLC may treat them as interchangeable.
* `savings` keeps removed rows with type `"removed"` (`saving_record_removals`), so an id is
  never used twice.  `repayments` likewise keeps deleted rows.
* `withdrawals[r].disbursed` stands for `disbursement_date`, `disbursed_by` and `disbursed_at`,
  which are only ever set together; `reviewed` for `reviewed_by` and `reviewed_at`.  A loan
  request's `proposed` stands for the `proposed_` columns.
* `withdrawalApprovals[r]` and `loanApprovals[q]` are functions of the stage because of
  `UNIQUE (request_id, stage)`; `withdrawalOverrides[r]` and `loanOverrides[q]` hold the
  `previous_stage` of the one override that `UNIQUE (request_type, request_id)` admits.
* `withdrawalNotices[r]` and `loanNotices[q]` are the audiences with an unresolved notification;
  who holds the role is the subject of `Officers`, where a request is reduced to its stage.
* `deactivationPayouts[d]` is the set of rows whose reference is `DEAK-` and the request's id.
* A role is the actor's permission check: `DecidingRoles` are the roles with `requests.decide`.
* A date is the number 100 * month + day, which orders as the strings do.
* Amounts are natural numbers, except in the arithmetic of `LoanSchedule`, where products and sums
  wrap around at the width `MaxInt64`, because there the code guards against it.
* In `Ledger` a line is a component with an account and a signed amount; in `ManualCash` the lines
  of a journal are a signed sum of each account.
* A workbook is what its cells say: the sequence of its rows (`LoanBatches`), a record of members,
  amounts and decisions (`Tagihan`), a set of rows (`ChartOfAccounts`), a sequence of rows
  (`CashCategories`), a manifest (`SeedManifest`).  A file's hash is the file.
* A call of `Officers`, `ChartOfAccounts` or a change of `CashCategories` is a record of where the
  handler stands, the rows it has locked, what it has read and what it will write.
* Left out everywhere: names, notes, reasons, bank details, proposed account codes, wording, and
  audit rows that nothing reads.

## Runs

Each run is one instance.  Where everything at once would be too large to explore, the first state
chooses a *scenario*, a part of the component that is explored in full; the scenarios are described
at the head of each `MC` module.

| Run | Question | Instance | States |
|---|---|---|---|
| `MCWithdrawals` | Do the five tables keep step, is each request paid once, do requests starve each other, do the tables implement the escrow? | 2 members, 3 rows, 2 requests | 669,000 |
| `MCDeactivation` | Two Ketua Utama leave while a withdrawal is open and deposits are corrected: are withdrawals cleared, the recorded balances paid, and one Ketua Utama kept? | 2 members, 3 rows, 1 withdrawal, 2 deactivations | 1,267,000 |
| `MCLoans` | Is what is lent what was agreed, within the limit of the day, once, and does the component implement the promise? | 5 scenarios; 2 members, 2 requests, 2 loans, 2 workbooks, 2 keys | 256,000 |
| `MCLoanRepayments` | Does the history always explain instalments, balance, status and dates? | 2 loans, 3 repayments, 3 statement months | 85,000 |
| `MCCalculations` | Are the pure calculations exact, and do imported rows reconcile? | 5 scenarios; inputs at every boundary | 25,000 |
| `MCOfficers` | Who is an officer, who is asked to decide, can a Ketua Utama sign in, and does every call end? | 3 scenarios; 2 members, 4 roles, 2 calls at once | 360,000 |
| `MCChart` | Do mappings lead to postable accounts, do used accounts keep their meaning, does every change end? | 3 scenarios; 3 accounts, 2 calls at once, 1 draft | 295,000 |
| `MCLedger` | Do journals follow their records, can two rules apply to a line, is what waits posted in the end? | 3 scenarios; 2 rules, at most 7 journals | 72,000 |
| `MCCash` | Is a draft posted once, does the cash list follow the journals, is every category reachable, do used ones keep their meaning? | 3 scenarios; 2 drafts, 2 categories, 2 officers, at most 4 journals | 656,000 |
| `MCTagihan` | Is what was shown recorded, once and when due, and do the three computations of a bill agree? | 2 scenarios; 1 member, 1 loan, 2 months | 467,000 |
| `MCStartup` | Do officers, requests, payments and withdrawals keep what they had, is there one super admin at most, do servers come to serve? | 4 scenarios; 2 servers, 5 releases, 1 crash | 552,000 |
| `MCSeedImport` | Is the status of a run true of the rows, and does one import of a snapshot succeed? | 2 scenarios; 2 importers, 2 runs, 1 crash | 944,000 |

What each property says is stated in the comment before its definition.

### Bounds, and why they are enough

* *Withdrawals.*  A conflict needs two requests on one balance.  With deposits of 4 or 8 and requests
  of 3 or 5, one request fits 75 % of a single deposit, two of them need more, and
  two of 5 never fit.  Three rows are a deposit and both payouts, or two deposits and one payout.  The second
  member makes a sum over the wrong member visible.  Corrections cross each limit in both directions.
* *Deactivations.*  Both members are Ketua Utama and both may leave, so that each request is admitted
  while the other is active.  Three rows are a deposit and two payouts.
* *Loans.*  The threshold of Ketua Utama lies between the offers, and the amounts around the limit of what is saved.
  A second loan is what pays off the first.  The workbooks are one that is lent at once, one that is
  lent in part, one that repeats a member and one without rows.  Two calls under two keys are the
  least that can race.
* *Repayments.*  A loan of three instalments with amounts of 34, 42 and 68 pays less than one, one and
  a part, and two; 31 January as a due day meets a February.
* *Calculations.*  `int64` is scaled to 18 bits and the first tier to 25, so that the principals
  cross the tier, every rounding and the last product that fits.
* *Officers, chart, categories.*  Every race here is one of two calls: two locks in opposite order, or
  a read of one before a write of the other.
* *Ledger and cash.*  At most seven, three and four journals: a record, its correction (a reversal and a new
  journal), and a reversal by hand before, between and after.
* *Tagihan.*  One member is enough, because a file is confirmed as a whole; a month that repeats and
  the month after it are what can be confused.
* *Start-up and seed.*  Two processes and one crash; each database is the smallest with every
  kind of row that its migration converts.

`CHECK_DEADLOCK FALSE` is set throughout, because ids, months, journals and crashes are finite in an
instance, and once they are used up nothing has to happen.

### Fairness

Most steps wait for a person, and no fairness is assumed of them.  The liveness properties rest on
the following, and on nothing else.

* `CallsEnd`, `ChangesEnd` (`OfficersInstance`, `ChartInstance`): a handler that has begun runs on, and
  PostgreSQL grants a lock in the end, because waiting transactions queue for a row (strong fairness of
  `Proceed`), and ends one of two transactions that wait for each other (weak fairness of
  `breakDeadlock`).
* `CompletePosts` (`LedgerInstance`): a page that shows journals is opened again and again;
  each of them looks at the journals that wait (`ensureFinancialJournalsBackfilled`).
* `AllComeToServe` (`StartupInstance`): a container whose process has ended is started again
  (`restart: unless-stopped`, `compose.production.yml:4`), and its process runs on; asked of servers
  whose environment is sound.

### Where the documents and the code part

Modelling went from the code.  The following statements of the repository are not kept by it; the models
do what the code does, and no property claims the opposite.

*Withdrawals and deactivations.*
A balance can become negative when a deposit already paid out is corrected or removed
(`saving_corrections.go:306`; `docs/prd-saving-loan-cooperative-mvp.md:35`).
A submitted Penarikan of an officer's intake is edited (`withdrawals.go:477`; `CONTEXT.md:307`).
A Penarikan is approved by Manager, Ketua II and Ketua I (`approvals.go:67`; `CONTEXT.md:57` adds Ketua Utama).
The final approval does not write the saving record, a disbursement does (`withdrawals.go:657`;
`CONTEXT.md:300`, `:311`).

*Loans.*
Instalments are due on the 20th, whatever the day of the disbursement (`loan_schedule.go:253`; `CONTEXT.md:216`).
A correction that settles a loan stores NULL into `next_due_date`, which is NOT NULL, and fails
(`repayment_corrections.go:495`; the MVP document, line 60); `Loans` makes it a refusal.
A member can have two active loans of different types (`loans.go:590`; `CONTEXT.md:366`), and can ask for a
loan while one is owed (`loan_requests.go:270`; `CONTEXT.md:367`).
The chain of a small loan ends before Ketua Utama (`approvals.go:78`; `CONTEXT.md:57`).

*Officers.*
Two Ketua Utama demoted at once are each counted while both are active (`officers.go:370`; `CONTEXT.md:400`);
hence `AKetuaUtamaCanSignIn` is about users alone.
A request that moves while an officer is being appointed may give the officer no notice (`approvals.go:205`;
`CONTEXT.md:267`), hence `DecidedMeanwhile` is FALSE where notices are compared with stages.
The end of a membership suspends an appointment without an audit event (`migrations.go:2024`; `CONTEXT.md:270`)
and leaves its notices open (`member_deactivation.go:489`; `CONTEXT.md:268`).

*Accounts and ledger.*
Two moves of accounts, checked before either is written, make a cycle of parents (`accounting.go:297`; `i18n.go:258`).
The activation of a workbook may switch off a mapped account (`coa_import.go:354`; `i18n.go:262`), hence
`MappingsArePosting` is asked without imports.  The trial balance leaves out accounts that were switched off
(`accounting_reports.go:454`; `i18n.go:291`, `:313`).
A journal may be posted to an account between the count of its uses and its change
(`accounting.go:307`; `i18n.go:279`), hence postings and changes do not overlap in `MCChart`.
The pass that gives a waiting journal its last account does not post it, the next one does
(`accounting.go:652`; `i18n.go:363`); it may post to an account that was switched off since (`i18n.go:246`).
The backfill drops the fee line of a loan whose journal still waits (`accounting_backfill.go:153`, against its
comment at `:18`).  A removal leaves a deposit in the accounts whose journal was reversed twice
(`saving_corrections.go:222`; `i18n.go:869`).  An account that is switched off keeps the backfill, and with it every
page of journals, from opening (`accounting.go:564`; `i18n.go:291`).

*Cash.*
Two moves of categories make a cycle (`cash_transaction_category_tree.go:48`; `i18n.go:243`), and a workbook can give a
parent another direction than the categories below it (`cash_transaction_category_import.go:341`; `i18n.go:242`).
A journal entry or a reversal may move cash on a future day (`manual_cash_transactions.go:143`; `CONTEXT.md:279`).
A deposit reversed by hand and then removed leaves the cash list, its reversal does not (`transactions.go:147`), and cash
without a category is in no row of the breakdown (`reports_exports.go:810`; ADR 0017, line 23, calls both complete).

*Tagihan.*
All members but daily workers and customers are on a statement (`tagihan_review.go:290`; `CONTEXT.md:313` names Pegawai only); the workbook has
statuses, actual amounts or loan details besides the columns of `CONTEXT.md:321`; one invalid row refuses the whole
file, as ADR 0019 says and `CONTEXT.md:337` does not.
A deposit recorded by hand in the month is deducted a second time (`tagihan_review.go:314`; `CONTEXT.md:323`).
An unpaid row still deposits savings (`tagihan_review.go:344`; `i18n.go:58`).  A leaving member refuses the whole
file (`tagihan_review.go:357`; `i18n.go:1018`), and so does a configuration that changed after a first import
(`tagihan_review.go:351`; ADR 0020, line 15).  Loans with arrears are offered for a suspension that is then refused
(`tagihan_suspension.go:104`; `i18n.go:77`).

*Start-up.*
The swap of Ketua I and Ketua II leaves a request with Ketua II that Ketua I has approved, who is then asked a second
time and refused (`migrations.go:1776`; `CONTEXT.md:73`).  The slower of two servers can reset the password the super admin
has just changed (`auth.go:107`; `README.md:51`).  A corrected mapping can be refused because of what an earlier start
stored (`migrations.go:1866`; `docs/deployment/staging.md:38`).

*Seed* (`docs/seed-data/IMPORT-NOTES.md`).
`POKOK` becomes an opening record beside the ledger's cells (`seed_import.go:524`; lines 59-60); fractions of savings are rounded
(lines 41-43); an unknown name in the ledger is a warning (`:544`; line 28); a loan of the 31st may start two months later (`:1250`;
line 72); a member's only loan takes every repayment (`:713`; line 84); types of members are written in a transaction of their
own (`:285`; line 106), and so are the monthly configurations, with which a run can be marked failed whose rows are
committed (`:254`; lines 104-106); hence a failed run has left all its rows or none; passwords are lost with a crash before the file is written (`:298`; line 110); an append overwrites
member types (`:1048`; line 109) and gives inactive members accounts (`:842`; line 36).

## Proofs

The theorems hold for every value of the constants that meets the named assumptions of the modules:
any members, ids, amounts, workbooks and keys, and tables of any size.  The assumptions
(`SavingsAssumption`, `WithdrawalsAssumption`, `DeactivationAssumption`, `LoanScheduleAssumption`,
`LoanQuotesAssumption`, `LoansAssumption`, `LoanRequestsAssumption`, `LoanBatchesAssumption`,
`OfficersAssumption`, `LedgerAssumption`, `ChartAssumption`, `SeedAssumption`, `CategoriesAssumption`,
`ManualCashAssumption`, `StartupAssumption`, `TagihanAssumption`) say which
values are codes for "none", that amounts the handlers accept are positive, that sukarela is a category in
use, and that the sets of ids over which balances and totals are summed are finite, as tables are.  Of the workbooks of deductions
`TagihanAssumption` says what their readers check (`FileOK`): known members and loans, a statement month, no amount below zero.
`SeedRowsAssumption` says two things of the files that are imported: the id of a row of a workbook, made of
file, sheet and row, is that of one member, and workbooks with the same snapshot, a hash of their contents, have a row of
money in common.

### Withdrawals

* `TypeCorrectness`.  The type invariant is inductive by itself.
* `InvariantHolds`.  The safety invariants are not inductive one by one: that a disbursement
  pays into a fresh row needs that the rows other requests point at are withdrawals, that a
  released reservation is never consumed needs the status it follows, and the notifications of
  an approved request need its decisions.  `WithdrawalsInvariant` conjoins, per request,
  `RequestOK` (status, stage, decisions, override, reservation, notifications and payout row
  agree) with the facts that relate requests to rows.  Each handler writes one request, so
  the step theorem has one part per handler for the request it writes and one for all the others.
* `PaidOnceHolds` and `TablesKeepStepHolds` project it.
* `ClosedIsFinalHolds` is an action property: under the invariant no handler's guard holds of a
  closed request, and no savings handler touches its row.
* `Implementation`: under the invariant the phase of the escrow is a function of the request's row
  alone, so each handler is a step of the escrow for its request or a stutter.
* `PromisesStayCoveredHolds` is about sums over sets of rows.  `SumProofs` proves the laws
  of such sums that are needed (a row more, a row less, a row changed, order) by smallest
  counterexample over finite subsets, because an induction theorem takes an operator.

### Deactivations

* `CooperativeInvariantHolds`.  `CooperativeInvariant` extends the invariant of the withdrawals: payout
  rows of a deactivation are withdrawal rows too, so every withdrawal row has exactly one origin.  A pending
  deactivation has no open withdrawal and nobody who could ask for one.
* `NoOpenWithdrawalsHolds`, `PaidAsAgreedHolds`, `EndsSettledHolds`: the last approval compares the recorded
  balances with the current ones, and one payout row per category brings each of them to zero.
* `KeepsAKetuaUtamaHolds`: each last approval counts the others that are active.

### Loans

* `IntakeInvariantHolds`.  `IntakeInvariant` says that rows are well formed, that terms are fixed by the manager and by nobody
  else (so the officers after the manager, the override and the treasurer pass on the same proposal), that the requests of a
  committed workbook are whole and belong to it alone, and that a key is that of one request.  Every step is of one of
  three kinds (`Steps`): it leaves the requests alone, it makes or moves one, or it commits a workbook; what is proved about a
  kind is proved of all the handlers at once.
* `EnteredOnceHolds`: for workbooks of any length.  The reading of a workbook is a recursive function on its rows; the lemmas
  about it (`KeptExists`, `ParsedRows`) are again by the smallest row that would contradict them.
* `CommitsHoldNowHolds`, `LentWithinLimitHolds`: action properties.  The limit is a sum over any finite table at any width of
  integers.
* `ImplementsPromiseHolds`: asked, agreed, approved, lent and closed are functions of a request's row and the
  loans made of it; a commit is one step of the promise for all of its requests.

### Schedules, repayments and the truth about loans

* The first part of `LoanProofs` is what makes proofs about loans possible: the recursive functions of `LoanSchedule` and `Loans`
  (spreading a payment over instalments, replaying all payments, building a schedule) have a closed form, proved by the smallest
  instalment or payment that contradicts it.  An instalment has received its share of the total that was paid
  (`Spread`), whatever the payments were and in whatever order they came (`PaymentOnSpread`, `ReplaySpreads`).
* `TermsAreExactHolds`: of every quotation that is accepted, at any width of integers.  A fee is the nearest rupiah to its exact
  rate, the instalments add up to the debt, due dates are a month apart, the snapshot of the terms is accepted again when it is
  read back, and two payments that make up the debt settle the schedule oldest instalment first.  The guards
  against overflow are what makes each product that is used the true one.
* `HistoryInvariantHolds`.  `HistoryInvariant` says of each loan that its instalments are the spread of what is recorded as
  repaid, that status, balance and next due date follow from them (`RowOK`), and that its last due date is where its start
  and the suspensions that were sold put it.  Neither half is inductive alone: a correction
  replays the table, a payment adds to the row.
* `HistoryExplainsLoanHolds` and `ChangesKeepWhatIsPaidHolds` follow, for any payments, corrections, removals, suspensions and
  changes of the start in any order.
* `TruthInvariantHolds`.  To say that a request, the decisions on it, the notices about it and the loan made of it agree
  needs all of it at once: what was proved of intake (`IntakeInvariant`), of rows (`HistoryInvariant`), that decisions and
  notices are those of the stage (`StoriesHold`), that a loan has exactly one request and its terms (`LoansFit`), and that
  owners are members.  `RequestsTellTheTruthHolds` projects it.
* `PaysOffExactlyHolds`: a disbursement that pays off older loans records exactly what each owes and closes it, for any
  number of loans.

### Officers

* Handlers of officers interleave statement by statement.  `OfficersInvariantHolds` rests on the lock of the member's row,
  which is the one that keeps calls apart (`MemberLocksApart`); what a call has read under that lock is still true when it writes
  (`CallOK`).  `OfficersAreMembersHolds` projects it.
* `NoticesFollowStagesHolds` assumes `OnlyOfficers` and `AKetuaUtamaSignsInHolds` assumes `OnlyUsers`: the operations
  of the scenarios `notices` and `users` of `MCOfficers`, here with any number of overlapping calls.  The
  properties need them: a membership that ends, or a request that moves while an officer is being changed, leaves
  notices behind or out, and an appointment that ends beside a user that is switched off can leave nobody to sign in
  ([above](#where-the-documents-and-the-code-part)).

### Ledger

* `LedgerInvariantHolds`.  That at most one journal of a record stands is not inductive.  The removal of a deposit takes back the last
  row that booked it and looks at no other, so `Ordered` says that of the rows of a record only the last may stand; a
  journal that waits for an account is written anew in place, so `Chained` says that nothing has reversed it, and that a row only
  takes back an older one.  The backfill is a recursive function over the records it books; that it is defined, and
  that each booking keeps the invariant, is proved by the first booking that would contradict it.
* `JournalsFollowRecordsHolds` projects it: for any records, rules and accounts and any number of corrections, removals and
  reversals by hand.
* `RulesDisjointHolds`: active rules of one type, component and detail have dates that do not overlap (`KeysApart`).

### Chart of accounts

* `ChartInvariantHolds`.  A call reads the account, its lines and its mappings under locks and writes later, so the
  properties are not inductive.  `CallFits` says, per operation, what a call has found and not yet used: no active mapping of an
  account that is about to be switched off, no lines of an account that is about to be moved, no used account
  among the rows an import has already written unless it stays as it was.
* `MappingsArePostingHolds` and `UsedAccountsKeepMeaningHolds` project it.  The theorems are about
  `ChartInstance`, for any codes, mappings and drafts: calls come one by one, or several at once while nothing is
  posted.  Beyond that the properties do not hold of the code ([above](#where-the-documents-and-the-code-part)).

### Seed import

* `SeedInvariant` follows every import through its steps, whatever the others, the crashes and the migrations of a
  starting server do between them (`StandsAt`): which run is its own, what it may already have written, and what of
  that is still there.  A run that says succeeded is then one whose rows and types are all there, and a run that
  failed has left all of its rows or none (`RunsAreTrueHolds`).
* `OneSuccessHolds`: the check for an earlier success and the mark are steps far apart, and nothing locks the
  snapshot.  It is the key of a row of money that both imports would insert that lets only one of them commit.
* The proof found that a run can be marked failed after its rows were committed; the step that does it,
  `ensureMissingMemberTagihanConfigs`, is part of the model now.

While these were proved, guards of several `CASE` expressions turned out to overlap, where the
code's `switch` takes the first; they are disjoint now.

### Cash

* `CashInvariantHolds`.  `CashSpec` lets any officer do anything at any time, with any lines, days and workbooks; the
  scenarios of `MCCash` are parts of it.
* An officer's change of a category reads, and writes later, and other changes, imports and postings come
  between.  `ChangeFits` says what of that reading is still so when it is written: a new id is still free, a parent that was there is
  still there, what an import found still has its direction.  With it `UsedKeepMeaningHolds` is a step
  property: what the trigger of the database refuses and what the handlers refuse together keep the name and the
  direction of what was used.
* `RowsFit` matches the manual journals that move cash with the rows of cash transactions one to one, `SavingsFit` the sources of
  deposits with those of their journals, `DraftsFit` approved drafts with the journals that nobody reversed by
  hand.  That the number drawn for an entry is free is a pigeonhole: there are more numbers to try than rows (`FreeNumber`).
* `DraftsPostOnceHolds` projects it.
* `CashFollowsBooksHolds`: the pages show the list whole, whose concatenation is a recursive function; the report adds up the
  rows by what moves in and out, the books add up the journals, and the one-to-one match carries one sum into the
  other (`SumReindexed`); the categories of the report are a part of it (`SumGrouped`).

### Monthly deductions

* `TagihanInvariantHolds`.  `TagihanInvariant` is the history of loans (`HistoryInvariant`), with savings, marks, references and
  configurations that fit, and of each token that what it shows is a function of its file, its fingerprint and the members and
  types of loans (`ShownFrom`), which never change (`ShownStays`).  That is why it lasts while everything else changes.  A file pays
  several loans in one step, each through a new repayment of its own (`PaymentRows`, `ConfirmedHistory`).
* `BillsAgreeHolds`: the statement sums a join of loans and instalments by type, the review sums by loan, the sheet
  sums arrears and the current month apart.  That they agree rests on schedules being what the history says, where a finished
  loan has nothing unpaid (`BillsFollow`).
* `PreviewIsPromiseHolds`: a confirmation finds the fingerprint of the preview, so what it records is what was shown.
* `CollectedOnceAndDueHolds`: a total of zero for the month means that there is no row of it; and a payment no larger than
  what is due by a month is used up by instalments due by then, since they are filled oldest first (`OnlyDue`).

### Only model-checked, and why

* Liveness (`CallsEnd`, `ChangesEnd`, `CompletePosts`, `AllComeToServe`): fairness and `ENABLED` are beyond the prover.
* `ImportsReconcile`: it compares what folds over rows and files compute, most of which is induction over data.
* `CategoriesHangTogether`: the page walks the forest by a recursion through folds over children, on data that
  may have cycles.
* `UpgradesKeepRights`: what a chain of upgrades makes of old tables is compared with a definition over the same rows; the run
  enumerates the rows.

## Not modelled

* Hashing, cookies, sessions and the counters of the login throttle: each is a statement on one row.
* Pages, translations, static files, exports and print forms: they read and format.
* Tracing, and audit rows that nothing reads back.
* The cells of uploaded workbooks and the layout of exported ones; `seed_email.go`.
* Functions without a caller (`recordPaidTagihanRow`, `EnsureAdminUser`), and the SQLite variants, which only the tests run.
* Two application instances at once: they share no mutex, so withdrawals and loans would interleave statement by
  statement.  `compose.production.yml` runs one.
