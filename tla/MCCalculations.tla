--------------------------- MODULE MCCalculations ---------------------------
(***************************************************************************)
(* Instances of LoanQuotes and of SeedManifest: a step calculates the      *)
(* terms of one loan or validates one manifest.  int64 is scaled to 18     *)
(* bits and the first tier to 25, so that the principals cross the tier,   *)
(* every rounding and the last product that fits.                          *)
(***************************************************************************)
EXTENDS LoanQuotes, SeedManifest

MCPrincipals == 1 .. 60 \cup 1720 .. 1760 \cup {3333, 13104, 13105, 52417, 52418, 249000, 262143}
MCStarts     == {Date(1, 1), Date(1, 20), Date(1, 21), Date(11, 31)}

\* Manifests of savings and of loans, of two members, one of whom may have a
\* namesake.
Balances(pokok, wajib, pkpri) ==
    [pokok |-> pokok, wajib |-> wajib, sukarela |-> Blank, pkpri |-> pkpri, khusus |-> Blank]
Member(name, joined, balances) == [name |-> name, joined |-> joined, balances |-> balances]
Plain(name) == Member(name, Date(0, 1), Balances(Blank, Blank, Blank))

Row(name, date, pokok, wajib) ==
    [name |-> name, date |-> date,
     amounts |-> [pokok |-> pokok, wajib |-> wajib, sukarela |-> Blank, shu |-> Blank,
                  khusus |-> Blank]]

SavingRows ==
    {Row(name, date, pokok, wajib) :
        name \in {"ani", "budi"}, date \in {NoDate, Date(1, 2)}, pokok \in {Blank, 200},
        wajib \in {-45, -50, 100, 104, Unreadable}}

MasterRows ==
    {Member("ani", joined, Balances(pokok, wajib, pkpri)) :
        joined \in {NoDate, Date(0, 1)}, pokok \in {Blank, 200}, wajib \in {Blank, 0, 50, 105, 200},
        pkpri \in {Blank, 10}}

SavingManifests ==
    {[NoManifest EXCEPT !.members = <<member>>, !.savings = rows] :
        member \in MasterRows, rows \in {<<r>> : r \in SavingRows} \cup
            {<<r, Row("ani", Date(1, 3), Blank, wajib)>> : r \in SavingRows, wajib \in {-50, 100}}}

Loan(name, hint, primary, principal, obligation, installment, remaining, duration, start, end,
     status) ==
    [name |-> name, hint |-> hint, primary |-> primary, principal |-> principal, fee |-> 10,
     obligation |-> obligation, installment |-> installment, remaining |-> remaining,
     duration |-> duration, start |-> start, end |-> end, status |-> status]

FirstLoans ==
    {Loan("ani", "1", primary, principal, obligation, installment, remaining, duration, start,
          end, status) :
        primary \in BOOLEAN, principal \in {60, 65}, obligation \in {Blank, 80},
        installment \in {Blank, 30}, remaining \in {Blank, 0}, duration \in {0, 3},
        start \in {Date(0, 31), Date(1, 5)}, end \in {NoDate, Date(3, 5)}, status \in {"", "Lunas", "Cicilan"}}

SecondLoan == Loan("ani", "2", FALSE, 40, Blank, Blank, Blank, 2, Date(1, 5), Date(3, 5), "")

Evidence(name, hint, detail, method, amount, date) ==
    [name |-> name, hint |-> hint, detail |-> detail, method |-> method, amount |-> amount,
     date |-> date]

EvidenceRows ==
    {Evidence(name, hint, detail, method, amount, date) :
        name \in {"ani", "budi"}, hint \in {"1", "2"}, detail \in BOOLEAN,
        method \in {"", "1. Pencairan", "3. Cicilan"}, amount \in {-10, 0, 25, 30, 90},
        date \in {Date(0, 10), Date(2, 1), Date(6, 1)}}

Paid(amount) == Evidence("ani", "1", FALSE, "3. Cicilan", amount, Date(2, 1))

LoanManifests ==
    {[NoManifest EXCEPT !.members = <<Plain("ani")>>, !.loans = <<loan>>, !.evidence = rows] :
        loan \in FirstLoans,
        rows \in {<< >>, <<Paid(30)>>, <<Paid(30), Paid(40)>>, <<Paid(50), Paid(-10), Paid(40)>>}}

EvidenceManifests ==
    {[NoManifest EXCEPT
         !.members = <<Plain("ani")>>, !.evidence = <<row>>,
         !.loans = IF both THEN <<first, SecondLoan>> ELSE <<first>>] :
        row \in EvidenceRows, both \in BOOLEAN,
        first \in {l \in FirstLoans : /\ l.principal = 60 /\ l.obligation = Blank /\ l.duration = 3
                                      /\ l.installment = 30 /\ l.remaining = Blank
                                      /\ l.status = ""}}

Namesakes == {[NoManifest EXCEPT !.members = <<Plain("ani"), Plain("ani"), Plain("budi")>>]}

VARIABLE topic

ValidateOne(manifests) ==
    /\ \E manifest \in manifests : Validate(manifest)
    /\ UNCHANGED <<quote, topic>>

CalculationsNext ==
    \/ topic = "quotes" /\ QuotesNext /\ UNCHANGED <<report, topic>>
    \/ topic = "savings" /\ ValidateOne(SavingManifests)
    \/ topic = "loans" /\ ValidateOne(LoanManifests)
    \/ topic = "evidence" /\ ValidateOne(EvidenceManifests)
    \/ topic = "namesakes" /\ ValidateOne(Namesakes)

CalculationsInit ==
    /\ QuotesInit /\ ManifestInit
    /\ topic \in {"quotes", "savings", "loans", "evidence", "namesakes"}

CalculationsSpec == CalculationsInit /\ [][CalculationsNext]_<<quote, report, topic>>
=============================================================================
