------------------------------ MODULE MCTagihan ------------------------------
(***************************************************************************)
(* Instances of Tagihan.  Dates are of the year after a January.           *)
(***************************************************************************)
EXTENDS Tagihan, TLC

Of(m, type, principal, duration) ==
    [member |-> m, type |-> type, asked |-> Date(1, 5), start |-> Date(1, 15),
     principal |-> principal, duration |-> duration]

\* A regular loan of two months, in instalments of 51.
MCLoan == {Of("m1", "regular", 100, 2)}
Save(wajib, sukarela) == [wajib |-> wajib, sukarela |-> sukarela]
MCConfigs == {Save(10, 0), Save(20, 5)}
File(form, month, members, unpaid, details) ==
    [form |-> form, month |-> month, date |-> month, members |-> members, unpaid |-> unpaid,
     actual |-> << >>, details |-> details]

Amounts(f, regular, paylater) ==
    [f EXCEPT !.actual = [m \in f.members |->
        [type \in LoanTypes |-> IF type = "regular" THEN regular
                                ELSE IF type = "goods_purchase_paylater" THEN paylater ELSE 0]]]

\* One statement month of the loan: paid in part, suspended, left open, and the
\* forms without a sheet of loans.
MCLoanFiles(l) ==
    {File("detailed", 3, {"m1"}, {}, [x \in {l} |-> Detail("m1", "payment", 31)]),
     File("detailed", 3, {"m1"}, {}, [x \in {l} |-> Detail("m1", "suspend", 0)]),
     File("statuses", 2, {"m1"}, {}, << >>),
     File("statuses", 2, {"m1"}, {}, [x \in {l} |-> Detail("m1", "suspend", 0)]),
     Amounts(File("amounts", 3, {"m1"}, {}, << >>), 31, 0)}

MCSavingFiles ==
    {File("statuses", 2, {"m1"}, {}, << >>), File("statuses", 2, {"m1"}, {"m1"}, << >>)}

CONSTANT Ell
MCFiles == MCLoanFiles(Ell) \cup MCSavingFiles

(***************************************************************************)
(* The first state chooses what is collected:                              *)
(*   loans    the instalments of one loan, paid, corrected and removed by  *)
(*            hand too, of two statement months                            *)
(*   savings  the savings of a member, who changes them by hand, is given  *)
(*            another configuration, and leaves                            *)
(***************************************************************************)
VARIABLE scenario

FilesHere ==
    IF scenario = "loans" THEN readTagihanFile \ MCSavingFiles
    ELSE MCSavingFiles \cup {exportTagihanXLSX(2)}

ImportHere ==
    \E p \in ClaimIds :
        \/ \E f \in FilesHere : previewTagihan(p, f)
        \/ confirmTagihan(p)
        \/ expireTagihanPreview(p)

MemberHere ==
    \/ scenario = "savings" /\ MemberStep
    \/ /\ scenario = "loans"
       /\ \/ ensureMissingMemberTagihanConfigs
          \/ \E m \in Members : setMemberType(m)
          \/ setMappings

\* Of the deposits one at a time is made by hand.
ByHand == {s \in SavingIds : savings[s].type = "deposit" /\ marks[s].reference = NoMonth}

TagihanInstanceNext ==
    /\ \/ ImportHere
       \/ MemberHere
       \/ scenario = "savings" /\ SavingStep /\ Cardinality(ByHand') <= 1
       \/ scenario = "loans" /\ LoanStep
    /\ UNCHANGED scenario

TagihanInstanceInit == TagihanInit /\ scenario \in {"loans", "savings"}

TagihanInstance == TagihanInstanceInit /\ [][TagihanInstanceNext]_<<tagihanVars, scenario>>
=============================================================================
