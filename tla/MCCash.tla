------------------------------- MODULE MCCash -------------------------------
(***************************************************************************)
(* Cash transactions and their categories: instances for TLC, and what is  *)
(* checked of them.                                                        *)
(***************************************************************************)
EXTENDS ManualCash, TLC

CONSTANTS
    kas, biaya, gaji, tutup,    \* accounts: cash, two others, and one closed
    plain, other                \* names

(***************************************************************************)
(* The first state chooses what happens:                                   *)
(*   drafts      two drafts are edited, approved and reversed, and a       *)
(*               deposit is made and removed                               *)
(*   sources     one draft, whose reference may be typed and whose         *)
(*               category may be switched off; the sources of transactions *)
(*               are changed                                               *)
(*   categories  two officers change the categories at once, by hand and   *)
(*               by workbooks, while transactions are booked on them       *)
(***************************************************************************)
VARIABLE scenario

Row(direction, name, p) ==
    [direction |-> direction, name |-> name, parent |-> p, group |-> FALSE, active |-> TRUE]
Seeded == [i \in Categories |-> IF i = 1 THEN Row("cash_in", plain, NoParent) ELSE NoCategory]

\* Cash comes in, goes out, is only moved in the books, or is to come from an
\* account that is closed.
LineSets == UNION {{kas :> a @@ biaya :> -a, kas :> -a @@ biaya :> a} : a \in Amounts}
    \cup {kas :> 1 @@ tutup :> -1, biaya :> 1 @@ kas :> -2 @@ gaji :> 1}
JournalLines == LineSets \cup {biaya :> 1 @@ gaji :> -1}

Typed == IF scenario = "sources" THEN {<<1, 1>>} ELSE {}

EntriesHere ==
    [type : {"cash"}, day : {1}, reference : Typed \cup {NoReference},
     category : {Uncategorised, 1}, lines : LineSets]
    \cup [type : {"journal"}, day : {1}, reference : {NoReference},
          category : {Uncategorised}, lines : JournalLines]

DraftsHere == IF scenario = "drafts" THEN Drafts ELSE {CHOOSE d \in Drafts : TRUE}

Drafted == \E d \in DraftsHere, entry \in EntriesHere :
              recordManualCashTransaction(d, entry) \/ updateManualCashTransactionDraft(d, entry)
Approved == \E d \in DraftsHere : approveManualCashTransactionDraft(d)
Saved == \E s \in Deposits, a \in Amounts : insertSaving(s, today, a, kas :> a @@ biaya :> -a)
Removed == \E s \in Deposits : removeSavingByID(s)
Undone == \E i \in DOMAIN journals : reverseFinancialJournal(i, 1)
Moved == \E keys \in SUBSET TransactionKeys, source \in Sources : updateCashTransactionSources(keys, source)
SwitchedOver == \E o \in Officers :
    \/ /\ \A q \in Officers : changes[q] = NoChange
       /\ beginUpdate(o, 1, plain, NoParent, ~categories[1].active)
    \/ updateCashTransactionCategoryByID(o)

-----------------------------------------------------------------------------
Line(i, row) == [key |-> i, row |-> row, filled |-> TRUE, readable |-> TRUE]
Blank == [key |-> 1, row |-> Seeded[1], filled |-> FALSE, readable |-> FALSE]
Unreadable == [Blank EXCEPT !.filled = TRUE]

\* Workbooks that rename, turn round or move the old category, or list a new
\* one; of two categories in both orders, with a key twice, with an empty line,
\* and with one that cannot be read.
Books ==
    LET below == Line(1, Row("cash_out", plain, 2))
        above == Line(2, Row("cash_out", other, NoParent))
    IN {<<Line(1, Row("cash_in", other, NoParent))>>, <<Line(1, Row("cash_out", plain, NoParent))>>,
        <<Line(1, Row("cash_in", plain, 2))>>, <<Line(2, Row("cash_in", plain, 1))>>,
        <<below, above>>, <<above, below>>, <<above, Blank, below>>, <<above, above>>,
        <<above, Unreadable>>}

Entered == \E o \in Officers, i \in Categories, p \in {NoParent, 1} :
              beginInsert(o, i, "cash_in", other, p)

\* One thing at a time: the name, the parent or the switch.
Changed == \E o \in Officers, i \in {j \in Categories : Exists(categories, j)} :
    LET row == categories[i]
    IN \/ \E n \in Names \ {row.name} : beginUpdate(o, i, n, row.parent, row.active)
       \/ \E p \in (Categories \cup {NoParent}) \ {row.parent} : beginUpdate(o, i, row.name, p, row.active)
       \/ beginUpdate(o, i, row.name, row.parent, ~row.active)
Imported == \E o \in Officers, book \in Books : beginImport(o, book)
Written == \E o \in Officers :
    \/ insertCashTransactionCategory(o)
    \/ updateCashTransactionCategoryByID(o)
    \/ applyCashTransactionCategoryImport(o)
BookedOn == \E i \in Categories, d \in Directions : charge(i, d)

-----------------------------------------------------------------------------
CashInstanceNext ==
    /\ \/ scenario # "categories" /\ (Drafted \/ Approved \/ Saved \/ Removed \/ Undone \/ nextDay)
       \/ scenario = "sources" /\ Moved
       \/ scenario = "sources" /\ SwitchedOver /\ UNCHANGED cashVars
       \/ scenario = "categories" /\ (Entered \/ Changed \/ Imported \/ Written \/ BookedOn)
                                   /\ UNCHANGED cashVars
    /\ UNCHANGED scenario

CashInstanceInit ==
    ManualCashInit(Seeded) /\ scenario \in {"drafts", "sources", "categories"}

CashInstance ==
    /\ CashInstanceInit /\ [][CashInstanceNext]_<<allCashVars, scenario>>

Symmetry == Permutations(Officers)
=============================================================================
