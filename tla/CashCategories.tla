--------------------------- MODULE CashCategories ---------------------------
(***************************************************************************)
(* The categories of manual cash transactions: a forest of groups and      *)
(* leaves (cash_transaction_category_tree.go), entered and changed one by  *)
(* one (manual_cash_transactions.go) or by a workbook                      *)
(* (cash_transaction_category_import.go), and used by transactions.        *)
(*                                                                         *)
(* An officer's change is a transaction without Server.financialMu: it     *)
(* reads and checks, and later writes and commits, and other changes may   *)
(* come between.  The import and the posting of a transaction hold the     *)
(* mutex, so neither comes between the other's steps; the changes one by   *)
(* one come between both.  Categories are numbered in the order of their   *)
(* account codes; keys, balances, audits and the wording are left out.     *)
(***************************************************************************)
EXTENDS Integers, Sequences, FiniteSets, SequencesExt

CONSTANTS
    Categories,     \* numbers of the categories, 1 .. n
    Names,
    Officers,       \* who change categories, one change at a time each
    NoChange

Directions == {"cash_in", "cash_out"}
NoParent == 0
NoCategory == [direction |-> "none"]

Rows == [direction : Directions, name : Names, parent : Categories \cup {NoParent},
         group : BOOLEAN, active : BOOLEAN]

\* What an officer has read and is about to write.
Changes ==
    [kind : {"insert"}, fresh : SUBSET Categories, row : Rows]
    \cup [kind : {"update"}, fresh : {{}}, id : Categories, name : Names,
          parent : Categories \cup {NoParent}, active : BOOLEAN]
    \cup [kind : {"import"}, fresh : SUBSET Categories,
          line : UNION {[keys -> Nat] : keys \in SUBSET Categories},
          rows : UNION {[keys -> Rows] : keys \in SUBSET Categories},
          had : UNION {[keys -> Rows \cup {NoCategory}] : keys \in SUBSET Categories}]

ASSUME CategoriesAssumption ==
    /\ Categories \subseteq Nat \ {0} /\ IsFiniteSet(Categories)
    /\ NoChange \notin Changes

VARIABLES
    categories,     \* cash_transaction_categories
    charged,        \* the categories of the rows of manual_cash_transactions
    changes         \* what each officer has read and not yet written

categoryVars == <<categories, charged, changes>>

Exists(cats, i) == cats[i] # NoCategory
ParentOf(cats, i) == IF Exists(cats, i) THEN cats[i].parent ELSE NoParent

\* What a table of categories can be.
Forests ==
    {cats \in [Categories -> Rows \cup {NoCategory}] :
        \A i \in Categories : ParentOf(cats, i) # NoParent => Exists(cats, ParentOf(cats, i))}

CategoriesTypeOK ==
    /\ categories \in Forests
    /\ charged \in SUBSET (Categories \X Directions)
    /\ changes \in [Officers -> Changes \cup {NoChange}]

-----------------------------------------------------------------------------
(***************************************************************************)
(* The tree.                                                               *)
(***************************************************************************)

\* The chain of parents above i, i first, until it ends or comes back.
Chain(parent, i) ==
    LET up[n \in 0 .. Cardinality(Categories)] ==
            IF n = 0 THEN <<i>>
            ELSE LET above == parent[Last(up[n - 1])]
                 IN IF above = NoParent THEN up[n - 1] ELSE Append(up[n - 1], above)
    IN up[Cardinality(Categories)]

Circular(parent, i) == ~IsInjective(Chain(parent, i))

Parents(cats) == [i \in Categories |-> ParentOf(cats, i)]

\* May p be the parent of i?
validateCashTransactionCategoryParentTx(cats, i, p, direction) ==
    p # NoParent =>
        /\ p # i /\ Exists(cats, p)
        /\ cats[p].direction = direction
        /\ ~Circular([Parents(cats) EXCEPT ![i] = p], i)

ChildrenOf(cats, p) ==
    SetToSortSeq({i \in Categories : Exists(cats, i) /\ cats[i].parent = p}, <)

\* From each of some, what was not shown yet and then what is below it.
Walked(cats, shown, some) ==
    LET walk[before \in Seq(Categories), i \in Categories] ==
            IF Contains(before, i) THEN before
            ELSE FoldLeft(LAMBDA s, child : walk[s, child], Append(before, i), ChildrenOf(cats, i))
    IN FoldLeft(LAMBDA s, i : walk[s, i], shown, some)

Roots(cats, direction) ==
    SelectSeq(ChildrenOf(cats, NoParent), LAMBDA i : cats[i].direction = direction)

FromRoots(cats) == Walked(cats, <<>>, Roots(cats, "cash_in") \o Roots(cats, "cash_out"))

\* The page: the trees of both directions, then what no root leads to.
flattenCashTransactionCategories(cats) ==
    LET shown == FromRoots(cats)
        left == {i \in Categories : Exists(cats, i)} \ Range(shown)
    IN Walked(cats, shown, SetToSortSeq(left, <))

cashTransactionCategoryLeaves(cats) ==
    SelectSeq(flattenCashTransactionCategories(cats),
              LAMBDA i : ~cats[i].group /\ ChildrenOf(cats, i) = <<>>)

-----------------------------------------------------------------------------
(***************************************************************************)
(* What the database refuses: two categories of a direction with one name, *)
(* and a new name for a category that was used.                            *)
(***************************************************************************)
Charged(ch, i) == \E d \in Directions : <<i, d>> \in ch

NamesDiffer(cats) ==
    \A i, j \in Categories :
        (Exists(cats, i) /\ Exists(cats, j) /\ i # j)
            => <<cats[i].direction, cats[i].name>> # <<cats[j].direction, cats[j].name>>

\* Mutant: the trigger is gone; only the handlers look.
NameProtected_Unprotected(old, new, i) == TRUE

NameProtected(old, new, i) ==
    (Exists(old, i) /\ Charged(charged, i)) => new[i].name = old[i].name

Accepted(old, new) == NamesDiffer(new) /\ \A i \in Categories : NameProtected(old, new, i)

MakeGroup(cats, p) == IF p = NoParent THEN cats ELSE [cats EXCEPT ![p].group = TRUE]

Commit(o, new) ==
    /\ changes' = [changes EXCEPT ![o] = NoChange]
    /\ categories' = IF Accepted(categories, new) THEN new ELSE categories
    /\ UNCHANGED charged

Begin(o, change) ==
    /\ changes[o] = NoChange
    /\ changes' = [changes EXCEPT ![o] = change]
    /\ UNCHANGED <<categories, charged>>

Importing == \E o \in Officers : changes[o] # NoChange /\ changes[o].kind = "import"

-----------------------------------------------------------------------------
(***************************************************************************)
(* A category is entered.                                                  *)
(***************************************************************************)
beginInsert(o, i, direction, name, p) ==
    /\ ~Exists(categories, i)
    /\ \A q \in Officers : changes[q] # NoChange => i \notin changes[q].fresh
    /\ validateCashTransactionCategoryParentTx(categories, i, p, direction)
    /\ Begin(o, [kind |-> "insert", fresh |-> {i},
                 row |-> [direction |-> direction, name |-> name, parent |-> p,
                          group |-> FALSE, active |-> TRUE]])

insertCashTransactionCategory(o) ==
    /\ changes[o] # NoChange /\ changes[o].kind = "insert"
    /\ \E i \in changes[o].fresh :
        Commit(o, MakeGroup([categories EXCEPT ![i] = changes[o].row], changes[o].row.parent))

(***************************************************************************)
(* A category gets a name, a parent, or is switched off or on.             *)
(***************************************************************************)
beginUpdate(o, i, name, p, active) ==
    /\ Exists(categories, i)
    /\ categories[i].name # name => ~Charged(charged, i)
    /\ validateCashTransactionCategoryParentTx(categories, i, p, categories[i].direction)
    /\ Begin(o, [kind |-> "update", fresh |-> {}, id |-> i,
                 name |-> name, parent |-> p, active |-> active])

updateCashTransactionCategoryByID(o) ==
    /\ changes[o] # NoChange /\ changes[o].kind = "update"
    /\ LET c == changes[o]
       IN Commit(o, MakeGroup([categories EXCEPT ![c.id].name = c.name, ![c.id].parent = c.parent,
                                                 ![c.id].active = c.active], c.parent))

-----------------------------------------------------------------------------
(***************************************************************************)
(* The workbook: rows of new and old categories, written in their order.   *)
(***************************************************************************)
\* A workbook is read whole or not at all: its lines that are not empty have
\* readable cells, and no key comes twice.
parseCashTransactionCategoryTemplate(book) ==
    LET filled == {j \in DOMAIN book : book[j].filled}
    IN IF \A j \in filled : book[j].readable THEN [j \in filled |-> book[j]] ELSE <<>>

Keys(lines) == [j \in DOMAIN lines |-> lines[j].key]
LineOf(lines, i) == CHOOSE j \in DOMAIN lines : lines[j].key = i

Importable(lines) == lines # <<>> /\ IsInjective(Keys(lines))

Prospective(cats, rows) ==
    [i \in Categories |-> IF i \in DOMAIN rows THEN rows[i].parent ELSE ParentOf(cats, i)]

ParentsFit(cats, rows) ==
    \A i \in DOMAIN rows : rows[i].parent # NoParent =>
        /\ rows[i].parent \in DOMAIN rows \/ Exists(cats, rows[i].parent)
        /\ rows[i].direction =
              (IF rows[i].parent \in DOMAIN rows THEN rows[rows[i].parent].direction
               ELSE cats[rows[i].parent].direction)

beginImport(o, book) ==
    LET lines == parseCashTransactionCategoryTemplate(book)
        line == [i \in Range(Keys(lines)) |-> LineOf(lines, i)]
        rows == [i \in DOMAIN line |-> lines[line[i]].row]
    IN /\ ~Importing
       /\ Importable(lines)
       /\ ParentsFit(categories, rows)
       /\ \A i \in DOMAIN rows : ~Circular(Prospective(categories, rows), i)
       /\ \A q \in Officers : changes[q] # NoChange => changes[q].fresh \cap DOMAIN rows = {}
       /\ Begin(o, [kind |-> "import", line |-> line, rows |-> rows,
                    fresh |-> {i \in DOMAIN rows : ~Exists(categories, i)},
                    had |-> [i \in DOMAIN rows |-> categories[i]]])

\* What was used keeps the name and the direction that were read.
MayImport(had, row, i) ==
    (had # NoCategory /\ Charged(charged, i)) => (row.name = had.name /\ row.direction = had.direction)

\* The database knows a new parent only once its row was written.
ParentsFirst(change) ==
    \A i \in DOMAIN change.rows : change.rows[i].parent \in change.fresh =>
        change.line[change.rows[i].parent] < change.line[i]

\* Mutant: the rows say what is a group.
MarkGroups_AsGiven(cats) == cats

\* At the end every parent is made a group.
MarkGroups(cats) ==
    [i \in Categories |-> IF ChildrenOf(cats, i) = <<>> THEN cats[i]
                          ELSE [cats[i] EXCEPT !.group = TRUE]]

applyCashTransactionCategoryImport(o) ==
    /\ changes[o] # NoChange /\ changes[o].kind = "import"
    /\ LET rows == changes[o].rows
           new == MarkGroups([i \in Categories |-> IF i \in DOMAIN rows THEN rows[i] ELSE categories[i]])
       IN IF /\ ParentsFirst(changes[o])
             /\ \A i \in DOMAIN rows : MayImport(changes[o].had[i], rows[i], i)
          THEN Commit(o, new)
          ELSE /\ changes' = [changes EXCEPT ![o] = NoChange]
               /\ UNCHANGED <<categories, charged>>

-----------------------------------------------------------------------------
(***************************************************************************)
(* A transaction of a category is posted; the import is not under way.     *)
(***************************************************************************)
MayCharge(cats, i, direction) ==
    /\ Exists(cats, i) /\ cats[i].active
    /\ ~cats[i].group
    /\ cats[i].direction = direction

charge(i, direction) ==
    /\ ~Importing
    /\ MayCharge(categories, i, direction)
    /\ charged' = charged \cup {<<i, direction>>}
    /\ UNCHANGED <<categories, changes>>

CategoriesInit(seeded) ==
    /\ categories = seeded
    /\ charged = {}
    /\ changes = [o \in Officers |-> NoChange]

Workbooks == Seq([key : Categories, row : Rows, filled : BOOLEAN, readable : BOOLEAN])

CategoriesNext ==
    \/ \E o \in Officers, i \in Categories, name \in Names, p \in Categories \cup {NoParent} :
        \/ \E direction \in Directions : beginInsert(o, i, direction, name, p)
        \/ \E active \in BOOLEAN : beginUpdate(o, i, name, p, active)
    \/ \E o \in Officers, book \in Workbooks : beginImport(o, book)
    \/ \E o \in Officers :
        \/ insertCashTransactionCategory(o)
        \/ updateCashTransactionCategoryByID(o)
        \/ applyCashTransactionCategoryImport(o)
    \/ \E i \in Categories, direction \in Directions : charge(i, direction)

-----------------------------------------------------------------------------
\* Every category is on the page once, those in a cycle that two moves at a time
\* have closed too, and what has a category below it is a group, so that no
\* transaction is booked on it from then on, whatever workbooks say and whichever
\* of two changes is last (cash_transaction_category_tree.go:109,
\* cash_transaction_category_import.go:415).
CategoriesHangTogether ==
    LET shown == flattenCashTransactionCategories(categories)
    IN /\ IsInjective(shown)
       /\ Range(shown) = {i \in Categories : Exists(categories, i)}
       /\ \A i \in Range(shown) :
            categories[i].parent # NoParent => categories[categories[i].parent].group

\* Once used, a category keeps its name and its direction, also if it was not
\* used yet when the change was checked (manual_cash_transactions.go:804).
UsedKeepMeaning ==
    [][\A i \in Categories : Charged(charged, i) =>
        /\ categories'[i].name = categories[i].name
        /\ categories'[i].direction = categories[i].direction]_categoryVars
=============================================================================
