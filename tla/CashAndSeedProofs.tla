------------------------- MODULE CashAndSeedProofs --------------------------
(***************************************************************************)
(* Proofs about manual cash transactions and their categories: what is     *)
(* booked, listed and reported, and what a category means once it is used. *)
(* Officers change categories in two steps each, without a common lock,    *)
(* while transactions are posted; what makes that safe is what a change    *)
(* has read and nobody else can have altered (ChangeFits).                 *)
(*                                                                         *)
(* Then proofs about imports of historical data, for any number of them at *)
(* the same time on any database: the status of a run is true of the rows, *)
(* and at most one import of a snapshot succeeds.  Rows are only ever      *)
(* added, and each names the run that has added it; what an import has     *)
(* found, and has added, is told by the step at which it stands.           *)
(***************************************************************************)
EXTENDS ManualCash, SeedImport, SumProofs, SequenceTheorems

-----------------------------------------------------------------------------
(***************************************************************************)
(* Categories.                                                             *)
(***************************************************************************)
ParentIsThere(cats, p) == p # NoParent => Exists(cats, p)

\* What an officer has read still holds, as far as the database depends on it.
ChangeFits(cats, c) ==
    /\ \A i \in c.fresh : ~Exists(cats, i)
    /\ c.kind = "insert" => ParentIsThere(cats, c.row.parent)
    /\ c.kind = "update" => Exists(cats, c.id) /\ ParentIsThere(cats, c.parent)
    /\ c.kind = "import" =>
        /\ DOMAIN c.had = DOMAIN c.rows
        /\ \A i \in DOMAIN c.rows :
            /\ c.rows[i].parent \in DOMAIN c.rows \/ ParentIsThere(cats, c.rows[i].parent)
            /\ i \in c.fresh \/ /\ Exists(cats, i) /\ c.had[i] # NoCategory
                                /\ c.had[i].direction = cats[i].direction

CategoryInvariant ==
    /\ CategoriesTypeOK
    /\ \A i \in Categories : Charged(charged, i) => Exists(categories, i)
    /\ \A o \in Officers : changes[o] # NoChange => ChangeFits(categories, changes[o])
    /\ \A o, q \in Officers : o # q /\ changes[o] # NoChange /\ changes[q] # NoChange =>
        /\ changes[o].fresh \cap changes[q].fresh = {}
        /\ ~(changes[o].kind = "import" /\ changes[q].kind = "import")

LEMMA RowFacts ==
    /\ NoCategory \notin Rows
    /\ \A row \in Rows : /\ row.direction \in Directions /\ row.name \in Names
                         /\ row.parent \in Categories \cup {NoParent}
    /\ NoParent \notin Categories
<1>1. "none" \notin Directions
    BY DEF Directions
<1>2. NoCategory \notin Rows
    BY <1>1 DEF Rows, NoCategory
<1>3. QED
    BY <1>2, CategoriesAssumption DEF Rows, NoParent

\* What the database accepts in place of the categories it has: parents are
\* there, categories stay, and what is used means what it did.
Succeeds(new) ==
    /\ new \in Forests
    /\ \A i \in Categories : Exists(categories, i) => Exists(new, i)
    /\ \A i \in Categories : Charged(charged, i) => new[i].direction = categories[i].direction

LEMMA ForestFacts ==
    ASSUME NEW cats
    PROVE  cats \in Forests <=>
            /\ cats \in [Categories -> Rows \cup {NoCategory}]
            /\ \A i \in Categories : Exists(cats, i) /\ cats[i].parent # NoParent =>
                Exists(cats, cats[i].parent)
<1>1. \A i \in Categories : ParentOf(cats, i) # NoParent <=> Exists(cats, i) /\ cats[i].parent # NoParent
    BY DEF ParentOf
<1>2. \A i \in Categories : Exists(cats, i) => ParentOf(cats, i) = cats[i].parent
    BY DEF ParentOf
<1>3. QED
    BY <1>1, <1>2 DEF Forests

\* A parent becomes a group: nothing else of any category changes.
LEMMA GroupFacts ==
    ASSUME NEW cats \in [Categories -> Rows \cup {NoCategory}], NEW p \in Categories \cup {NoParent},
           p # NoParent => Exists(cats, p)
    PROVE  /\ MakeGroup(cats, p) \in [Categories -> Rows \cup {NoCategory}]
           /\ \A i \in Categories :
                /\ Exists(MakeGroup(cats, p), i) <=> Exists(cats, i)
                /\ Exists(cats, i) =>
                    /\ MakeGroup(cats, p)[i].direction = cats[i].direction
                    /\ MakeGroup(cats, p)[i].name = cats[i].name
                    /\ MakeGroup(cats, p)[i].parent = cats[i].parent
<1>1. CASE p = NoParent
    BY <1>1 DEF MakeGroup
<1>2. CASE p # NoParent
    <2>1. p \in Categories /\ cats[p] \in Rows
        BY <1>2 DEF Exists
    <2> DEFINE row == [cats[p] EXCEPT !.group = TRUE]
               new == MakeGroup(cats, p)
    <2>2. /\ row \in Rows /\ row.direction = cats[p].direction /\ row.name = cats[p].name
          /\ row.parent = cats[p].parent
        BY <2>1 DEF Rows
    <2>3. new = [cats EXCEPT ![p] = row]
        BY <1>2 DEF MakeGroup
    <2> HIDE DEF row, new
    <2>4. /\ new \in [Categories -> Rows \cup {NoCategory}] /\ new[p] = row
          /\ \A i \in Categories : i # p => new[i] = cats[i]
        BY <2>1, <2>2, <2>3
    <2>5. \A i \in Categories : Exists(new, i) <=> Exists(cats, i)
        BY <2>1, <2>2, <2>4, RowFacts DEF Exists
    <2>6. QED
        BY <2>2, <2>4, <2>5 DEF new
<1>3. QED
    BY <1>1, <1>2

\* What no step may do to a category that is used.
UsedKept ==
    \A i \in Categories : Charged(charged, i) =>
        /\ categories'[i].name = categories[i].name
        /\ categories'[i].direction = categories[i].direction

\* Others' changes still fit when one has written.
LEMMA OthersFit ==
    ASSUME NEW c \in Changes, NEW old \in Forests, NEW new \in Forests, ChangeFits(old, c),
           \A i \in Categories : Exists(old, i) => Exists(new, i),
           \A i \in c.fresh : ~Exists(new, i),
           c.kind = "import" =>
               \A i \in Categories : Exists(old, i) => new[i].direction = old[i].direction
    PROVE  ChangeFits(new, c)
<1>1. \A p \in Categories \cup {NoParent} : ParentIsThere(old, p) => ParentIsThere(new, p)
    BY DEF ParentIsThere
<1>2. c.kind = "insert" => ParentIsThere(new, c.row.parent)
    <2>1. c.kind = "insert" => c.row \in Rows
        BY DEF Changes
    <2>2. QED
        BY <1>1, <2>1, RowFacts DEF ChangeFits
<1>3. c.kind = "update" => Exists(new, c.id) /\ ParentIsThere(new, c.parent)
    <2>1. c.kind = "update" => c.id \in Categories /\ c.parent \in Categories \cup {NoParent}
        BY DEF Changes
    <2>2. QED
        BY <1>1, <2>1 DEF ChangeFits
<1>4. ASSUME c.kind = "import"
      PROVE  /\ DOMAIN c.had = DOMAIN c.rows
             /\ \A i \in DOMAIN c.rows :
                 /\ c.rows[i].parent \in DOMAIN c.rows \/ ParentIsThere(new, c.rows[i].parent)
                 /\ i \in c.fresh \/ /\ Exists(new, i) /\ c.had[i] # NoCategory
                                     /\ c.had[i].direction = new[i].direction
    <2>1. \A i \in DOMAIN c.rows : i \in Categories /\ c.rows[i] \in Rows
        BY <1>4 DEF Changes
    <2>2. QED
        BY <1>1, <1>4, <2>1, RowFacts DEF ChangeFits
<1>5. QED
    BY <1>2, <1>3, <1>4 DEF ChangeFits

\* A change is committed, or the database refuses it.
LEMMA CommitKeeps ==
    ASSUME CategoryInvariant, NEW o \in Officers, changes[o] # NoChange, NEW new, Commit(o, new),
           Succeeds(new),
           \A i \in Categories : Exists(new, i) => Exists(categories, i) \/ i \in changes[o].fresh,
           \/ changes[o].kind = "import"
           \/ \A i \in Categories : Exists(categories, i) => new[i].direction = categories[i].direction
    PROVE  CategoryInvariant' /\ UsedKept
<1>1. /\ categories \in Forests /\ charged \in SUBSET (Categories \X Directions)
      /\ changes \in [Officers -> Changes \cup {NoChange}]
    BY DEF CategoryInvariant, CategoriesTypeOK
<1>2. /\ charged' = charged
      /\ changes' = [changes EXCEPT ![o] = NoChange]
      /\ categories' = categories \/ (categories' = new /\ Accepted(categories, new))
    BY DEF Commit
<1>3. /\ \A q \in Officers \ {o} : changes'[q] = changes[q]
      /\ changes'[o] = NoChange /\ changes' \in [Officers -> Changes \cup {NoChange}]
    BY <1>1, <1>2
<1>4. CategoriesTypeOK'
    BY <1>1, <1>2, <1>3 DEF CategoriesTypeOK, Succeeds
<1>5. \A i \in Categories : Charged(charged', i) => Exists(categories', i)
    BY <1>2 DEF CategoryInvariant, Succeeds
<1>6. ASSUME NEW q \in Officers, changes'[q] # NoChange
      PROVE  ChangeFits(categories', changes'[q])
    <2>1. /\ q # o /\ changes'[q] = changes[q] /\ changes[q] # NoChange /\ changes[q] \in Changes
          /\ ChangeFits(categories, changes[q])
        BY <1>1, <1>3, <1>6 DEF CategoryInvariant
    <2> DEFINE c == changes[q]
    <2>2. /\ changes[o].fresh \cap c.fresh = {}
          /\ ~(changes[o].kind = "import" /\ c.kind = "import")
        BY <2>1 DEF CategoryInvariant
    <2>3. c.fresh \subseteq Categories
        BY <2>1 DEF Changes
    <2>4. \A i \in c.fresh : ~Exists(new, i)
        BY <2>1, <2>2, <2>3 DEF ChangeFits
    <2>5. c.kind = "import" =>
              \A i \in Categories : Exists(categories, i) => new[i].direction = categories[i].direction
        BY <2>2
    <2> HIDE DEF c
    <2>6. ChangeFits(new, c)
        <3>1. /\ new \in Forests
              /\ \A i \in Categories : Exists(categories, i) => Exists(new, i)
            BY DEF Succeeds
        <3>2. c \in Changes /\ ChangeFits(categories, c)
            BY <2>1 DEF c
        <3>3. QED
            BY <1>1, <2>4, <2>5, <3>1, <3>2, OthersFit
    <2>7. QED
        BY <1>2, <2>1, <2>6 DEF c
<1>7. \A p, q \in Officers : p # q /\ changes'[p] # NoChange /\ changes'[q] # NoChange =>
        /\ changes'[p].fresh \cap changes'[q].fresh = {}
        /\ ~(changes'[p].kind = "import" /\ changes'[q].kind = "import")
    BY <1>3 DEF CategoryInvariant
<1>8. CategoryInvariant'
    BY <1>4, <1>5, <1>6, <1>7 DEF CategoryInvariant
<1>9. UsedKept
    <2>1. \A i \in Categories : Charged(charged, i) => Exists(categories, i)
        BY DEF CategoryInvariant
    <2>2. Accepted(categories, new) =>
              \A i \in Categories : Charged(charged, i) => new[i].name = categories[i].name
        BY <2>1 DEF Accepted, NameProtected
    <2>3. QED
        BY <1>2, <2>2 DEF UsedKept, Succeeds
<1>10. QED
    BY <1>8, <1>9

\* A change is begun: it fits, and takes nothing that another will write.
LEMMA BeginKeeps ==
    ASSUME CategoryInvariant, NEW o \in Officers, NEW c \in Changes, Begin(o, c),
           ChangeFits(categories, c),
           \A q \in Officers : changes[q] # NoChange =>
               /\ changes[q].fresh \cap c.fresh = {}
               /\ ~(changes[q].kind = "import" /\ c.kind = "import")
    PROVE  CategoryInvariant' /\ UsedKept
<1>1. /\ changes \in [Officers -> Changes \cup {NoChange}]
      /\ categories' = categories /\ charged' = charged /\ changes' = [changes EXCEPT ![o] = c]
    BY DEF CategoryInvariant, CategoriesTypeOK, Begin
<1>2. /\ \A q \in Officers \ {o} : changes'[q] = changes[q]
      /\ changes'[o] = c /\ changes' \in [Officers -> Changes \cup {NoChange}]
    BY <1>1
<1>3. CategoriesTypeOK'
    BY <1>1, <1>2 DEF CategoryInvariant, CategoriesTypeOK
<1>4. \A q \in Officers : changes'[q] # NoChange => ChangeFits(categories', changes'[q])
    BY <1>1, <1>2 DEF CategoryInvariant
<1>5. \A p, q \in Officers : p # q /\ changes'[p] # NoChange /\ changes'[q] # NoChange =>
        /\ changes'[p].fresh \cap changes'[q].fresh = {}
        /\ ~(changes'[p].kind = "import" /\ changes'[q].kind = "import")
    BY <1>2 DEF CategoryInvariant
<1>6. QED
    BY <1>1, <1>3, <1>4, <1>5 DEF CategoryInvariant, UsedKept

\* A category is written over another, or in an empty place, and its parent
\* becomes a group.
LEMMA WrittenFacts ==
    ASSUME NEW old \in Forests, NEW i \in Categories, NEW row \in Rows,
           ParentIsThere(old, row.parent),
           Exists(old, i) => row.direction = old[i].direction
    PROVE  /\ MakeGroup([old EXCEPT ![i] = row], row.parent) \in Forests
           /\ \A k \in Categories :
                LET new == MakeGroup([old EXCEPT ![i] = row], row.parent)
                IN /\ Exists(new, k) <=> Exists(old, k) \/ k = i
                   /\ Exists(old, k) => new[k].direction = old[k].direction
<1> DEFINE cats == [old EXCEPT ![i] = row]
           new == MakeGroup(cats, row.parent)
           p == row.parent
<1>1. /\ old \in [Categories -> Rows \cup {NoCategory}]
      /\ \A k \in Categories : Exists(old, k) /\ old[k].parent # NoParent => Exists(old, old[k].parent)
    BY ForestFacts
<1>2. /\ cats \in [Categories -> Rows \cup {NoCategory}] /\ cats[i] = row
      /\ \A k \in Categories : k # i => cats[k] = old[k]
    BY <1>1
<1> HIDE DEF cats
<1>3. \A k \in Categories : Exists(cats, k) <=> Exists(old, k) \/ k = i
    BY <1>2, RowFacts DEF Exists
<1>4. p \in Categories \cup {NoParent} /\ (p # NoParent => Exists(cats, p))
    BY <1>3, RowFacts DEF ParentIsThere
<1>5. /\ new \in [Categories -> Rows \cup {NoCategory}]
      /\ \A k \in Categories :
            /\ Exists(new, k) <=> Exists(cats, k)
            /\ Exists(cats, k) => new[k].direction = cats[k].direction /\ new[k].parent = cats[k].parent
    BY <1>2, <1>4, GroupFacts
<1> HIDE DEF new
<1>6. \A k \in Categories : Exists(new, k) /\ new[k].parent # NoParent => Exists(new, new[k].parent)
    <2>1. SUFFICES ASSUME NEW k \in Categories, Exists(new, k), new[k].parent # NoParent
                   PROVE  Exists(new, new[k].parent)
        OBVIOUS
    <2>2. Exists(cats, k) /\ new[k].parent = cats[k].parent /\ cats[k] \in Rows
        BY <1>2, <1>5, <2>1 DEF Exists
    <2>3. CASE k = i
        BY <1>2, <1>4, <1>5, <2>1, <2>2, <2>3
    <2>4. CASE k # i
        <3>1. Exists(old, k) /\ cats[k] = old[k]
            BY <1>2, <1>3, <2>2, <2>4
        <3>2. old[k].parent \in Categories /\ Exists(old, old[k].parent)
            BY <1>1, <2>1, <2>2, <3>1, RowFacts
        <3>3. QED
            BY <1>3, <1>5, <2>2, <3>1, <3>2
    <2>5. QED
        BY <2>3, <2>4
<1>7. new \in Forests
    BY <1>5, <1>6, ForestFacts
<1>8. \A k \in Categories : /\ Exists(new, k) <=> Exists(old, k) \/ k = i
                            /\ Exists(old, k) => new[k].direction = old[k].direction
    <2>1. SUFFICES ASSUME NEW k \in Categories, Exists(old, k) PROVE new[k].direction = old[k].direction
        BY <1>3, <1>5
    <2>2. new[k].direction = cats[k].direction
        BY <1>3, <1>5, <2>1
    <2>3. CASE k = i
        BY <1>2, <2>1, <2>2, <2>3
    <2>4. CASE k # i
        BY <1>2, <2>1, <2>2, <2>4
    <2>5. QED
        BY <2>3, <2>4
<1>9. QED
    BY <1>7, <1>8 DEF new, cats

LEMMA InsertKeeps ==
    ASSUME CategoryInvariant, NEW o \in Officers, insertCashTransactionCategory(o)
    PROVE  CategoryInvariant' /\ UsedKept
<1> DEFINE c == changes[o]
<1>1. /\ c # NoChange /\ c \in Changes /\ c.kind = "insert" /\ ChangeFits(categories, c)
      /\ categories \in Forests
    BY DEF insertCashTransactionCategory, CategoryInvariant, CategoriesTypeOK
<1>2. PICK i \in c.fresh :
          Commit(o, MakeGroup([categories EXCEPT ![i] = c.row], c.row.parent))
    BY DEF insertCashTransactionCategory
<1>3. c.fresh \subseteq Categories /\ c.row \in Rows
    BY <1>1 DEF Changes
<1>4. i \in Categories /\ ~Exists(categories, i) /\ ParentIsThere(categories, c.row.parent)
    BY <1>1, <1>2, <1>3 DEF ChangeFits
<1> DEFINE new == MakeGroup([categories EXCEPT ![i] = c.row], c.row.parent)
<1>5. /\ new \in Forests
      /\ \A k \in Categories : /\ Exists(new, k) <=> Exists(categories, k) \/ k = i
                               /\ Exists(categories, k) => new[k].direction = categories[k].direction
    <2> HIDE DEF c
    <2>1. QED
        BY <1>1, <1>3, <1>4, WrittenFacts
<1>6. Commit(o, new)
    BY <1>2
<1> HIDE DEF new
<1>7. Succeeds(new)
    BY <1>5 DEF Succeeds, CategoryInvariant
<1>8. QED
    BY <1>1, <1>2, <1>5, <1>6, <1>7, CommitKeeps

LEMMA UpdateKeeps ==
    ASSUME CategoryInvariant, NEW o \in Officers, updateCashTransactionCategoryByID(o)
    PROVE  CategoryInvariant' /\ UsedKept
<1> DEFINE c == changes[o]
           row == [categories[c.id] EXCEPT !.name = c.name, !.parent = c.parent, !.active = c.active]
           new == MakeGroup([categories EXCEPT ![c.id] = row], row.parent)
<1>1. /\ c # NoChange /\ c \in Changes /\ c.kind = "update" /\ ChangeFits(categories, c)
      /\ categories \in Forests /\ categories \in [Categories -> Rows \cup {NoCategory}]
    BY DEF updateCashTransactionCategoryByID, CategoryInvariant, CategoriesTypeOK, Forests
<1>2. /\ c.id \in Categories /\ c.name \in Names /\ c.parent \in Categories \cup {NoParent}
      /\ c.active \in BOOLEAN
    BY <1>1 DEF Changes
<1>3. Exists(categories, c.id) /\ ParentIsThere(categories, c.parent)
    BY <1>1 DEF ChangeFits
<1>4. categories[c.id] \in Rows
    BY <1>1, <1>2, <1>3 DEF Exists
<1>5. row \in Rows /\ row.parent = c.parent /\ row.direction = categories[c.id].direction
    BY <1>2, <1>4 DEF Rows
<1>6. [categories EXCEPT ![c.id].name = c.name, ![c.id].parent = c.parent, ![c.id].active = c.active]
          = [categories EXCEPT ![c.id] = row]
    BY <1>1, <1>2
<1>7. Commit(o, new)
    BY <1>5, <1>6 DEF updateCashTransactionCategoryByID
<1>8. /\ new \in Forests
      /\ \A k \in Categories : /\ Exists(new, k) <=> Exists(categories, k) \/ k = c.id
                               /\ Exists(categories, k) => new[k].direction = categories[k].direction
    <2>1. ParentIsThere(categories, row.parent)
        BY <1>3, <1>5
    <2>2. row \in Rows /\ (Exists(categories, c.id) => row.direction = categories[c.id].direction)
        BY <1>5
    <2> HIDE DEF row, c
    <2>3. QED
        BY <1>1, <1>2, <2>1, <2>2, WrittenFacts
<1> HIDE DEF new, row
<1>9. Succeeds(new)
    BY <1>8 DEF Succeeds, CategoryInvariant
<1>10. QED
    BY <1>1, <1>3, <1>7, <1>8, <1>9, CommitKeeps

\* The parents of a table become groups: nothing else of any category changes.
LEMMA MarkFacts ==
    ASSUME NEW cats \in Forests
    PROVE  /\ MarkGroups(cats) \in Forests
           /\ \A i \in Categories :
                /\ Exists(MarkGroups(cats), i) <=> Exists(cats, i)
                /\ Exists(cats, i) => MarkGroups(cats)[i].direction = cats[i].direction
<1> DEFINE new == MarkGroups(cats)
<1>1. /\ cats \in [Categories -> Rows \cup {NoCategory}]
      /\ \A i \in Categories : Exists(cats, i) /\ cats[i].parent # NoParent => Exists(cats, cats[i].parent)
    BY ForestFacts
<1>2. \A i \in Categories : new[i] \in {cats[i], [cats[i] EXCEPT !.group = TRUE]}
    BY DEF MarkGroups
<1>3. \A i \in Categories : /\ new[i] \in Rows \cup {NoCategory}
                            /\ Exists(new, i) <=> Exists(cats, i)
                            /\ Exists(cats, i) => /\ new[i].direction = cats[i].direction
                                                  /\ new[i].parent = cats[i].parent
    <2>1. SUFFICES ASSUME NEW i \in Categories
                   PROVE  /\ new[i] \in Rows \cup {NoCategory}
                          /\ Exists(new, i) <=> Exists(cats, i)
                          /\ Exists(cats, i) => /\ new[i].direction = cats[i].direction
                                                /\ new[i].parent = cats[i].parent
        OBVIOUS
    <2> DEFINE row == [cats[i] EXCEPT !.group = TRUE]
    <2>2. CASE cats[i] = NoCategory
        <3>1. row = NoCategory
            BY <2>2 DEF NoCategory
        <3>2. new[i] = NoCategory
            BY <1>2, <2>2, <3>1
        <3>3. QED
            BY <2>2, <3>2 DEF Exists
    <2>3. CASE cats[i] # NoCategory
        <3>1. cats[i] \in Rows
            BY <1>1, <2>3
        <3>2. row \in Rows /\ row.direction = cats[i].direction /\ row.parent = cats[i].parent
            BY <3>1 DEF Rows
        <3> HIDE DEF row, new
        <3>3. new[i] = cats[i] \/ new[i] = row
            BY <1>2 DEF row, new
        <3>4. QED
            BY <2>3, <3>1, <3>2, <3>3, RowFacts DEF Exists
    <2>4. QED
        BY <2>2, <2>3
<1>4. new \in [Categories -> Rows \cup {NoCategory}]
    <2>1. new = [i \in Categories |-> new[i]]
        BY DEF MarkGroups
    <2> HIDE DEF new
    <2>2. QED
        BY <1>3, <2>1
<1> HIDE DEF new
<1>5. \A i \in Categories : Exists(new, i) /\ new[i].parent # NoParent => Exists(new, new[i].parent)
    <2>1. SUFFICES ASSUME NEW i \in Categories, Exists(new, i), new[i].parent # NoParent
                   PROVE  Exists(new, new[i].parent)
        OBVIOUS
    <2>2. Exists(cats, i) /\ cats[i] \in Rows /\ new[i].parent = cats[i].parent
        BY <1>1, <1>3, <2>1 DEF Exists
    <2>3. new[i].parent \in Categories /\ Exists(cats, new[i].parent)
        BY <1>1, <2>1, <2>2, RowFacts
    <2>4. QED
        BY <1>3, <2>3
<1>6. new \in Forests
    BY <1>4, <1>5, ForestFacts
<1>7. QED
    BY <1>3, <1>6 DEF new

LEMMA ImportKeeps ==
    ASSUME CategoryInvariant, NEW o \in Officers, applyCashTransactionCategoryImport(o)
    PROVE  CategoryInvariant' /\ UsedKept
<1> DEFINE c == changes[o]
           rows == c.rows
           cats == [i \in Categories |-> IF i \in DOMAIN rows THEN rows[i] ELSE categories[i]]
           new == MarkGroups(cats)
<1>1. /\ c # NoChange /\ c \in Changes /\ c.kind = "import" /\ ChangeFits(categories, c)
      /\ categories \in Forests /\ categories \in [Categories -> Rows \cup {NoCategory}]
    BY DEF applyCashTransactionCategoryImport, CategoryInvariant, CategoriesTypeOK, Forests
<1>2. \A i \in DOMAIN rows : i \in Categories /\ rows[i] \in Rows
    BY <1>1 DEF Changes
<1>3. /\ \A i \in c.fresh : ~Exists(categories, i)
      /\ \A i \in DOMAIN rows :
            /\ rows[i].parent \in DOMAIN rows \/ ParentIsThere(categories, rows[i].parent)
            /\ i \in c.fresh \/ /\ Exists(categories, i) /\ c.had[i] # NoCategory
                                /\ c.had[i].direction = categories[i].direction
    BY <1>1 DEF ChangeFits
<1>4. CASE Commit(o, new) /\ \A i \in DOMAIN rows : MayImport(c.had[i], rows[i], i)
    <2>1. /\ cats \in [Categories -> Rows \cup {NoCategory}]
          /\ \A i \in DOMAIN rows : cats[i] = rows[i]
          /\ \A i \in Categories \ DOMAIN rows : cats[i] = categories[i]
        BY <1>1, <1>2
    <2> HIDE DEF cats, c
    <2>2. /\ \A i \in DOMAIN rows : Exists(cats, i)
          /\ \A i \in Categories \ DOMAIN rows : Exists(cats, i) <=> Exists(categories, i)
        BY <1>2, <2>1, RowFacts DEF Exists
    <2>3. cats \in Forests
        <3>1. SUFFICES ASSUME NEW i \in Categories, Exists(cats, i), cats[i].parent # NoParent
                       PROVE  Exists(cats, cats[i].parent)
            BY <2>1, ForestFacts
        <3> DEFINE p == cats[i].parent
        <3>2. p \in Categories
            BY <2>1, <3>1, RowFacts DEF Exists
        <3>3. p \in DOMAIN rows \/ Exists(categories, p)
            <4>1. CASE i \in DOMAIN rows
                BY <1>3, <2>1, <3>1, <4>1 DEF ParentIsThere
            <4>2. CASE i \notin DOMAIN rows
                BY <1>1, <2>1, <2>2, <3>1, <4>2, ForestFacts
            <4>3. QED
                BY <4>1, <4>2
        <3>4. QED
            BY <2>2, <3>2, <3>3
    <2>4. \A i \in Categories : Charged(charged, i) => cats[i].direction = categories[i].direction
        <3>1. SUFFICES ASSUME NEW i \in Categories, Charged(charged, i), i \in DOMAIN rows
                       PROVE  rows[i].direction = categories[i].direction
            BY <2>1
        <3>2. Exists(categories, i)
            BY <3>1 DEF CategoryInvariant
        <3>3. c.had[i] # NoCategory /\ c.had[i].direction = categories[i].direction
            BY <1>3, <3>1, <3>2
        <3>4. QED
            BY <1>4, <3>1, <3>3 DEF MayImport
    <2>5. /\ new \in Forests
          /\ \A i \in Categories : /\ Exists(new, i) <=> Exists(cats, i)
                                   /\ Exists(cats, i) => new[i].direction = cats[i].direction
        BY <2>3, MarkFacts
    <2> HIDE DEF new
    <2>6. \A i \in Categories : Exists(categories, i) => Exists(new, i)
        BY <2>2, <2>5
    <2>7. Succeeds(new)
        <3>1. \A i \in Categories : Charged(charged, i) => Exists(cats, i)
            BY <2>2 DEF CategoryInvariant
        <3>2. QED
            BY <2>4, <2>5, <2>6, <3>1 DEF Succeeds
    <2>8. \A i \in Categories : Exists(new, i) => Exists(categories, i) \/ i \in c.fresh
        BY <1>3, <2>2, <2>5
    <2>9. QED
        BY <1>1, <1>4, <2>7, <2>8, CommitKeeps DEF c
<1>5. CASE Commit(o, categories)
    <2>1. Succeeds(categories)
        BY <1>1 DEF Succeeds
    <2>2. QED
        BY <1>1, <1>5, <2>1, CommitKeeps
<1>6. QED
    <2>1. \/ Commit(o, new) /\ \A i \in DOMAIN rows : MayImport(c.had[i], rows[i], i)
          \/ changes' = [changes EXCEPT ![o] = NoChange] /\ UNCHANGED <<categories, charged>>
        BY DEF applyCashTransactionCategoryImport
    <2>2. QED
        BY <1>4, <1>5, <2>1 DEF Commit

-----------------------------------------------------------------------------
LEMMA BeginInsertKeeps ==
    ASSUME CategoryInvariant, NEW o \in Officers, NEW i \in Categories, NEW direction \in Directions,
           NEW name \in Names, NEW p \in Categories \cup {NoParent},
           beginInsert(o, i, direction, name, p)
    PROVE  CategoryInvariant' /\ UsedKept
<1> DEFINE row == [direction |-> direction, name |-> name, parent |-> p, group |-> FALSE, active |-> TRUE]
           c == [kind |-> "insert", fresh |-> {i}, row |-> row]
<1>1. row \in Rows /\ row.parent = p
    BY DEF Rows
<1>2. Begin(o, c)
    BY DEF beginInsert
<1> HIDE DEF row
<1>3. c \in Changes /\ c.kind = "insert" /\ c.fresh = {i} /\ c.row = row
    BY <1>1 DEF Changes
<1> HIDE DEF c
<1>4. ParentIsThere(categories, p)
    BY DEF beginInsert, validateCashTransactionCategoryParentTx, ParentIsThere
<1>5. ChangeFits(categories, c)
    BY <1>1, <1>3, <1>4 DEF ChangeFits, beginInsert
<1>6. \A q \in Officers : changes[q] # NoChange => i \notin changes[q].fresh
    BY DEF beginInsert
<1>7. QED
    BY <1>2, <1>3, <1>5, <1>6, BeginKeeps

LEMMA BeginUpdateKeeps ==
    ASSUME CategoryInvariant, NEW o \in Officers, NEW i \in Categories, NEW name \in Names,
           NEW p \in Categories \cup {NoParent}, NEW active \in BOOLEAN,
           beginUpdate(o, i, name, p, active)
    PROVE  CategoryInvariant' /\ UsedKept
<1> DEFINE c == [kind |-> "update", fresh |-> {}, id |-> i, name |-> name, parent |-> p, active |-> active]
<1>1. Begin(o, c)
    BY DEF beginUpdate
<1>2. c \in Changes /\ c.kind = "update" /\ c.fresh = {} /\ c.id = i /\ c.parent = p
    BY DEF Changes
<1> HIDE DEF c
<1>3. ParentIsThere(categories, p) /\ Exists(categories, i)
    BY DEF beginUpdate, validateCashTransactionCategoryParentTx, ParentIsThere
<1>4. ChangeFits(categories, c)
    BY <1>2, <1>3 DEF ChangeFits
<1>5. QED
    BY <1>1, <1>2, <1>4, BeginKeeps

LEMMA BeginImportKeeps ==
    ASSUME CategoryInvariant, NEW o \in Officers, NEW book \in Workbooks, beginImport(o, book)
    PROVE  CategoryInvariant' /\ UsedKept
<1> DEFINE Cell == [key : Categories, row : Rows, filled : BOOLEAN, readable : BOOLEAN]
           lines == parseCashTransactionCategoryTemplate(book)
           line == [i \in Range(Keys(lines)) |-> LineOf(lines, i)]
           rows == [i \in DOMAIN line |-> lines[line[i]].row]
           fresh == {i \in DOMAIN rows : ~Exists(categories, i)}
           had == [i \in DOMAIN rows |-> categories[i]]
           c == [kind |-> "import", line |-> line, rows |-> rows, fresh |-> fresh, had |-> had]
<1>1. /\ Importable(lines) /\ ~Importing /\ ParentsFit(categories, rows) /\ Begin(o, c)
      /\ \A q \in Officers : changes[q] # NoChange => changes[q].fresh \cap DOMAIN rows = {}
    BY DEF beginImport
<1>2. \A j \in DOMAIN lines : j \in Nat /\ lines[j] \in Cell
    <2>1. \A j \in DOMAIN book : j \in Nat /\ book[j] \in Cell
        <3>1. book \in Seq(Cell)
            BY DEF Workbooks
        <3> HIDE DEF Cell
        <3>2. QED
            BY <3>1
    <2>2. lines # << >> => \A j \in DOMAIN lines : j \in DOMAIN book /\ lines[j] = book[j]
        BY DEF parseCashTransactionCategoryTemplate
    <2>3. lines # << >>
        BY <1>1 DEF Importable
    <2> HIDE DEF lines
    <2>4. QED
        BY <2>1, <2>2, <2>3
<1> HIDE DEF lines
<1>3. \A i \in Range(Keys(lines)) : LineOf(lines, i) \in DOMAIN lines /\ lines[LineOf(lines, i)].key = i
    <2>1. SUFFICES ASSUME NEW i \in Range(Keys(lines))
                   PROVE  LineOf(lines, i) \in DOMAIN lines /\ lines[LineOf(lines, i)].key = i
        OBVIOUS
    <2>2. \E j \in DOMAIN lines : lines[j].key = i
        BY DEF Range, Keys
    <2>3. QED
        BY <2>2 DEF LineOf
<1>4. /\ DOMAIN rows = DOMAIN line /\ DOMAIN line \subseteq Categories
      /\ \A i \in DOMAIN line : line[i] \in Nat /\ rows[i] \in Rows
    BY <1>2, <1>3
<1>5. /\ line \in [DOMAIN line -> Nat] /\ rows \in [DOMAIN line -> Rows]
      /\ had \in [DOMAIN line -> Rows \cup {NoCategory}] /\ fresh \in SUBSET Categories
    <2>1. categories \in [Categories -> Rows \cup {NoCategory}]
        BY DEF CategoryInvariant, CategoriesTypeOK, Forests
    <2>2. QED
        BY <1>4, <2>1
<1>6. /\ DOMAIN had = DOMAIN rows
      /\ \A i \in DOMAIN rows : i \in Categories /\ had[i] = categories[i]
      /\ \A i \in DOMAIN rows : i \in fresh <=> ~Exists(categories, i)
      /\ \A i \in fresh : ~Exists(categories, i) /\ i \in DOMAIN rows
    BY <1>4
<1> HIDE DEF line, rows, fresh, had
<1>7. /\ c \in Changes /\ c.kind = "import" /\ c.rows = rows /\ c.fresh = fresh /\ c.had = had
    <2>1. DOMAIN line \in SUBSET Categories
        BY <1>4
    <2>2. QED
        BY <1>5, <2>1 DEF Changes
<1> HIDE DEF c
<1>8. \A i \in DOMAIN rows :
          rows[i].parent \in DOMAIN rows \/ ParentIsThere(categories, rows[i].parent)
    BY <1>1 DEF ParentsFit, ParentIsThere
<1>9. ChangeFits(categories, c)
    BY <1>6, <1>7, <1>8 DEF ChangeFits, Exists
<1>10. \A q \in Officers : changes[q] # NoChange =>
           changes[q].fresh \cap c.fresh = {} /\ changes[q].kind # "import"
    BY <1>1, <1>6, <1>7 DEF Importing
<1>11. QED
    BY <1>1, <1>7, <1>9, <1>10, BeginKeeps

\* A transaction uses a category.
LEMMA PostingKeeps ==
    ASSUME CategoryInvariant, UNCHANGED <<categories, changes>>,
           \/ charged' = charged
           \/ \E i \in Categories, direction \in Directions :
                  Exists(categories, i) /\ charged' = charged \cup {<<i, direction>>}
    PROVE  CategoryInvariant' /\ UsedKept
<1>1. CategoriesTypeOK'
    BY DEF CategoryInvariant, CategoriesTypeOK
<1>2. \A i \in Categories : Charged(charged', i) => Exists(categories', i)
    BY DEF CategoryInvariant, Charged
<1>3. QED
    BY <1>1, <1>2 DEF CategoryInvariant, UsedKept

LEMMA CategoriesStep == CategoryInvariant /\ CategoriesNext => CategoryInvariant' /\ UsedKept
<1>1. ASSUME CategoryInvariant, NEW i \in Categories, NEW direction \in Directions, charge(i, direction)
      PROVE  CategoryInvariant' /\ UsedKept
    BY <1>1, PostingKeeps DEF charge, MayCharge
<1>2. QED
    BY <1>1, BeginInsertKeeps, BeginUpdateKeeps, BeginImportKeeps, InsertKeeps, UpdateKeeps, ImportKeeps
       DEF CategoriesNext

-----------------------------------------------------------------------------
(***************************************************************************)
(* The lines of an entry.                                                  *)
(***************************************************************************)
LEMMA NetFacts ==
    ASSUME NEW lines \in Lines
    PROVE  /\ CashNet(lines) \in Int
           /\ Negated(lines) \in Lines /\ CashNet(Negated(lines)) = -CashNet(lines)
<1> DEFINE on == DOMAIN lines \cap CashAccounts
<1>1. DOMAIN lines \in SUBSET Accounts /\ lines \in [DOMAIN lines -> Int]
    BY DEF Lines
<1>2. IsFiniteSet(on)
    <2>1. on \subseteq Accounts
        BY <1>1
    <2>2. QED
        BY <2>1, FS_Subset, ManualCashAssumption
<1>3. CashNet(lines) = SumFunctionOnSet(lines, on)
    BY DEF CashNet, Sum
<1>4. /\ Negated(lines) \in [DOMAIN lines -> Int] /\ DOMAIN Negated(lines) = DOMAIN lines
      /\ \A a \in on : lines[a] \in Int /\ Negated(lines)[a] = -lines[a]
    BY <1>1 DEF Negated
<1>5. CashNet(Negated(lines)) = SumFunctionOnSet(Negated(lines), on)
    BY <1>4 DEF CashNet, Sum
<1>6. Negated(lines) \in Lines
    BY <1>1, <1>4 DEF Lines
<1> HIDE DEF on
<1>7. SumFunctionOnSet(lines, on) \in Int
    BY <1>2, <1>4, SumType
<1>8. SumFunctionOnSet(Negated(lines), on) = -SumFunctionOnSet(lines, on)
    BY <1>2, <1>4, SumNegated
<1>9. QED
    BY <1>3, <1>5, <1>6, <1>7, <1>8

\* A day has a number that no transaction has: there are more numbers to try
\* than transactions.
LEMMA FreeNumber ==
    ASSUME NEW day \in Days, sequences \in [Days -> Nat], cash \in Seq(CashTransaction)
    PROVE  nextManualCashReference(day) \in Nat /\ ~Used(<<day, nextManualCashReference(day)>>)
<1> DEFINE first == sequences[day]
           tried == first .. first + Len(cash)
           free == {n \in tried : ~Used(<<day, n>>)}
           at == [n \in tried |-> CHOOSE i \in DOMAIN cash : cash[i].reference = <<day, n>>]
<1>1. first \in Nat /\ Len(cash) \in Nat /\ DOMAIN cash = 1 .. Len(cash)
    OBVIOUS
<1>2. /\ IsFiniteSet(tried) /\ IsFiniteSet(DOMAIN cash)
      /\ Cardinality(DOMAIN cash) < Cardinality(tried)
    <2> DEFINE len == Len(cash)
    <2>1. first \in Int /\ len \in Nat /\ len \in Int /\ first + len \in Int /\ 1 \in Int
        BY <1>1
    <2>2. DOMAIN cash = 1 .. len /\ tried = first .. first + len
        BY <1>1
    <2> HIDE DEF len, first, tried
    <2>3. /\ IsFiniteSet(first .. first + len)
          /\ Cardinality(first .. first + len) = IF first > first + len THEN 0 ELSE (first + len) - first + 1
        BY <2>1, FS_Interval
    <2>4. /\ IsFiniteSet(1 .. len)
          /\ Cardinality(1 .. len) = IF 1 > len THEN 0 ELSE len - 1 + 1
        BY <2>1, FS_Interval
    <2>5. QED
        BY <2>1, <2>2, <2>3, <2>4
<1>3. free # {}
    <2>1. SUFFICES ASSUME free = {} PROVE FALSE
        OBVIOUS
    <2>2. \A n \in tried : \E i \in DOMAIN cash : cash[i].reference = <<day, n>>
        BY <2>1 DEF Used
    <2>3. /\ at \in [tried -> DOMAIN cash]
          /\ \A n \in tried : cash[at[n]].reference = <<day, n>>
        BY <2>2
    <2> HIDE DEF tried, at, free
    <2>4. PICK n, m \in tried : n # m /\ at[n] = at[m]
        BY <1>2, <2>3, FS_PigeonHole
    <2>5. <<day, n>> = <<day, m>>
        BY <2>3, <2>4
    <2>6. QED
        BY <2>4, <2>5
<1>4. free \subseteq Nat
    BY <1>1
<1>5. PICK n \in free : \A k \in free : n <= k
    <2> HIDE DEF free
    <2>1. QED
        BY <1>3, <1>4, LeastNumber
<1>6. nextManualCashReference(day) \in free
    BY <1>5 DEF nextManualCashReference
<1>7. QED
    BY <1>4, <1>6

-----------------------------------------------------------------------------
(***************************************************************************)
(* Journals and the transactions that list them.                           *)
(***************************************************************************)

\* A manual journal is numbered by its place.
KindsFit(js) ==
    \A j \in DOMAIN js : /\ js[j].kind = "manual" => js[j].id = j
                         /\ js[j].kind = "savings" => js[j].id \in Deposits

\* Each manual journal that moves cash has one row, which says what it does.
RowsFit(js, rows) ==
    /\ \A i \in DOMAIN rows :
        /\ rows[i].id \in DOMAIN js /\ js[rows[i].id].kind = "manual"
        /\ rows[i].amount = CashNet(js[rows[i].id].lines) /\ rows[i].amount # 0
        /\ rows[i].day = js[rows[i].id].day /\ rows[i].source = js[rows[i].id].source
    /\ \A i, k \in DOMAIN rows : rows[i].id = rows[k].id => i = k
    /\ \A j \in DOMAIN js : js[j].kind = "manual" /\ CashNet(js[j].lines) # 0 =>
        \E i \in DOMAIN rows : rows[i].id = j

SavingsFit(js, saved) ==
    \A s \in Deposits : saved[s] # NoDeposit =>
        \A j \in DOMAIN js : js[j].kind = "savings" /\ js[j].id = s => js[j].source = saved[s].source

ApprovedIn(ds) == {d \in Drafts : ds[d] # NoDraft /\ ds[d].status = "approved"}
BookedIn(js)   == {j \in DOMAIN js : js[j].kind = "manual" /\ js[j].reverses = 0}

DraftsFit(ds, js) ==
    /\ IsFiniteSet(ApprovedIn(ds)) /\ Cardinality(ApprovedIn(ds)) = Cardinality(BookedIn(js))
    /\ \A d \in ApprovedIn(ds) : \E j \in BookedIn(js) :
        /\ js[j].lines = ds[d].entry.lines /\ js[j].day = ds[d].entry.day
        /\ ds[d].transaction \in {j, NoTransaction}

CashInvariant ==
    /\ ManualCashTypeOK
    /\ KindsFit(journals)
    /\ RowsFit(journals, cash)
    /\ SavingsFit(journals, deposits)
    /\ DraftsFit(drafts, journals)

LEMMA AppendFacts ==
    ASSUME NEW S, NEW s \in Seq(S), NEW x \in S
    PROVE  /\ Append(s, x) \in Seq(S)
           /\ DOMAIN Append(s, x) = DOMAIN s \cup {Len(s) + 1} /\ Len(s) + 1 \notin DOMAIN s
           /\ Append(s, x)[Len(s) + 1] = x /\ Len(s) + 1 \in Nat
           /\ \A i \in DOMAIN s : Append(s, x)[i] = s[i]
OBVIOUS

\* A journal that moves no cash by hand has no row.
LEMMA BookedWithoutRow ==
    ASSUME NEW js \in Seq(Journal), NEW rows, RowsFit(js, rows), NEW x \in Journal,
           x.kind = "savings" \/ CashNet(x.lines) = 0
    PROVE  RowsFit(Append(js, x), rows)
<1> DEFINE new == Append(js, x)
<1>1. /\ DOMAIN new = DOMAIN js \cup {Len(js) + 1} /\ new[Len(js) + 1] = x
      /\ \A j \in DOMAIN js : new[j] = js[j]
    BY AppendFacts
<1> HIDE DEF new
<1>2. QED
    BY <1>1 DEF RowsFit, new

LEMMA BookedWithRow ==
    ASSUME NEW js \in Seq(Journal), NEW rows \in Seq(CashTransaction), RowsFit(js, rows),
           NEW x \in Journal, x.kind = "manual", CashNet(x.lines) # 0,
           NEW row \in CashTransaction, row.id = Len(js) + 1, row.amount = CashNet(x.lines),
           row.day = x.day, row.source = x.source
    PROVE  RowsFit(Append(js, x), Append(rows, row))
<1> DEFINE new == Append(js, x)
           more == Append(rows, row)
           j == Len(js) + 1
           k == Len(rows) + 1
<1>1. /\ DOMAIN new = DOMAIN js \cup {j} /\ j \notin DOMAIN js /\ new[j] = x
      /\ \A i \in DOMAIN js : new[i] = js[i]
    BY AppendFacts
<1>2. /\ DOMAIN more = DOMAIN rows \cup {k} /\ more[k] = row
      /\ \A i \in DOMAIN rows : more[i] = rows[i]
    BY AppendFacts
<1>3. row.id = j
    OBVIOUS
<1> HIDE DEF new, more, j, k
<1>4. \A i \in DOMAIN rows : rows[i].id \in DOMAIN js /\ rows[i].id # j
    BY <1>1 DEF RowsFit
<1>5. ASSUME NEW i \in DOMAIN more
      PROVE  /\ more[i].id \in DOMAIN new /\ new[more[i].id].kind = "manual"
             /\ more[i].amount = CashNet(new[more[i].id].lines) /\ more[i].amount # 0
             /\ more[i].day = new[more[i].id].day /\ more[i].source = new[more[i].id].source
    <2>1. CASE i = k
        BY <1>1, <1>2, <1>3, <2>1
    <2>2. CASE i \in DOMAIN rows
        BY <1>1, <1>2, <1>4, <2>2 DEF RowsFit
    <2>3. QED
        BY <1>2, <2>1, <2>2
<1>6. \A h, i \in DOMAIN more : more[h].id = more[i].id => h = i
    BY <1>2, <1>3, <1>4 DEF RowsFit
<1>7. ASSUME NEW i \in DOMAIN new, new[i].kind = "manual", CashNet(new[i].lines) # 0
      PROVE  \E h \in DOMAIN more : more[h].id = i
    <2>1. CASE i = j
        BY <1>2, <1>3, <2>1
    <2>2. CASE i # j
        BY <1>1, <1>2, <1>7, <2>2 DEF RowsFit
    <2>3. QED
        BY <2>1, <2>2
<1>8. QED
    BY <1>5, <1>6, <1>7 DEF RowsFit, new, more

LEMMA BookedSaving ==
    ASSUME NEW js \in Seq(Journal), NEW saved, SavingsFit(js, saved), NEW x \in Journal,
           \A s \in Deposits : x.kind = "savings" /\ x.id = s /\ saved[s] # NoDeposit =>
               x.source = saved[s].source
    PROVE  SavingsFit(Append(js, x), saved)
<1> DEFINE new == Append(js, x)
<1>1. /\ DOMAIN new = DOMAIN js \cup {Len(js) + 1} /\ new[Len(js) + 1] = x
      /\ \A j \in DOMAIN js : new[j] = js[j]
    BY AppendFacts
<1> HIDE DEF new
<1>2. QED
    BY <1>1 DEF SavingsFit, new

\* What takes back a journal, or books a deposit, books no draft.
LEMMA BookedBeside ==
    ASSUME NEW js \in Seq(Journal), NEW ds, DraftsFit(ds, js), NEW x \in Journal,
           x.kind = "savings" \/ x.reverses # 0
    PROVE  DraftsFit(ds, Append(js, x))
<1> DEFINE new == Append(js, x)
<1>1. /\ DOMAIN new = DOMAIN js \cup {Len(js) + 1} /\ new[Len(js) + 1] = x
      /\ \A j \in DOMAIN js : new[j] = js[j]
    BY AppendFacts
<1> HIDE DEF new
<1>2. BookedIn(new) = BookedIn(js) /\ \A j \in BookedIn(js) : new[j] = js[j]
    BY <1>1 DEF BookedIn
<1>3. QED
    BY <1>2 DEF DraftsFit, new

LEMMA BookedDraft ==
    ASSUME NEW js \in Seq(Journal), NEW ds, DraftsFit(ds, js), NEW x \in Journal,
           x.kind = "manual", x.reverses = 0,
           NEW d \in Drafts, d \notin ApprovedIn(ds),
           NEW more, ApprovedIn(more) = ApprovedIn(ds) \cup {d},
           \A e \in ApprovedIn(ds) : more[e] = ds[e],
           x.lines = more[d].entry.lines, x.day = more[d].entry.day,
           more[d].transaction \in {Len(js) + 1, NoTransaction}
    PROVE  DraftsFit(more, Append(js, x))
<1> DEFINE new == Append(js, x)
           j == Len(js) + 1
<1>1. /\ DOMAIN new = DOMAIN js \cup {j} /\ j \notin DOMAIN js /\ new[j] = x
      /\ \A i \in DOMAIN js : new[i] = js[i]
    BY AppendFacts
<1>2. more[d].transaction \in {j, NoTransaction}
    OBVIOUS
<1>3. IsFiniteSet(BookedIn(js))
    <2>1. DOMAIN js = 1 .. Len(js) /\ IsFiniteSet(1 .. Len(js))
        BY FS_Interval
    <2>2. QED
        BY <2>1, FS_Subset DEF BookedIn
<1> HIDE DEF new, j
<1>4. /\ BookedIn(new) = BookedIn(js) \cup {j} /\ j \notin BookedIn(js)
      /\ \A i \in BookedIn(js) : new[i] = js[i]
    BY <1>1 DEF BookedIn
<1>5. /\ IsFiniteSet(ApprovedIn(more)) /\ Cardinality(ApprovedIn(more)) = Cardinality(ApprovedIn(ds)) + 1
    <2>1. IsFiniteSet(ApprovedIn(ds)) /\ d \notin ApprovedIn(ds)
        BY DEF DraftsFit
    <2>2. /\ IsFiniteSet(ApprovedIn(ds) \cup {d})
          /\ Cardinality(ApprovedIn(ds) \cup {d}) = Cardinality(ApprovedIn(ds)) + 1
        BY <2>1, FS_AddElement
    <2>3. QED
        BY <2>2
<1>6. Cardinality(BookedIn(new)) = Cardinality(BookedIn(js)) + 1
    <2>1. Cardinality(BookedIn(js) \cup {j}) = Cardinality(BookedIn(js)) + 1
        BY <1>3, <1>4, FS_AddElement
    <2>2. QED
        BY <1>4, <2>1
<1>7. ASSUME NEW e \in ApprovedIn(more)
      PROVE  \E i \in BookedIn(new) :
                /\ new[i].lines = more[e].entry.lines /\ new[i].day = more[e].entry.day
                /\ more[e].transaction \in {i, NoTransaction}
    <2>1. CASE e = d
        BY <1>1, <1>2, <1>4, <2>1
    <2>2. CASE e # d
        BY <1>4, <1>7, <2>2 DEF DraftsFit
    <2>3. QED
        BY <2>1, <2>2
<1>8. QED
    BY <1>5, <1>6, <1>7 DEF DraftsFit, new

-----------------------------------------------------------------------------
(***************************************************************************)
(* Each step of cash transactions.                                         *)
(***************************************************************************)
LEMMA TypeFacts ==
    ASSUME CashInvariant
    PROVE  /\ drafts \in [Drafts -> SavedDrafts \cup {NoDraft}]
           /\ deposits \in [Deposits -> SavedDeposits \cup {NoDeposit}]
           /\ journals \in Seq(Journal) /\ cash \in Seq(CashTransaction)
           /\ sequences \in [Days -> Nat] /\ today \in Days
BY DEF CashInvariant, ManualCashTypeOK

LEMMA DraftSaved ==
    ASSUME CashInvariant, NEW d \in Drafts, NEW entry \in Entries,
           drafts[d] = NoDraft \/ drafts[d].status = "pending",
           drafts' = [drafts EXCEPT ![d] = Pending(entry)],
           UNCHANGED <<cash, sequences, journals, deposits, today>>
    PROVE  CashInvariant'
<1> DEFINE saved == Pending(entry)
<1>1. saved \in SavedDrafts /\ saved.status = "pending"
    BY DEF Pending, SavedDrafts, NoTransaction
<1> HIDE DEF saved
<1>2. /\ drafts' \in [Drafts -> SavedDrafts \cup {NoDraft}] /\ drafts'[d] = saved
      /\ \A e \in Drafts : e # d => drafts'[e] = drafts[e]
    BY <1>1, TypeFacts DEF saved
<1>3. ApprovedIn(drafts') = ApprovedIn(drafts) /\ \A e \in ApprovedIn(drafts) : drafts'[e] = drafts[e]
    BY <1>1, <1>2 DEF ApprovedIn
<1>4. DraftsFit(drafts', journals)
    BY <1>3 DEF DraftsFit, CashInvariant
<1>5. QED
    BY <1>2, <1>4 DEF CashInvariant, ManualCashTypeOK

LEMMA BookedSteps ==
    ASSUME NEW js \in Seq(Journal), KindsFit(js), NEW x \in Journal,
           x.kind = "manual" => x.id = Len(js) + 1, x.kind = "savings" => x.id \in Deposits
    PROVE  KindsFit(Append(js, x)) /\ Append(js, x) \in Seq(Journal)
<1> DEFINE new == Append(js, x)
<1>1. /\ DOMAIN new = DOMAIN js \cup {Len(js) + 1} /\ new[Len(js) + 1] = x /\ new \in Seq(Journal)
      /\ \A j \in DOMAIN js : new[j] = js[j]
    BY AppendFacts
<1> HIDE DEF new
<1>2. QED
    BY <1>1 DEF KindsFit, new

LEMMA DraftApproved ==
    ASSUME CashInvariant, NEW d \in Drafts, approveManualCashTransactionDraft(d)
    PROVE  CashInvariant'
<1> DEFINE entry == drafts[d].entry
           net == CashNet(entry.lines)
           id == Len(journals) + 1
           reference == IF entry.reference # NoReference THEN entry.reference
                        ELSE <<entry.day, nextManualCashReference(entry.day)>>
           x == [kind |-> "manual", id |-> id, lines |-> entry.lines, day |-> entry.day,
                 reverses |-> 0, source |-> "bank"]
           row == CashRow(id, entry.day, net, reference, entry.category)
           transaction == IF net = 0 THEN NoTransaction ELSE id
<1>1. /\ drafts[d] \in SavedDrafts /\ drafts[d].status = "pending" /\ entry \in Entries
      /\ UNCHANGED <<deposits, today>>
    BY TypeFacts DEF approveManualCashTransactionDraft, SavedDrafts
<1>2. /\ journals' = Append(journals, x)
      /\ cash' = IF net = 0 THEN cash ELSE Append(cash, row)
      /\ IF entry.reference = NoReference THEN Draw(entry.day) ELSE UNCHANGED sequences
    BY DEF approveManualCashTransactionDraft, insertManualCashTransactionTx, Book, BookOf
<1>3. drafts' = [drafts EXCEPT ![d].status = "approved", ![d].transaction = transaction]
    BY DEF approveManualCashTransactionDraft
<1>4. /\ entry.lines \in Lines /\ entry.day \in Days /\ entry.category \in Categories \cup {Uncategorised}
      /\ entry.reference \in (Days \X Nat) \cup {NoReference}
    BY <1>1 DEF Entries
<1>5. net \in Int /\ id \in Nat
    BY <1>4, NetFacts, TypeFacts
<1>6. nextManualCashReference(entry.day) \in Nat
    BY <1>4, FreeNumber, TypeFacts
<1>7. reference \in (Days \X Nat) \cup {NoReference}
    BY <1>4, <1>6
<1> HIDE DEF entry, net, reference
<1>8. /\ x \in Journal /\ x.kind = "manual" /\ x.id = id /\ x.reverses = 0 /\ x.lines = entry.lines
      /\ x.day = entry.day /\ x.source = "bank"
    BY <1>4, <1>5, ManualCashAssumption DEF Journal
<1>9. /\ row \in CashTransaction /\ row.id = id /\ row.amount = net /\ row.day = entry.day
      /\ row.source = "bank"
    BY <1>4, <1>5, <1>7, ManualCashAssumption DEF CashTransaction, CashRow
<1>10. net = CashNet(x.lines)
    BY <1>8 DEF net
<1> DEFINE saved == [[drafts[d] EXCEPT !.status = "approved"] EXCEPT !.transaction = transaction]
<1>11. /\ saved \in SavedDrafts /\ saved.entry = entry /\ saved.status = "approved"
       /\ saved.transaction = transaction
    BY <1>1, <1>5 DEF SavedDrafts, entry, NoTransaction
<1>12. drafts' = [drafts EXCEPT ![d] = saved]
    BY <1>3
<1> HIDE DEF x, row, saved, id
<1>13. /\ drafts' \in [Drafts -> SavedDrafts \cup {NoDraft}] /\ drafts'[d] = saved
       /\ \A e \in Drafts : e # d => drafts'[e] = drafts[e]
    BY <1>11, <1>12, TypeFacts
<1>14. KindsFit(journals') /\ journals' \in Seq(Journal)
    BY <1>2, <1>8, BookedSteps, TypeFacts DEF id, CashInvariant
<1>15. RowsFit(journals', cash') /\ cash' \in Seq(CashTransaction)
    <2>1. CASE net = 0
        BY <1>2, <1>8, <1>10, <2>1, BookedWithoutRow, TypeFacts DEF CashInvariant
    <2>2. CASE net # 0
        <3>1. cash' = Append(cash, row)
            BY <1>2, <2>2
        <3>2. RowsFit(Append(journals, x), Append(cash, row))
            BY <1>8, <1>9, <1>10, <2>2, BookedWithRow, TypeFacts DEF CashInvariant, id
        <3>3. Append(cash, row) \in Seq(CashTransaction)
            BY <1>9, TypeFacts, AppendFacts
        <3>4. QED
            BY <1>2, <3>1, <3>2, <3>3
    <2>3. QED
        BY <2>1, <2>2
<1>16. SavingsFit(journals', deposits')
    BY <1>1, <1>2, <1>8, BookedSaving, TypeFacts DEF CashInvariant
<1>17. DraftsFit(drafts', journals')
    <2>1. d \notin ApprovedIn(drafts)
        BY <1>1 DEF ApprovedIn
    <2>2. saved # NoDraft
        BY <1>11, ManualCashAssumption
    <2>3. /\ ApprovedIn(drafts') = ApprovedIn(drafts) \cup {d}
          /\ \A e \in ApprovedIn(drafts) : drafts'[e] = drafts[e]
        BY <1>11, <1>13, <2>1, <2>2 DEF ApprovedIn
    <2>4. drafts'[d].transaction \in {Len(journals) + 1, NoTransaction}
        BY <1>11, <1>13 DEF id
    <2>5. x.lines = drafts'[d].entry.lines /\ x.day = drafts'[d].entry.day
        BY <1>8, <1>11, <1>13
    <2>6. journals \in Seq(Journal) /\ DraftsFit(drafts, journals)
        BY TypeFacts DEF CashInvariant
    <2> HIDE DEF x
    <2>7. x \in Journal /\ x.kind = "manual" /\ x.reverses = 0
        BY <1>8
    <2>8. DraftsFit(drafts', Append(journals, x))
        BY <2>1, <2>3, <2>4, <2>5, <2>6, <2>7, BookedDraft
    <2>9. QED
        BY <1>2, <2>8
<1>18. sequences' \in [Days -> Nat]
    <2>1. sequences \in [Days -> Nat]
        BY TypeFacts
    <2>2. CASE Draw(entry.day)
        <3>1. PICK n : n = nextManualCashReference(entry.day)
            OBVIOUS
        <3>2. sequences' = [sequences EXCEPT ![entry.day] = n + 1]
            BY <2>2, <3>1 DEF Draw
        <3>3. n + 1 \in Nat
            BY <1>6, <3>1
        <3>4. QED
            BY <2>1, <3>2, <3>3
    <2>3. CASE UNCHANGED sequences
        BY <2>1, <2>3
    <2>4. QED
        BY <1>2, <2>2, <2>3
<1>19. QED
    BY <1>1, <1>13, <1>14, <1>15, <1>16, <1>17, <1>18, TypeFacts DEF CashInvariant, ManualCashTypeOK

LEMMA SavingInserted ==
    ASSUME CashInvariant, NEW s \in Deposits, NEW day \in Days, NEW amount \in Amounts,
           NEW lines \in Lines, insertSaving(s, day, amount, lines)
    PROVE  CashInvariant'
<1> DEFINE x == [kind |-> "savings", id |-> s, lines |-> lines, day |-> day, reverses |-> 0,
                 source |-> "bank"]
           row == [day |-> day, amount |-> amount, source |-> "bank"]
<1>1. /\ journals' = Append(journals, x) /\ deposits' = [deposits EXCEPT ![s] = row]
      /\ UNCHANGED <<drafts, cash, sequences, today>>
      /\ \A j \in DOMAIN journals : KeyOf(journals[j]) # <<"savings", s>>
    BY DEF insertSaving, Book, BookOf
<1>2. /\ x \in Journal /\ x.kind = "savings" /\ x.id = s /\ x.source = "bank"
      /\ row \in SavedDeposits /\ row.source = "bank"
    BY ManualCashAssumption DEF Journal, SavedDeposits
<1> HIDE DEF x, row
<1>3. /\ deposits' \in [Deposits -> SavedDeposits \cup {NoDeposit}] /\ deposits'[s] = row
      /\ \A t \in Deposits : t # s => deposits'[t] = deposits[t]
    BY <1>1, <1>2, TypeFacts
<1>4. KindsFit(journals') /\ journals' \in Seq(Journal)
    BY <1>1, <1>2, BookedSteps, TypeFacts DEF CashInvariant
<1>5. RowsFit(journals', cash')
    BY <1>1, <1>2, BookedWithoutRow, TypeFacts DEF CashInvariant
<1>6. SavingsFit(journals, deposits')
    <2>1. \A j \in DOMAIN journals : ~(journals[j].kind = "savings" /\ journals[j].id = s)
        BY <1>1 DEF KeyOf
    <2>2. QED
        BY <1>3, <2>1 DEF SavingsFit, CashInvariant
<1>7. SavingsFit(journals', deposits')
    <2>1. \A t \in Deposits : x.kind = "savings" /\ x.id = t /\ deposits'[t] # NoDeposit =>
              x.source = deposits'[t].source
        BY <1>2, <1>3
    <2>2. SavingsFit(Append(journals, x), deposits')
        BY <1>2, <1>6, <2>1, BookedSaving, TypeFacts
    <2>3. QED
        BY <1>1, <2>2
<1>8. DraftsFit(drafts', journals')
    BY <1>1, <1>2, BookedBeside, TypeFacts DEF CashInvariant
<1>9. QED
    BY <1>1, <1>3, <1>4, <1>5, <1>7, <1>8, TypeFacts DEF CashInvariant, ManualCashTypeOK

LEMMA SavingRemoved ==
    ASSUME CashInvariant, NEW s \in Deposits, removeSavingByID(s)
    PROVE  CashInvariant'
<1>1. /\ deposits[s] # NoDeposit /\ deposits' = [deposits EXCEPT ![s] = NoDeposit]
      /\ UNCHANGED <<drafts, cash, sequences, today>>
    BY DEF removeSavingByID
<1>2. /\ deposits' \in [Deposits -> SavedDeposits \cup {NoDeposit}]
      /\ \A t \in Deposits : deposits'[t] \in {NoDeposit, deposits[t]}
      /\ deposits'[s] = NoDeposit
    BY <1>1, TypeFacts
<1>3. SavingsFit(journals, deposits')
    BY <1>2 DEF SavingsFit, CashInvariant
<1>4. CASE journals' = journals
    BY <1>1, <1>2, <1>3, <1>4, TypeFacts DEF CashInvariant, ManualCashTypeOK
<1>5. ASSUME NEW i \in DOMAIN journals, journals[i].kind = "savings", journals[i].id = s,
             journals' = BookOf("savings", s, Negated(journals[i].lines), today, i, journals[i].source)
      PROVE  CashInvariant'
    <2> DEFINE x == [kind |-> "savings", id |-> s, lines |-> Negated(journals[i].lines), day |-> today,
                     reverses |-> i, source |-> journals[i].source]
    <2>1. journals[i] \in Journal /\ i \in Nat
        BY TypeFacts
    <2>2. /\ journals[i].lines \in Lines /\ journals[i].source \in Sources
          /\ Negated(journals[i].lines) \in Lines
        BY <2>1, NetFacts DEF Journal
    <2>3. x \in Journal /\ x.kind = "savings" /\ x.id = s
        BY <2>1, <2>2, TypeFacts DEF Journal
    <2>4. journals' = Append(journals, x)
        BY <1>5 DEF BookOf
    <2> HIDE DEF x
    <2>5. KindsFit(journals') /\ journals' \in Seq(Journal)
        BY <2>3, <2>4, BookedSteps, TypeFacts DEF CashInvariant
    <2>6. RowsFit(journals', cash')
        BY <1>1, <2>3, <2>4, BookedWithoutRow, TypeFacts DEF CashInvariant
    <2>7. SavingsFit(journals', deposits')
        BY <1>2, <1>3, <2>3, <2>4, BookedSaving, TypeFacts
    <2>8. DraftsFit(drafts', journals')
        BY <1>1, <2>3, <2>4, BookedBeside, TypeFacts DEF CashInvariant
    <2>9. QED
        BY <1>1, <1>2, <2>5, <2>6, <2>7, <2>8, TypeFacts DEF CashInvariant, ManualCashTypeOK
<1>6. QED
    BY <1>4, <1>5 DEF removeSavingByID

LEMMA JournalReversed ==
    ASSUME CashInvariant, NEW i \in DOMAIN journals, NEW day \in Days, reverseFinancialJournal(i, day)
    PROVE  CashInvariant'
<1> DEFINE id == Len(journals) + 1
           net == -CashNet(journals[i].lines)
           number == nextManualCashReference(day)
           x == [kind |-> "manual", id |-> id, lines |-> Negated(journals[i].lines), day |-> day,
                 reverses |-> i, source |-> "bank"]
           row == CashRow(id, day, net, <<day, number>>, Uncategorised)
<1>1. /\ journals' = Append(journals, x) /\ cash' = IF net = 0 THEN cash ELSE Append(cash, row)
      /\ IF net = 0 THEN UNCHANGED sequences ELSE Draw(day)
      /\ UNCHANGED <<drafts, deposits, today>>
    BY DEF reverseFinancialJournal, Book, BookOf, ReversalRow
<1>2. journals[i] \in Journal /\ i \in Nat /\ i # 0 /\ id \in Nat
    BY TypeFacts
<1>3. /\ journals[i].lines \in Lines /\ Negated(journals[i].lines) \in Lines
      /\ net \in Int /\ net = CashNet(Negated(journals[i].lines))
    BY <1>2, NetFacts DEF Journal
<1>4. number \in Nat
    BY FreeNumber, TypeFacts
<1>5. /\ x \in Journal /\ x.kind = "manual" /\ x.id = id /\ x.reverses # 0 /\ x.day = day
      /\ x.source = "bank" /\ net = CashNet(x.lines)
    BY <1>2, <1>3, ManualCashAssumption DEF Journal
<1> HIDE DEF net, number
<1>6. /\ row \in CashTransaction /\ row.id = id /\ row.amount = net /\ row.day = day
      /\ row.source = "bank"
    BY <1>2, <1>3, <1>4, ManualCashAssumption DEF CashTransaction, CashRow
<1> HIDE DEF x, row
<1>7. KindsFit(journals') /\ journals' \in Seq(Journal)
    BY <1>1, <1>5, BookedSteps, TypeFacts DEF CashInvariant
<1>8. RowsFit(journals', cash') /\ cash' \in Seq(CashTransaction)
    <2>1. CASE net = 0
        BY <1>1, <1>5, <2>1, BookedWithoutRow, TypeFacts DEF CashInvariant
    <2>2. CASE net # 0
        <3>1. cash' = Append(cash, row)
            BY <1>1, <2>2
        <3>2. RowsFit(Append(journals, x), Append(cash, row))
            BY <1>5, <1>6, <2>2, BookedWithRow, TypeFacts DEF CashInvariant
        <3>3. Append(cash, row) \in Seq(CashTransaction)
            BY <1>6, TypeFacts, AppendFacts
        <3>4. QED
            BY <1>1, <3>1, <3>2, <3>3
    <2>3. QED
        BY <2>1, <2>2
<1>9. SavingsFit(journals', deposits')
    BY <1>1, <1>5, BookedSaving, TypeFacts DEF CashInvariant
<1>10. DraftsFit(drafts', journals')
    BY <1>1, <1>5, BookedBeside, TypeFacts DEF CashInvariant
<1>11. sequences' \in [Days -> Nat]
    BY <1>1, <1>4, TypeFacts DEF Draw, number
<1>12. QED
    BY <1>1, <1>7, <1>8, <1>9, <1>10, <1>11, TypeFacts DEF CashInvariant, ManualCashTypeOK

LEMMA SourcesMoved ==
    ASSUME CashInvariant, NEW keys \in SUBSET TransactionKeys, NEW source \in Sources,
           updateCashTransactionSources(keys, source)
    PROVE  CashInvariant'
<1> DEFINE Moved(row) == [row EXCEPT !.source = source]
<1>1. /\ journals' = [j \in DOMAIN journals |-> IF KeyOf(journals[j]) \in keys
                                                THEN Moved(journals[j]) ELSE journals[j]]
      /\ cash' = [i \in DOMAIN cash |-> IF <<"manual", cash[i].id>> \in keys
                                        THEN Moved(cash[i]) ELSE cash[i]]
      /\ deposits' = [s \in Deposits |-> IF <<"savings", s>> \in keys
                                         THEN Moved(deposits[s]) ELSE deposits[s]]
      /\ UNCHANGED <<drafts, sequences, today>>
    BY DEF updateCashTransactionSources, JournalsMoved
<1>2. /\ \A x \in Journal : /\ Moved(x) \in Journal /\ Moved(x).source = source
                            /\ Moved(x).kind = x.kind /\ Moved(x).id = x.id /\ Moved(x).lines = x.lines
                            /\ Moved(x).day = x.day /\ Moved(x).reverses = x.reverses
      /\ \A x \in CashTransaction : /\ Moved(x) \in CashTransaction /\ Moved(x).source = source
                                    /\ Moved(x).id = x.id /\ Moved(x).amount = x.amount
                                    /\ Moved(x).day = x.day
      /\ \A x \in SavedDeposits : Moved(x) \in SavedDeposits /\ Moved(x).source = source
    BY DEF Journal, CashTransaction, SavedDeposits
<1> HIDE DEF Moved
<1>3. /\ DOMAIN journals' = DOMAIN journals /\ Len(journals') = Len(journals)
      /\ journals' \in Seq(Journal)
      /\ \A j \in DOMAIN journals :
            /\ journals'[j].kind = journals[j].kind /\ journals'[j].id = journals[j].id
            /\ journals'[j].lines = journals[j].lines /\ journals'[j].day = journals[j].day
            /\ journals'[j].reverses = journals[j].reverses
            /\ journals'[j].source = IF KeyOf(journals[j]) \in keys THEN source ELSE journals[j].source
    <2>1. /\ DOMAIN journals = 1 .. Len(journals) /\ Len(journals) \in Nat
          /\ \A j \in DOMAIN journals : journals[j] \in Journal
        BY TypeFacts
    <2>2. /\ DOMAIN journals' = DOMAIN journals
          /\ \A j \in DOMAIN journals :
                journals'[j] = IF KeyOf(journals[j]) \in keys THEN Moved(journals[j]) ELSE journals[j]
        BY <1>1
    <2>3. journals' \in [1 .. Len(journals) -> Journal]
        BY <1>1, <1>2, <2>1
    <2>4. journals' \in Seq(Journal) /\ Len(journals') = Len(journals)
        BY <2>1, <2>3
    <2>5. QED
        BY <1>2, <2>1, <2>2, <2>4
<1>4. /\ DOMAIN cash' = DOMAIN cash /\ cash' \in Seq(CashTransaction)
      /\ \A i \in DOMAIN cash :
            /\ cash'[i].id = cash[i].id /\ cash'[i].amount = cash[i].amount /\ cash'[i].day = cash[i].day
            /\ cash'[i].source = IF <<"manual", cash[i].id>> \in keys THEN source ELSE cash[i].source
    <2>1. /\ DOMAIN cash = 1 .. Len(cash) /\ Len(cash) \in Nat
          /\ \A i \in DOMAIN cash : cash[i] \in CashTransaction
        BY TypeFacts
    <2>2. /\ DOMAIN cash' = DOMAIN cash
          /\ \A i \in DOMAIN cash :
                cash'[i] = IF <<"manual", cash[i].id>> \in keys THEN Moved(cash[i]) ELSE cash[i]
        BY <1>1
    <2>3. cash' \in [1 .. Len(cash) -> CashTransaction]
        BY <1>1, <1>2, <2>1
    <2>4. cash' \in Seq(CashTransaction)
        BY <2>1, <2>3
    <2>5. QED
        BY <1>2, <2>1, <2>2, <2>4
<1>5. /\ deposits' \in [Deposits -> SavedDeposits \cup {NoDeposit}]
      /\ \A s \in Deposits : deposits[s] = NoDeposit => deposits'[s] = NoDeposit
      /\ \A s \in Deposits : deposits[s] # NoDeposit =>
            deposits'[s].source = IF <<"savings", s>> \in keys THEN source ELSE deposits[s].source
    <2>1. \A s \in Deposits : <<"savings", s>> \in keys => deposits[s] # NoDeposit
        BY DEF TransactionKeys
    <2>2. \A s \in Deposits : deposits[s] # NoDeposit => deposits[s] \in SavedDeposits
        BY TypeFacts
    <2>3. QED
        BY <1>1, <1>2, <2>1, <2>2
<1>6. KindsFit(journals')
    BY <1>3 DEF KindsFit, CashInvariant
<1>7. RowsFit(journals', cash')
    <2>1. ASSUME NEW i \in DOMAIN cash
          PROVE  /\ cash'[i].id \in DOMAIN journals' /\ journals'[cash'[i].id].kind = "manual"
                 /\ cash'[i].amount = CashNet(journals'[cash'[i].id].lines) /\ cash'[i].amount # 0
                 /\ cash'[i].day = journals'[cash'[i].id].day
                 /\ cash'[i].source = journals'[cash'[i].id].source
        <3> DEFINE j == cash[i].id
        <3>1. /\ j \in DOMAIN journals /\ journals[j].kind = "manual" /\ journals[j].id = j
              /\ cash[i].amount = CashNet(journals[j].lines) /\ cash[i].amount # 0
              /\ cash[i].day = journals[j].day /\ cash[i].source = journals[j].source
            BY DEF CashInvariant, RowsFit, KindsFit
        <3>2. KeyOf(journals[j]) = <<"manual", j>>
            BY <3>1 DEF KeyOf
        <3>3. cash'[i].id = j
            BY <1>4
        <3> HIDE DEF j
        <3>4. cash'[i].source = journals'[j].source
            BY <1>3, <1>4, <3>1, <3>2 DEF j
        <3>5. QED
            BY <1>3, <1>4, <3>1, <3>3, <3>4
    <2>2. \A i, k \in DOMAIN cash : cash'[i].id = cash'[k].id => i = k
        BY <1>4 DEF RowsFit, CashInvariant
    <2>3. \A j \in DOMAIN journals : journals'[j].kind = "manual" /\ CashNet(journals'[j].lines) # 0 =>
              \E i \in DOMAIN cash : cash'[i].id = j
        <3>1. SUFFICES ASSUME NEW j \in DOMAIN journals, journals'[j].kind = "manual",
                              CashNet(journals'[j].lines) # 0
                       PROVE  \E i \in DOMAIN cash : cash'[i].id = j
            OBVIOUS
        <3>2. journals[j].kind = "manual" /\ CashNet(journals[j].lines) # 0
            BY <1>3, <3>1
        <3>3. PICK i \in DOMAIN cash : cash[i].id = j
            BY <3>2 DEF RowsFit, CashInvariant
        <3>4. QED
            BY <1>4, <3>3
    <2>4. QED
        BY <1>3, <1>4, <2>1, <2>2, <2>3 DEF RowsFit
<1>8. SavingsFit(journals', deposits')
    <2>1. SUFFICES ASSUME NEW s \in Deposits, deposits'[s] # NoDeposit, NEW j \in DOMAIN journals',
                          journals'[j].kind = "savings", journals'[j].id = s
                   PROVE  journals'[j].source = deposits'[s].source
        BY DEF SavingsFit
    <2>2. /\ deposits[s] # NoDeposit /\ j \in DOMAIN journals
          /\ journals[j].kind = "savings" /\ journals[j].id = s
        BY <1>3, <1>5, <2>1
    <2>3. KeyOf(journals[j]) = <<"savings", s>> /\ journals[j].source = deposits[s].source
        BY <2>2 DEF KeyOf, SavingsFit, CashInvariant
    <2>4. QED
        BY <1>3, <1>5, <2>2, <2>3
<1>9. DraftsFit(drafts', journals')
    <2>1. BookedIn(journals') = BookedIn(journals)
        BY <1>3 DEF BookedIn
    <2>2. \A j \in BookedIn(journals) : /\ journals'[j].lines = journals[j].lines
                                        /\ journals'[j].day = journals[j].day
        BY <1>3 DEF BookedIn
    <2>3. QED
        BY <1>1, <2>1, <2>2 DEF DraftsFit, CashInvariant
<1>10. QED
    BY <1>1, <1>3, <1>4, <1>5, <1>6, <1>7, <1>8, <1>9, TypeFacts DEF CashInvariant, ManualCashTypeOK

-----------------------------------------------------------------------------
(***************************************************************************)
(* The system.                                                             *)
(***************************************************************************)
LEMMA CashStarts == CashInit => CategoryInvariant /\ CashInvariant
<1>1. SUFFICES ASSUME NEW seeded \in Forests, ManualCashInit(seeded)
               PROVE  CategoryInvariant /\ CashInvariant
    BY DEF CashInit
<1>2. CategoryInvariant
    <2>1. /\ categories = seeded /\ charged = {} /\ changes = [o \in Officers |-> NoChange]
        BY <1>1 DEF ManualCashInit, CategoriesInit
    <2>2. CategoriesTypeOK
        BY <1>1, <2>1 DEF CategoriesTypeOK
    <2>3. QED
        BY <2>1, <2>2 DEF CategoryInvariant, Charged
<1>3. /\ drafts = [d \in Drafts |-> NoDraft] /\ deposits = [s \in Deposits |-> NoDeposit]
      /\ cash = << >> /\ journals = << >> /\ sequences = [day \in Days |-> 1] /\ today = 1
    BY <1>1 DEF ManualCashInit
<1>4. ManualCashTypeOK
    BY <1>3, ManualCashAssumption DEF ManualCashTypeOK
<1>5. KindsFit(journals) /\ RowsFit(journals, cash) /\ SavingsFit(journals, deposits)
    BY <1>3 DEF KindsFit, RowsFit, SavingsFit
<1>6. ApprovedIn(drafts) = {} /\ BookedIn(journals) = {}
    BY <1>3 DEF ApprovedIn, BookedIn
<1>7. DraftsFit(drafts, journals)
    BY <1>6, FS_EmptySet DEF DraftsFit
<1>8. QED
    BY <1>2, <1>4, <1>5, <1>7 DEF CashInvariant

LEMMA CashStep ==
    ASSUME CategoryInvariant, CashInvariant, [CashNext]_allCashVars
    PROVE  CategoryInvariant' /\ CashInvariant' /\ UsedKept
<1>1. ASSUME UNCHANGED categoryVars PROVE CategoryInvariant' /\ UsedKept
    BY <1>1, PostingKeeps DEF categoryVars
<1>2. ASSUME UNCHANGED cashVars PROVE CashInvariant'
    BY <1>2 DEF cashVars, CashInvariant, ManualCashTypeOK
<1>3. CASE UNCHANGED allCashVars
    BY <1>1, <1>2, <1>3 DEF allCashVars
<1>4. CASE CategoriesNext /\ UNCHANGED cashVars
    BY <1>2, <1>4, CategoriesStep
<1>5. ASSUME NEW d \in Drafts, NEW entry \in Entries,
             \/ recordManualCashTransaction(d, entry)
             \/ updateManualCashTransactionDraft(d, entry)
      PROVE  CategoryInvariant' /\ CashInvariant' /\ UsedKept
    <2>1. /\ drafts[d] = NoDraft \/ drafts[d].status = "pending"
          /\ drafts' = [drafts EXCEPT ![d] = Pending(entry)]
          /\ UNCHANGED <<cash, sequences, journals, deposits, today>> /\ UNCHANGED categoryVars
        BY <1>5 DEF recordManualCashTransaction, updateManualCashTransactionDraft, MayEdit, categoryVars
    <2>2. QED
        BY <1>1, <2>1, DraftSaved
<1>6. ASSUME NEW d \in Drafts, approveManualCashTransactionDraft(d)
      PROVE  CategoryInvariant' /\ CashInvariant' /\ UsedKept
    <2> DEFINE entry == drafts[d].entry
               direction == legacyDirection(CashNet(entry.lines))
    <2>1. drafts[d] \in SavedDrafts
        BY <1>6, TypeFacts DEF approveManualCashTransactionDraft
    <2>2. entry.category \in Categories \cup {Uncategorised}
        BY <2>1 DEF SavedDrafts, Entries
    <2>3. direction \in Directions
        BY DEF legacyDirection, Directions
    <2>4. /\ UNCHANGED <<categories, changes>>
          /\ entry.category # Uncategorised => MayCharge(categories, entry.category, direction)
          /\ \/ charged' = charged
             \/ entry.category # Uncategorised /\ charged' = charged \cup {<<entry.category, direction>>}
        BY <1>6 DEF approveManualCashTransactionDraft, insertManualCashTransactionTx
    <2> HIDE DEF entry, direction
    <2>5. \/ charged' = charged
          \/ \E i \in Categories, e \in Directions :
                Exists(categories, i) /\ charged' = charged \cup {<<i, e>>}
        BY <2>2, <2>3, <2>4 DEF MayCharge
    <2>6. CategoryInvariant' /\ UsedKept
        BY <2>4, <2>5, PostingKeeps
    <2>7. QED
        BY <1>6, <2>6, DraftApproved
<1>7. ASSUME NEW s \in Deposits, NEW day \in Days, NEW amount \in Amounts, NEW lines \in Lines,
             insertSaving(s, day, amount, lines)
      PROVE  CategoryInvariant' /\ CashInvariant' /\ UsedKept
    BY <1>1, <1>7, SavingInserted DEF insertSaving
<1>8. ASSUME NEW s \in Deposits, removeSavingByID(s)
      PROVE  CategoryInvariant' /\ CashInvariant' /\ UsedKept
    BY <1>1, <1>8, SavingRemoved DEF removeSavingByID
<1>9. ASSUME NEW i \in DOMAIN journals, NEW day \in Days, reverseFinancialJournal(i, day)
      PROVE  CategoryInvariant' /\ CashInvariant' /\ UsedKept
    BY <1>1, <1>9, JournalReversed DEF reverseFinancialJournal
<1>10. ASSUME NEW keys \in SUBSET TransactionKeys, NEW source \in Sources,
              updateCashTransactionSources(keys, source)
       PROVE  CategoryInvariant' /\ CashInvariant' /\ UsedKept
    BY <1>1, <1>10, SourcesMoved DEF updateCashTransactionSources
<1>11. CASE nextDay
    <2>1. UNCHANGED categoryVars
        BY <1>11 DEF nextDay
    <2>2. CashInvariant'
        BY <1>11 DEF nextDay, CashInvariant, ManualCashTypeOK
    <2>3. QED
        BY <1>1, <2>1, <2>2
<1>12. CASE CashNext
    BY <1>4, <1>5, <1>6, <1>7, <1>8, <1>9, <1>10, <1>11, <1>12 DEF CashNext
<1>13. QED
    BY <1>3, <1>12

-----------------------------------------------------------------------------
(***************************************************************************)
(* What is listed and reported.                                            *)
(***************************************************************************)
LEMMA ElementFacts ==
    ASSUME CashInvariant
    PROVE  /\ \A i \in DOMAIN cash : cash[i].amount \in Int /\ cash[i].day \in Nat
           /\ \A j \in DOMAIN journals : journals[j].lines \in Lines
<1>1. /\ \A i \in DOMAIN cash : cash[i] \in CashTransaction
      /\ \A j \in DOMAIN journals : journals[j] \in Journal
    BY TypeFacts
<1>2. /\ \A row \in CashTransaction : row.amount \in Int /\ row.day \in Nat
      /\ \A j \in Journal : j.lines \in Lines
    BY ManualCashAssumption DEF CashTransaction, Journal
<1>3. QED
    BY <1>1, <1>2

LEMMA RowsFollow ==
    ASSUME CashInvariant
    PROVE  RowsFollowJournals
<1>1. \A i \in DOMAIN cash : cash[i].amount = CashNet(journals[cash[i].id].lines)
    BY DEF CashInvariant, RowsFit
<1>2. ASSUME NEW j \in DOMAIN journals, journals[j].kind = "manual", CashNet(journals[j].lines) # 0
      PROVE  Cardinality({i \in DOMAIN cash : cash[i].id = j}) = 1
    <2>1. PICK i \in DOMAIN cash : cash[i].id = j
        BY <1>2 DEF CashInvariant, RowsFit
    <2>2. {k \in DOMAIN cash : cash[k].id = j} = {i}
        BY <2>1 DEF CashInvariant, RowsFit
    <2>3. QED
        BY <2>2, FS_Singleton
<1>3. QED
    BY <1>1, <1>2 DEF RowsFollowJournals

LEMMA SourcesFollow ==
    ASSUME CashInvariant
    PROVE  SourcesAgree
<1> DEFINE Listed(key) == IF key[1] = "savings" THEN deposits[key[2]].source
                          ELSE (CHOOSE r \in Range(cash) : r.id = key[2]).source
<1>1. ASSUME NEW s \in Deposits, deposits[s] # NoDeposit, NEW j \in DOMAIN journals,
             KeyOf(journals[j]) = <<"savings", s>>
      PROVE  journals[j].source = Listed(<<"savings", s>>)
    <2>1. journals[j].kind = "savings" /\ journals[j].id = s
        BY <1>1 DEF KeyOf
    <2>2. QED
        BY <1>1, <2>1 DEF CashInvariant, SavingsFit
<1>2. ASSUME NEW i \in DOMAIN cash, NEW j \in DOMAIN journals,
             KeyOf(journals[j]) = <<"manual", cash[i].id>>
      PROVE  journals[j].source = Listed(<<"manual", cash[i].id>>)
    <2>1. journals[j].kind = "manual" /\ journals[j].id = cash[i].id
        BY <1>2 DEF KeyOf
    <2>2. j = cash[i].id
        BY <2>1 DEF CashInvariant, KindsFit
    <2>3. cash[i] \in Range(cash)
        BY DEF Range
    <2>4. \A r \in Range(cash) : r.id = cash[i].id => r = cash[i]
        BY DEF Range, CashInvariant, RowsFit
    <2>5. (CHOOSE r \in Range(cash) : r.id = cash[i].id) = cash[i]
        BY <2>3, <2>4
    <2>6. journals[j].source = cash[i].source
        BY <2>2 DEF CashInvariant, RowsFit
    <2>7. QED
        BY <2>5, <2>6
<1>3. QED
    BY <1>1, <1>2 DEF SourcesAgree, TransactionKeys


-----------------------------------------------------------------------------
(***************************************************************************)
(* The pages of a list.                                                    *)
(***************************************************************************)

\* What satisfies the recursion is what FlattenSeq makes.
LEMMA Flattened ==
    ASSUME NEW n \in Nat \ {0}, NEW S, NEW seqs \in [1 .. n -> Seq(S)],
           NEW h \in [1 .. n -> Seq(S)],
           \A i \in 1 .. n : h[i] = IF i = 1 THEN seqs[i] ELSE h[i - 1] \o seqs[i]
    PROVE  FlattenSeq(seqs) = h[n]
<1> DEFINE Solves(f) == f = [i \in 1 .. n |-> IF i = 1 THEN seqs[i] ELSE f[i - 1] \o seqs[i]]
           flatten == CHOOSE f : Solves(f)
<1>1. Len(seqs) = n /\ n # 0
    OBVIOUS
<1>2. FlattenSeq(seqs) = flatten[n]
    BY <1>1 DEF FlattenSeq
<1>3. Solves(h)
    OBVIOUS
<1>4. Solves(flatten)
    BY <1>3
<1>5. \A i \in 1 .. n : flatten[i] = IF i = 1 THEN seqs[i] ELSE flatten[i - 1] \o seqs[i]
    BY <1>4
<1> HIDE DEF flatten, Solves
<1> DEFINE bad == {i \in 1 .. n : flatten[i] # h[i]}
<1>6. bad = {}
    <2>1. SUFFICES ASSUME bad # {} PROVE FALSE
        OBVIOUS
    <2>2. PICK k \in bad : \A j \in bad : k <= j
        <3>1. bad \subseteq Nat
            OBVIOUS
        <3> HIDE DEF bad
        <3>2. QED
            BY <2>1, <3>1, LeastNumber
    <2>3. k # 1
        BY <1>5
    <2>4. k - 1 \in 1 .. n /\ k - 1 \notin bad
        BY <2>2, <2>3
    <2>5. flatten[k - 1] = h[k - 1]
        BY <2>4
    <2>6. QED
        BY <1>5, <2>3, <2>5
<1>7. n \in 1 .. n
    OBVIOUS
<1>8. QED
    BY <1>2, <1>6, <1>7

LEMMA PagesFacts ==
    ASSUME NEW rows \in Nat, NEW size \in 1 .. 2
    PROVE  /\ TotalPages(rows, size) \in Nat \ {0}
           /\ rows <= TotalPages(rows, size) * size
           /\ (TotalPages(rows, size) - 1) * size <= rows
<1>1. CASE size = 1
    <2>1. rows # 0 => TotalPages(rows, size) = rows
        BY <1>1 DEF TotalPages
    <2>2. rows = 0 => TotalPages(rows, size) = 1
        BY DEF TotalPages
    <2>3. QED
        BY <1>1, <2>1, <2>2
<1>2. CASE size = 2
    <2>1. rows # 0 => TotalPages(rows, size) = (rows + 1) \div 2
        BY <1>2 DEF TotalPages
    <2>2. rows = 0 => TotalPages(rows, size) = 1
        BY DEF TotalPages
    <2>3. QED
        BY <1>2, <2>1, <2>2
<1>3. QED
    BY <1>1, <1>2

LEMMA PartsJoin ==
    ASSUME NEW S, NEW s \in Seq(S), NEW a \in Nat, NEW b \in Nat, a <= b, b <= Len(s)
    PROVE  /\ SubSeq(s, 1, a) \in Seq(S) /\ SubSeq(s, a + 1, b) \in Seq(S)
           /\ SubSeq(s, 1, a) \o SubSeq(s, a + 1, b) = SubSeq(s, 1, b)
           /\ SubSeq(s, 1, Len(s)) = s
<1>1. /\ SubSeq(s, 1, a) \in Seq(S) /\ Len(SubSeq(s, 1, a)) = a
      /\ \A i \in 1 .. a : SubSeq(s, 1, a)[i] = s[i]
    OBVIOUS
<1>2. /\ SubSeq(s, a + 1, b) \in Seq(S) /\ Len(SubSeq(s, a + 1, b)) = b - a
      /\ \A i \in 1 .. b - a : SubSeq(s, a + 1, b)[i] = s[a + i]
    OBVIOUS
<1>3. /\ SubSeq(s, 1, b) \in Seq(S) /\ Len(SubSeq(s, 1, b)) = b
      /\ \A i \in 1 .. b : SubSeq(s, 1, b)[i] = s[i]
    OBVIOUS
<1> DEFINE x == SubSeq(s, 1, a)
           y == SubSeq(s, a + 1, b)
           z == SubSeq(s, 1, b)
<1>4. x \o y = z
    <2> HIDE DEF x, y, z
    <2>1. x \o y \in Seq(S) /\ Len(x \o y) = b
        BY <1>1, <1>2 DEF x, y
    <2>2. \A i \in 1 .. b : (x \o y)[i] = z[i]
        <3>1. \A i \in 1 .. b : (x \o y)[i] = IF i <= a THEN x[i] ELSE y[i - a]
            BY <1>1, <1>2 DEF x, y
        <3>2. \A i \in 1 .. b : i <= a => x[i] = s[i]
            BY <1>1 DEF x
        <3>3. \A i \in 1 .. b : ~(i <= a) => i - a \in 1 .. b - a /\ y[i - a] = s[i]
            BY <1>2 DEF y
        <3>4. \A i \in 1 .. b : z[i] = s[i]
            BY <1>3 DEF z
        <3>5. QED
            BY <3>1, <3>2, <3>3, <3>4
    <2>3. QED
        BY <1>3, <2>1, <2>2 DEF z
<1>5. SubSeq(s, 1, Len(s)) = s
    OBVIOUS
<1>6. QED
    BY <1>1, <1>2, <1>4, <1>5

\* The page asked for, if there is one.
LEMMA PageAsked ==
    ASSUME NEW list, NEW n \in Nat \ {0}, NEW size,
           NEW total \in Nat \ {0}, TotalPages(Len(list), size) = total, n <= total + 1
    PROVE  LET page == cashTransactionsPageForAdmin(list, n, size)
           IN /\ page.pages = total /\ page.balance = TotalOf(list)
              /\ page.next <=> n < total
              /\ n <= total => page.rows = SubSeq(list, (n - 1) * size + 1,
                                                  IF n * size < Len(list) THEN n * size ELSE Len(list))
<1> DEFINE number == IF n < 1 THEN 1 ELSE IF n > total THEN total ELSE n
           page == cashTransactionsPageForAdmin(list, n, size)
<1>1. (n <= total => number = n) /\ (number < total <=> n < total)
    OBVIOUS
<1>2. page = [rows |-> SubSeq(list, (number - 1) * size + 1,
                              IF number * size < Len(list) THEN number * size ELSE Len(list)),
              page |-> number, pages |-> total, balance |-> TotalOf(list),
              previous |-> number > 1, next |-> number < total]
    BY Zenon DEF cashTransactionsPageForAdmin
<1> HIDE DEF number, page
<1>3. /\ page.rows = SubSeq(list, (number - 1) * size + 1,
                            IF number * size < Len(list) THEN number * size ELSE Len(list))
      /\ page.pages = total /\ page.balance = TotalOf(list) /\ page.next = (number < total)
    BY <1>2, Zenon
<1>4. n <= total => page.rows = SubSeq(list, (n - 1) * size + 1,
                                       IF n * size < Len(list) THEN n * size ELSE Len(list))
    BY <1>1, <1>3, Zenon
<1>5. page.next <=> n < total
    BY <1>1, <1>3
<1>6. QED
    BY <1>3, <1>4, <1>5 DEF page

LEMMA ListShown ==
    ASSUME NEW S, NEW list \in Seq(S), NEW size \in 1 .. 2
    PROVE  LET Page(n) == cashTransactionsPageForAdmin(list, n, size)
               pages == Page(1).pages
           IN /\ FlattenSeq([n \in 1 .. pages |-> Page(n).rows]) = list
              /\ \A n \in 1 .. pages + 1 :
                   Page(n).balance = TotalOf(list) /\ (Page(n).next <=> n < pages)
<1> DEFINE Page(n) == cashTransactionsPageForAdmin(list, n, size)
           pages == Page(1).pages
           len == Len(list)
           total == TotalPages(len, size)
           To(n) == IF n * size < len THEN n * size ELSE len
           rows == [n \in 1 .. total |-> SubSeq(list, (n - 1) * size + 1, To(n))]
           shown == [n \in 1 .. total |-> SubSeq(list, 1, To(n))]
<1>1. /\ total \in Nat \ {0} /\ len \in Nat /\ size \in Nat
      /\ len <= total * size /\ (total - 1) * size <= len
    <2>1. len \in Nat
        OBVIOUS
    <2> HIDE DEF len
    <2>2. /\ TotalPages(len, size) \in Nat \ {0}
          /\ len <= TotalPages(len, size) * size
          /\ (TotalPages(len, size) - 1) * size <= len
        BY <2>1, PagesFacts, Zenon
    <2> HIDE DEF total
    <2>3. size \in Nat
        OBVIOUS
    <2>4. QED
        BY <2>1, <2>2, <2>3, Zenon DEF total
<1>2. ASSUME NEW n \in Nat \ {0}, n <= total + 1
      PROVE  /\ Page(n).pages = total /\ Page(n).balance = TotalOf(list)
             /\ Page(n).next <=> n < total
             /\ n <= total => Page(n).rows = SubSeq(list, (n - 1) * size + 1, To(n))
    <2> HIDE DEF total
    <2>1. TotalPages(Len(list), size) = total
        BY DEF total
    <2>2. QED
        BY <1>1, <1>2, <2>1, PageAsked
<1> HIDE DEF total
<1>3. \A n \in 1 .. total : Page(n).rows = SubSeq(list, (n - 1) * size + 1, To(n))
    <2> HIDE DEF Page, To
    <2>1. \A n \in 1 .. total : n \in Nat \ {0} /\ n <= total + 1 /\ n <= total
        BY <1>1
    <2>2. QED
        BY <1>2, <2>1
<1>4. /\ pages = total
      /\ \A n \in 1 .. total + 1 : Page(n).balance = TotalOf(list) /\ (Page(n).next <=> n < total)
    <2> HIDE DEF Page, To
    <2>1. 1 \in Nat \ {0} /\ 1 <= total + 1 /\ \A n \in 1 .. total + 1 : n \in Nat \ {0} /\ n <= total + 1
        BY <1>1
    <2>2. QED
        BY <1>1, <1>2, <2>1
<1>5. ASSUME NEW n \in 1 .. total
      PROVE  /\ To(n) \in Nat /\ To(n) <= len /\ (n - 1) * size \in Nat /\ (n - 1) * size <= To(n)
             /\ n # 1 => n - 1 \in 1 .. total /\ To(n - 1) = (n - 1) * size
             /\ n = total => To(n) = len
    <2>1. CASE size = 1
        BY <1>1, <2>1
    <2>2. CASE size = 2
        BY <1>1, <2>2
    <2>3. QED
        BY <2>1, <2>2
<1> HIDE DEF len, To
<1>6. ASSUME NEW n \in 1 .. total
      PROVE  /\ rows[n] \in Seq(S) /\ shown[n] \in Seq(S)
             /\ shown[n] = IF n = 1 THEN rows[n] ELSE shown[n - 1] \o rows[n]
             /\ n = total => shown[n] = list
    <2>1. /\ SubSeq(list, (n - 1) * size + 1, To(n)) \in Seq(S)
          /\ SubSeq(list, 1, (n - 1) * size) \o SubSeq(list, (n - 1) * size + 1, To(n)) = SubSeq(list, 1, To(n))
          /\ SubSeq(list, 1, Len(list)) = list
        <3>1. To(n) \in Nat /\ (n - 1) * size \in Nat /\ (n - 1) * size <= To(n) /\ To(n) <= Len(list)
            BY <1>5 DEF len
        <3> DEFINE a == (n - 1) * size
                   b == To(n)
        <3>2. a \in Nat /\ b \in Nat /\ a <= b /\ b <= Len(list)
            BY <3>1
        <3> HIDE DEF a, b
        <3>3. /\ SubSeq(list, a + 1, b) \in Seq(S) /\ SubSeq(list, 1, Len(list)) = list
              /\ SubSeq(list, 1, a) \o SubSeq(list, a + 1, b) = SubSeq(list, 1, b)
            BY <3>2, PartsJoin
        <3>4. QED
            BY <3>3 DEF a, b
    <2>2. SubSeq(list, 1, To(n)) \in Seq(S)
        BY <1>5 DEF len
    <2>3. n = 1 => (n - 1) * size + 1 = 1
        BY <1>1
    <2>4. QED
        BY <1>5, <2>1, <2>2, <2>3 DEF len
<1> HIDE DEF rows, shown
<1>7. rows \in [1 .. total -> Seq(S)] /\ shown \in [1 .. total -> Seq(S)]
    BY <1>6 DEF rows, shown
<1>8. FlattenSeq(rows) = shown[total]
    <2>1. \A i \in 1 .. total : shown[i] = IF i = 1 THEN rows[i] ELSE shown[i - 1] \o rows[i]
        BY <1>6
    <2>2. QED
        BY <1>1, <1>7, <2>1, Flattened
<1>9. total \in 1 .. total
    BY <1>1
<1>10. shown[total] = list
    BY <1>6, <1>9
<1>11. [n \in 1 .. pages |-> Page(n).rows] = rows
    BY <1>3, <1>4 DEF rows
<1>12. QED
    BY <1>4, <1>8, <1>10, <1>11

LEMMA KeysFinite ==
    ASSUME CashInvariant
    PROVE  IsFiniteSet(TransactionKeys)
<1> DEFINE saved == {t \in Deposits : deposits[t] # NoDeposit}
           named == [s \in saved |-> <<"savings", s>>]
           listed == [i \in DOMAIN cash |-> <<"manual", cash[i].id>>]
<1>1. IsFiniteSet({<<"savings", s>> : s \in saved})
    <2>1. IsFiniteSet(saved)
        <3>1. saved \subseteq Deposits
            OBVIOUS
        <3>2. QED
            BY <3>1, ManualCashAssumption, FS_Subset
    <2>2. named \in Surjection(saved, {<<"savings", s>> : s \in saved})
        BY DEF Surjection
    <2>3. QED
        BY <2>1, <2>2, FS_Surjection
<1>2. IsFiniteSet(DOMAIN cash)
    <2>1. DOMAIN cash = 1 .. Len(cash)
        BY TypeFacts
    <2>2. QED
        BY <2>1, TypeFacts, FS_Interval
<1>3. IsFiniteSet({<<"manual", cash[i].id>> : i \in DOMAIN cash})
    <2>1. listed \in Surjection(DOMAIN cash, {<<"manual", cash[i].id>> : i \in DOMAIN cash})
        BY DEF Surjection
    <2>2. QED
        BY <1>2, <2>1, FS_Surjection
<1>4. QED
    BY <1>1, <1>3, FS_Union DEF TransactionKeys

LEMMA PagesFollow ==
    ASSUME CashInvariant
    PROVE  PagesShowAll
<1> DEFINE list == cashTransactionsQuery(1, today)
           keys == {k \in TransactionKeys : 1 <= DayOf(k) /\ DayOf(k) <= today}
           shown == {list[n] : n \in DOMAIN list}
<1>1. Cardinality(keys) \in Nat
    <2>1. keys \subseteq TransactionKeys
        OBVIOUS
    <2>2. QED
        BY <2>1, KeysFinite, FS_Subset, FS_CardinalityType
<1>2. list \in Seq(shown)
    <2>1. list = [n \in 1 .. Cardinality(keys) |-> list[n]]
        BY DEF cashTransactionsQuery
    <2> HIDE DEF list, keys
    <2>2. DOMAIN list = 1 .. Cardinality(keys) /\ list \in [1 .. Cardinality(keys) -> shown]
        BY <2>1
    <2> HIDE DEF shown
    <2>3. QED
        BY <1>1, <2>2
<1> HIDE DEF list, shown
<1>3. QED
    BY <1>2, ListShown DEF PagesShowAll, list

-----------------------------------------------------------------------------
(***************************************************************************)
(* The report.                                                             *)
(***************************************************************************)

\* From the first day on is from the start.
LEMMA AllDaysReported ==
    ASSUME CashInvariant
    PROVE  Within(EarliestActivity(today), today) = {i \in DOMAIN cash : cash[i].day <= today}
<1> DEFINE kept == {deposits[s].day : s \in {t \in Deposits : deposits[t] # NoDeposit}}
           days == {cash[i].day : i \in DOMAIN cash} \cup kept
           first == EarliestActivity(today)
<1>1. days \subseteq Nat
    <2>1. \A i \in DOMAIN cash : cash[i].day \in Nat
        BY ElementFacts
    <2>2. \A s \in Deposits : deposits[s] # NoDeposit => deposits[s].day \in Nat
        BY TypeFacts, ManualCashAssumption DEF SavedDeposits
    <2>3. QED
        BY <2>1, <2>2
<1>2. first = IF days = {} THEN today ELSE CHOOSE day \in days : \A other \in days : day <= other
    BY DEF EarliestActivity
<1>3. \A i \in DOMAIN cash : cash[i].day \in days
    OBVIOUS
<1> HIDE DEF days, first
<1>4. \A day \in days : first <= day
    <2>1. CASE days = {}
        BY <2>1
    <2>2. CASE days # {}
        <3>1. \E day \in days : \A other \in days : day <= other
            BY <1>1, <2>2, LeastNumber
        <3>2. QED
            BY <1>2, <2>2, <3>1
    <2>3. QED
        BY <2>1, <2>2
<1>5. QED
    BY <1>3, <1>4 DEF Within, first

\* Sums over rows of cash, split by what moves in and what moves out.
LEMMA RowSums ==
    ASSUME CashInvariant, NEW rows \in SUBSET DOMAIN cash
    PROVE  LET in == {i \in rows : cash[i].amount > 0}
               out == {i \in rows : cash[i].amount < 0}
           IN /\ IsFiniteSet(rows) /\ \A i \in DOMAIN cash : cash[i].amount \in Int
              /\ AmountsOf(rows) \in Int /\ AmountsOf(in) \in Nat /\ AmountsOf(out) \in Int
              /\ AmountsOf(rows) = AmountsOf(in) + AmountsOf(out)
<1> DEFINE f == [i \in DOMAIN cash |-> cash[i].amount]
           in == {i \in rows : cash[i].amount > 0}
           out == {i \in rows : cash[i].amount < 0}
<1>1. IsFiniteSet(DOMAIN cash)
    <2>1. DOMAIN cash = 1 .. Len(cash)
        BY TypeFacts
    <2>2. QED
        BY <2>1, TypeFacts, FS_Interval
<1>2. \A i \in DOMAIN cash : cash[i].amount \in Int /\ cash[i].amount # 0 /\ f[i] = cash[i].amount
    <2>1. \A i \in DOMAIN cash : cash[i].amount # 0
        BY DEF CashInvariant, RowsFit
    <2>2. QED
        BY <2>1, ElementFacts
<1>3. IsFiniteSet(rows) /\ IsFiniteSet(in) /\ IsFiniteSet(out)
    <2>1. in \subseteq rows /\ out \subseteq rows
        OBVIOUS
    <2> HIDE DEF in, out
    <2>2. QED
        BY <1>1, <2>1, FS_Subset
<1>4. ASSUME NEW some \in SUBSET DOMAIN cash, IsFiniteSet(some)
      PROVE  AmountsOf(some) = SumFunctionOnSet(f, some)
    <2> DEFINE g == [i \in some |-> cash[i].amount]
    <2>1. \A i \in some : g[i] = f[i]
        OBVIOUS
    <2> HIDE DEF f
    <2>2. AmountsOf(some) = SumFunctionOnSet(g, some)
        BY DEF AmountsOf, Sum
    <2> HIDE DEF g
    <2>3. QED
        BY <1>4, <2>1, <2>2, SumSame
<1>5. rows = in \cup out /\ in \cap out = {} /\ in \subseteq DOMAIN cash /\ out \subseteq DOMAIN cash
    BY <1>2
<1>6. /\ \A i \in in : f[i] \in Nat
      /\ \A i \in in \cup out : f[i] \in Int
    BY <1>2
<1> HIDE DEF in, out, f
<1>7. SumFunctionOnSet(f, in) \in Nat /\ SumFunctionOnSet(f, out) \in Int
    BY <1>3, <1>6, SumNat, SumType
<1>8. SumFunctionOnSet(f, in \cup out) = SumFunctionOnSet(f, in) + SumFunctionOnSet(f, out)
    BY <1>3, <1>5, <1>6, SumUnion
<1>9. /\ AmountsOf(rows) = SumFunctionOnSet(f, rows) /\ AmountsOf(in) = SumFunctionOnSet(f, in)
      /\ AmountsOf(out) = SumFunctionOnSet(f, out)
    BY <1>3, <1>4, <1>5
<1>10. AmountsOf(rows) = AmountsOf(in) + AmountsOf(out)
    BY <1>5, <1>8, <1>9
<1>11. QED
    BY <1>2, <1>3, <1>7, <1>9, <1>10 DEF in, out

\* The rows up to a day say what the manual journals up to that day have moved.
LEMMA RowsSayJournals ==
    ASSUME CashInvariant
    PROVE  LET manual == {j \in DOMAIN journals : journals[j].kind = "manual" /\ journals[j].day <= today}
           IN AmountsOf({i \in DOMAIN cash : cash[i].day <= today})
                = Sum([j \in manual |-> CashNet(journals[j].lines)], manual)
<1> DEFINE rows == {i \in DOMAIN cash : cash[i].day <= today}
           manual == {j \in DOMAIN journals : journals[j].kind = "manual" /\ journals[j].day <= today}
           moving == {j \in manual : CashNet(journals[j].lines) # 0}
           f == [j \in manual |-> CashNet(journals[j].lines)]
           g == [i \in rows |-> cash[i].amount]
           ids == [i \in rows |-> cash[i].id]
<1>1. IsFiniteSet(rows) /\ IsFiniteSet(manual) /\ moving \subseteq manual /\ IsFiniteSet(moving)
    <2>1. DOMAIN cash = 1 .. Len(cash) /\ DOMAIN journals = 1 .. Len(journals)
        BY TypeFacts
    <2>2. IsFiniteSet(1 .. Len(cash)) /\ IsFiniteSet(1 .. Len(journals))
        BY TypeFacts, FS_Interval
    <2>3. rows \subseteq DOMAIN cash /\ manual \subseteq DOMAIN journals /\ moving \subseteq manual
        OBVIOUS
    <2> HIDE DEF rows, manual, moving
    <2>4. QED
        BY <2>1, <2>2, <2>3, FS_Subset
<1>2. \A j \in manual : f[j] \in Int
    <2>1. \A j \in DOMAIN journals : journals[j].lines \in Lines
        BY ElementFacts
    <2>2. QED
        BY <2>1, NetFacts
<1>3. /\ \A i \in rows : /\ cash[i].id \in moving
                         /\ g[i] = f[ids[i]]
      /\ \A i, k \in rows : ids[i] = ids[k] => i = k
      /\ \A j \in moving : \E i \in rows : ids[i] = j
    <2>1. \A i \in rows : cash[i].id \in moving
        BY DEF CashInvariant, RowsFit
    <2>2. \A i \in rows : cash[i].amount = CashNet(journals[cash[i].id].lines)
        BY DEF CashInvariant, RowsFit
    <2>3. \A i, k \in rows : cash[i].id = cash[k].id => i = k
        BY DEF CashInvariant, RowsFit
    <2>4. \A j \in moving : \E i \in DOMAIN cash : cash[i].id = j /\ cash[i].day = journals[j].day
        BY DEF CashInvariant, RowsFit
    <2>5. \A j \in moving : journals[j].day <= today
        OBVIOUS
    <2>6. \A j \in moving : \E i \in rows : cash[i].id = j
        BY <2>4, <2>5
    <2>7. \A i \in rows : ids[i] = cash[i].id /\ g[i] = cash[i].amount
        OBVIOUS
    <2>8. \A j \in moving : f[j] = CashNet(journals[j].lines)
        OBVIOUS
    <2> HIDE DEF ids, g, f, rows, moving
    <2>9. QED
        BY <2>1, <2>2, <2>3, <2>6, <2>7, <2>8
<1>4. \A j \in manual \ moving : f[j] = 0
    OBVIOUS
<1>5. ids \in [rows -> moving]
    BY <1>3
<1>6. \A j \in manual : j \in moving => f[j] \in Int
    BY <1>2
<1>7. AmountsOf(rows) = SumFunctionOnSet(g, rows)
    BY DEF AmountsOf, Sum
<1> HIDE DEF rows, manual, moving, f, g, ids
<1>8. \A i \in rows : ids[i] \in moving
    BY <1>5
<1>9. \A i \in rows : g[i] \in Int /\ g[i] = f[ids[i]]
    BY <1>1, <1>2, <1>3, <1>8
<1>10. {ids[i] : i \in rows} = moving
    BY <1>3, <1>8
<1>11. SumFunctionOnSet(g, rows) = SumFunctionOnSet(f, {ids[i] : i \in rows})
    BY <1>1, <1>3, <1>5, <1>9, SumReindexed
<1>12. \A j \in moving : f[j] \in Int /\ f[j] = f[j]
    BY <1>1, <1>2
<1>13. SumFunctionOnSet(f, moving) = SumFunctionOnSet(f, manual)
    BY <1>1, <1>4, <1>12, SumFilter
<1>14. AmountsOf(rows) = SumFunctionOnSet(f, manual)
    BY <1>7, <1>10, <1>11, <1>13, Zenon
<1>15. QED
    BY <1>14 DEF Sum, rows, manual, f

\* What has a category is some of it.
LEMMA CategorisedIsPart ==
    ASSUME CashInvariant, NEW rows \in SUBSET DOMAIN cash, \A i \in rows : cash[i].amount > 0,
           NEW by, \A k \in Categories : by[k] = AmountsOf({i \in rows : cash[i].category = k})
    PROVE  SumFunctionOnSet(by, Categories) <= AmountsOf(rows)
<1> DEFINE f == [i \in rows |-> cash[i].amount]
           class == [i \in rows |-> cash[i].category]
           known == {i \in rows : class[i] \in Categories}
<1>1. IsFiniteSet(rows)
    BY RowSums
<1>2. \A i \in rows : f[i] \in Nat
    BY ElementFacts
<1>3. ASSUME NEW k \in Categories PROVE by[k] = SumFunctionOnSet(f, {i \in rows : class[i] = k})
    <2> DEFINE of == {i \in rows : cash[i].category = k}
               g == [i \in of |-> cash[i].amount]
    <2>1. by[k] = SumFunctionOnSet(g, of)
        BY <1>3 DEF AmountsOf, Sum
    <2>2. \A i \in of : g[i] = f[i]
        OBVIOUS
    <2>3. of = {i \in rows : class[i] = k} /\ of \subseteq rows
        OBVIOUS
    <2> HIDE DEF of, g, f, class
    <2>4. SumFunctionOnSet(g, of) = SumFunctionOnSet(f, of)
        BY <1>1, <2>2, <2>3, FS_Subset, SumSame
    <2>5. QED
        BY <2>1, <2>3, <2>4
<1>4. AmountsOf(rows) = SumFunctionOnSet(f, rows)
    BY DEF AmountsOf, Sum
<1>5. known \subseteq rows /\ rows = known \cup (rows \ known) /\ known \cap (rows \ known) = {}
    OBVIOUS
<1> HIDE DEF f, class
<1>6. SumFunctionOnSet(by, Categories) = SumFunctionOnSet(f, known)
    <2>1. \A i \in rows : f[i] \in Int
        BY <1>2
    <2>2. IsFiniteSet(Categories)
        BY CategoriesAssumption
    <2> DEFINE kind == [i \in known |-> class[i]]
               of == [k \in Categories |-> {i \in known : class[i] = k}]
    <2>3. /\ kind \in [known -> Categories] /\ of \in [Categories -> SUBSET known]
          /\ \A k \in Categories : \A i \in known : i \in of[k] <=> kind[i] = k
        OBVIOUS
    <2>4. \A k \in Categories : of[k] = {i \in rows : class[i] = k}
        OBVIOUS
    <2>5. \A i \in known : f[i] \in Int
        BY <2>1
    <2>6. IsFiniteSet(known)
        BY <1>1, <1>5, FS_Subset
    <2> HIDE DEF known, kind, of
    <2>7. \A k \in Categories : by[k] = SumFunctionOnSet(f, of[k])
        BY <1>3, <2>4
    <2>8. QED
        BY <2>2, <2>3, <2>5, <2>6, <2>7, SumGrouped
<1> HIDE DEF known
<1> DEFINE rest == rows \ known
<1>7. IsFiniteSet(known) /\ IsFiniteSet(rest) /\ rest \subseteq rows
    BY <1>1, <1>5, FS_Subset
<1>8. rows = known \cup rest /\ known \cap rest = {}
    BY <1>5
<1> HIDE DEF rest
<1>9. SumFunctionOnSet(f, known) \in Nat /\ SumFunctionOnSet(f, rest) \in Nat
    BY <1>2, <1>5, <1>7, SumNat
<1>10. \A i \in known \cup rest : f[i] \in Int
    BY <1>2, <1>8
<1>11. SumFunctionOnSet(f, known \cup rest) = SumFunctionOnSet(f, known) + SumFunctionOnSet(f, rest)
    BY <1>7, <1>8, <1>10, SumUnion
<1>12. AmountsOf(rows) = SumFunctionOnSet(f, known) + SumFunctionOnSet(f, rest)
    BY <1>4, <1>8, <1>11
<1>13. QED
    BY <1>6, <1>9, <1>12

LEMMA ReportFollows ==
    ASSUME CashInvariant
    PROVE  ReportFollowsJournals
<1> DEFINE report == profitLossReport
           from == EarliestActivity(today)
           rows == Within(from, today)
           in == {i \in rows : cash[i].amount > 0}
           out == {i \in rows : cash[i].amount < 0}
           by == manualCashCategoryBreakdown(from, today)
           incomes == [k \in Categories |-> by[k].income]
           manual == {j \in DOMAIN journals : journals[j].kind = "manual" /\ journals[j].day <= today}
<1>1. /\ report.manual.income = AmountsOf(in) /\ report.cost = -AmountsOf(out)
      /\ report.categorised.income = SumFunctionOnSet(incomes, Categories)
    BY DEF profitLossReport, manualCashTotals, Sum
<1>2. rows \in SUBSET DOMAIN cash
    BY DEF Within
<1>3. /\ AmountsOf(in) \in Nat /\ AmountsOf(out) \in Int
      /\ AmountsOf(rows) = AmountsOf(in) + AmountsOf(out)
    <2> HIDE DEF rows
    <2>1. QED
        BY <1>2, RowSums
<1>4. AmountsOf(rows) = Sum([j \in manual |-> CashNet(journals[j].lines)], manual)
    BY AllDaysReported, RowsSayJournals
<1>5. \A k \in Categories : incomes[k] = AmountsOf({i \in in : cash[i].category = k})
    <2>1. ASSUME NEW k \in Categories
          PROVE  incomes[k] = AmountsOf({i \in {h \in rows : cash[h].category = k} : cash[i].amount > 0})
        BY DEF manualCashCategoryBreakdown
    <2>2. \A k \in Categories : {i \in {h \in rows : cash[h].category = k} : cash[i].amount > 0}
                                    = {i \in in : cash[i].category = k}
        OBVIOUS
    <2> HIDE DEF incomes, rows, in
    <2>3. QED
        BY <2>1, <2>2
<1>6. in \in SUBSET DOMAIN cash /\ \A i \in in : cash[i].amount > 0
    BY <1>2
<1> HIDE DEF report, rows, in, out, by, incomes, from
<1>7. SumFunctionOnSet(incomes, Categories) <= AmountsOf(in)
    BY <1>5, <1>6, CategorisedIsPart
<1>8. report.manual.income - report.cost = AmountsOf(rows)
    BY <1>1, <1>3
<1>9. QED
    BY <1>1, <1>4, <1>7, <1>8 DEF ReportFollowsJournals, report

-----------------------------------------------------------------------------
\* The inductive invariant of cash transactions and their categories.
THEOREM CashInvariantHolds == CashSpec => [](CategoryInvariant /\ CashInvariant)
<1>1. CategoryInvariant /\ CashInvariant /\ [CashNext]_allCashVars => (CategoryInvariant /\ CashInvariant)'
    BY CashStep
<1>2. QED
    BY CashStarts, <1>1, PTL DEF CashSpec

\* Each approved draft is booked once and as it was approved.
THEOREM DraftsPostOnceHolds == CashSpec => []DraftsPostOnce
<1>1. CashInvariant => DraftsPostOnce
    BY DEF CashInvariant, DraftsFit, DraftsPostOnce, ApprovedIn, BookedIn
<1>2. QED
    BY CashInvariantHolds, <1>1, PTL

\* A category that was used keeps its name and its direction, for any number of
\* officers, workbooks and categories.
THEOREM UsedKeepMeaningHolds == CashSpec => UsedKeepMeaning
<1>1. CategoryInvariant /\ CashInvariant /\ [CashNext]_allCashVars => [UsedKept]_categoryVars
    BY CashStep
<1>2. QED
    BY CashInvariantHolds, <1>1, PTL DEF CashSpec, UsedKeepMeaning, UsedKept

\* The list of cash transactions, its pages and the report agree with the books.
THEOREM CashFollowsBooksHolds == CashSpec => []CashFollowsBooks
<1>1. CashInvariant => CashFollowsBooks
    BY RowsFollow, SourcesFollow, PagesFollow, ReportFollows DEF CashFollowsBooks
<1>2. QED
    BY CashInvariantHolds, <1>1, PTL

-----------------------------------------------------------------------------
(***************************************************************************)
(* Imports of historical data.                                             *)
(***************************************************************************)

\* Where some of the steps of a call are.
EndAt(call)        == IF call.append THEN 10 ELSE 12
SeedAt(call)       == IF call.append \/ call.manifest.extended THEN 6 ELSE 5
TypesAt(call)      == IF call.append THEN 6 ELSE 8
ClassifiedAt(call) == IF call.append THEN 2 ELSE IF call.manifest.extended THEN 4 ELSE 7

StepNames ==
    {"snapshot", "open", "validate", "prepare", "extend", "reconcile", "empty", "seed", "configs",
     "classify", "loanTypes", "finish", "memberTypes", "succeed", "write"}

LEMMA TupleIsSeq ==
    ASSUME NEW S, NEW n \in Nat, NEW s, s = [i \in 1 .. n |-> s[i]], \A i \in 1 .. n : s[i] \in S
    PROVE  s \in Seq(S)
BY SeqDef

LEMMA PlanSteps ==
    ASSUME NEW call \in Calls, NEW n \in 1 .. Len(Steps(call))
    PROVE  /\ Steps(call) \in Seq(StepNames) /\ Len(Steps(call)) = EndAt(call)
           /\ Steps(call)[n] = "snapshot" => n = 1
           /\ Steps(call)[n] = "open" => n = 2
           /\ Steps(call)[n] = "validate" => n = 3
           /\ Steps(call)[n] = "prepare" => call.append /\ n = 4
           /\ Steps(call)[n] = "extend" => ~call.append /\ call.manifest.extended /\ n = 4
           /\ Steps(call)[n] = "reconcile" => call.append /\ n = 5
           /\ Steps(call)[n] = "empty" => ~call.append /\ n = SeedAt(call) - 1
           /\ Steps(call)[n] = "seed" => n = SeedAt(call)
           /\ Steps(call)[n] = "configs" => n = SeedAt(call) + 1
           /\ Steps(call)[n] = "classify" => ~call.append /\ ~call.manifest.extended /\ n = 7
           /\ Steps(call)[n] = "loanTypes" => ~call.append /\ n = 8
           /\ Steps(call)[n] = "finish" => ~call.append /\ n = 9
           /\ Steps(call)[n] = "memberTypes" => n = EndAt(call) - 2
           /\ Steps(call)[n] = "succeed" => n = EndAt(call) - 1
           /\ Steps(call)[n] = "write" => n = EndAt(call)
           /\ call.append /\ n = 5 => Steps(call)[n] = "reconcile"
           /\ ~call.append /\ call.manifest.extended /\ n = 4 => Steps(call)[n] = "extend"
           /\ ~call.append /\ ~call.manifest.extended /\ n = 7 => Steps(call)[n] = "classify"
           /\ ~call.append /\ n = 8 => Steps(call)[n] = "loanTypes"
           /\ n = SeedAt(call) => Steps(call)[n] = "seed"
<1>1. call.append \in BOOLEAN /\ call.manifest.extended \in BOOLEAN
    BY SeedAssumption
<1>2. CASE call.append
  <2> DEFINE s == <<"snapshot", "open", "validate", "prepare", "reconcile", "seed", "configs", "memberTypes", "succeed", "write">>
  <2>1. Steps(call) = s
      BY <1>1, <1>2 DEF Steps
  <2>2. /\ Len(s) = 10 /\ s = [i \in 1 .. 10 |-> s[i]]
        /\ s[1] = "snapshot"
        /\ s[2] = "open"
        /\ s[3] = "validate"
        /\ s[4] = "prepare"
        /\ s[5] = "reconcile"
        /\ s[6] = "seed"
        /\ s[7] = "configs"
        /\ s[8] = "memberTypes"
        /\ s[9] = "succeed"
        /\ s[10] = "write"
      OBVIOUS
  <2> HIDE DEF s
  <2>3. \A i \in 1 .. 10 : s[i] \in StepNames
    <3> TAKE i \in 1 .. 10
    <3> QED
        BY <2>2 DEF StepNames
  <2>4. s \in Seq(StepNames)
      BY <2>2, <2>3, TupleIsSeq
  <2>5. n \in 1 .. 10
      BY <2>1, <2>2
  <2> QED
      BY <1>1, <1>2, <2>1, <2>2, <2>4, <2>5 DEF EndAt, SeedAt
<1>3. CASE ~call.append /\ call.manifest.extended
  <2> DEFINE s == <<"snapshot", "open", "validate", "extend", "empty", "seed", "configs", "loanTypes", "finish", "memberTypes", "succeed", "write">>
  <2>1. Steps(call) = s
      BY <1>1, <1>3 DEF Steps
  <2>2. /\ Len(s) = 12 /\ s = [i \in 1 .. 12 |-> s[i]]
        /\ s[1] = "snapshot"
        /\ s[2] = "open"
        /\ s[3] = "validate"
        /\ s[4] = "extend"
        /\ s[5] = "empty"
        /\ s[6] = "seed"
        /\ s[7] = "configs"
        /\ s[8] = "loanTypes"
        /\ s[9] = "finish"
        /\ s[10] = "memberTypes"
        /\ s[11] = "succeed"
        /\ s[12] = "write"
      OBVIOUS
  <2> HIDE DEF s
  <2>3. \A i \in 1 .. 12 : s[i] \in StepNames
    <3> TAKE i \in 1 .. 12
    <3> QED
        BY <2>2 DEF StepNames
  <2>4. s \in Seq(StepNames)
      BY <2>2, <2>3, TupleIsSeq
  <2>5. n \in 1 .. 12
      BY <2>1, <2>2
  <2> QED
      BY <1>1, <1>3, <2>1, <2>2, <2>4, <2>5 DEF EndAt, SeedAt
<1>4. CASE ~call.append /\ ~call.manifest.extended
  <2> DEFINE s == <<"snapshot", "open", "validate", "empty", "seed", "configs", "classify", "loanTypes", "finish", "memberTypes", "succeed", "write">>
  <2>1. Steps(call) = s
      BY <1>1, <1>4 DEF Steps
  <2>2. /\ Len(s) = 12 /\ s = [i \in 1 .. 12 |-> s[i]]
        /\ s[1] = "snapshot"
        /\ s[2] = "open"
        /\ s[3] = "validate"
        /\ s[4] = "empty"
        /\ s[5] = "seed"
        /\ s[6] = "configs"
        /\ s[7] = "classify"
        /\ s[8] = "loanTypes"
        /\ s[9] = "finish"
        /\ s[10] = "memberTypes"
        /\ s[11] = "succeed"
        /\ s[12] = "write"
      OBVIOUS
  <2> HIDE DEF s
  <2>3. \A i \in 1 .. 12 : s[i] \in StepNames
    <3> TAKE i \in 1 .. 12
    <3> QED
        BY <2>2 DEF StepNames
  <2>4. s \in Seq(StepNames)
      BY <2>2, <2>3, TupleIsSeq
  <2>5. n \in 1 .. 12
      BY <2>1, <2>2
  <2> QED
      BY <1>1, <1>4, <2>1, <2>2, <2>4, <2>5 DEF EndAt, SeedAt
<1> QED
    BY <1>1, <1>2, <1>3, <1>4

LEMMA PlanLength ==
    ASSUME NEW call \in Calls
    PROVE  /\ Len(Steps(call)) = EndAt(call)
           /\ EndAt(call) \in Nat /\ SeedAt(call) \in Nat /\ TypesAt(call) \in Nat /\ ClassifiedAt(call) \in Nat
           /\ EndAt(call) \in {10, 12} /\ SeedAt(call) \in {5, 6} /\ SeedAt(call) <= TypesAt(call)
           /\ TypesAt(call) < EndAt(call) - 2 /\ ClassifiedAt(call) < EndAt(call) - 2
           /\ ClassifiedAt(call) >= 2 /\ (~call.append => ClassifiedAt(call) >= 4)
           /\ call.append \in BOOLEAN /\ call.manifest.extended \in BOOLEAN
<1>1. call.append \in BOOLEAN /\ call.manifest.extended \in BOOLEAN
    BY SeedAssumption
<1>2. Len(Steps(call)) = EndAt(call)
    BY <1>1 DEF Steps, EndAt
<1>3. CASE call.append
    BY <1>1, <1>2, <1>3 DEF EndAt, SeedAt, TypesAt, ClassifiedAt
<1>4. CASE ~call.append /\ call.manifest.extended
    BY <1>1, <1>2, <1>4 DEF EndAt, SeedAt, TypesAt, ClassifiedAt
<1>5. CASE ~call.append /\ ~call.manifest.extended
    BY <1>1, <1>2, <1>5 DEF EndAt, SeedAt, TypesAt, ClassifiedAt
<1> QED
    BY <1>1, <1>3, <1>4, <1>5

\* The steps from the n-th on.
From(call, n) == SubSeq(Steps(call), n, Len(Steps(call)))

LEMMA FromSteps ==
    ASSUME NEW call \in Calls, NEW n \in 1 .. Len(Steps(call))
    PROVE  /\ From(call, n) # << >>
           /\ Head(From(call, n)) = Steps(call)[n]
           /\ n < Len(Steps(call)) => Tail(From(call, n)) = From(call, n + 1)
           /\ n = Len(Steps(call)) => Tail(From(call, n)) = << >>
<1> DEFINE s == Steps(call)
<1>1. s \in Seq(StepNames) /\ Len(s) \in Nat
    BY PlanSteps
<1>2. n \in 1 .. Len(s)
    OBVIOUS
<1> HIDE DEF s
<1> DEFINE t == SubSeq(s, n, Len(s))
<1>3. /\ t \in Seq(StepNames) /\ Len(t) = Len(s) - n + 1
      /\ \A k \in 1 .. Len(s) - n + 1 : t[k] = s[n + k - 1]
    BY <1>1, <1>2
<1> HIDE DEF t
<1>4. t # << >> /\ Head(t) = s[n]
  <2>1. ASSUME t = << >> PROVE FALSE
    <3>1. Len(t) = 0
        BY <2>1
    <3> QED
        BY <3>1, <1>1, <1>2, <1>3
  <2>2. t[1] = s[n]
      BY <1>1, <1>2, <1>3
  <2> QED
      BY <1>3, <2>1, <2>2
<1>5. n < Len(s) => Tail(t) = SubSeq(s, n + 1, Len(s))
  <2> SUFFICES ASSUME n < Len(s) PROVE Tail(t) = SubSeq(s, n + 1, Len(s))
      OBVIOUS
  <2>1. Tail(t) \in Seq(StepNames) /\ Len(Tail(t)) = Len(s) - n
        /\ \A k \in 1 .. Len(s) - n : Tail(t)[k] = t[k + 1]
      BY <1>1, <1>2, <1>3, <1>4
  <2>2. SubSeq(s, n + 1, Len(s)) \in Seq(StepNames) /\ Len(SubSeq(s, n + 1, Len(s))) = Len(s) - n
        /\ \A k \in 1 .. Len(s) - n : SubSeq(s, n + 1, Len(s))[k] = s[n + k]
      BY <1>1, <1>2
  <2>3. \A k \in 1 .. Len(s) - n : Tail(t)[k] = s[n + k]
      BY <1>1, <1>2, <1>3, <2>1
  <2> QED
      BY <1>1, <1>2, <2>1, <2>2, <2>3, SeqEqual
<1>6. n = Len(s) => Tail(t) = << >>
  <2> SUFFICES ASSUME n = Len(s) PROVE Tail(t) = << >>
      OBVIOUS
  <2>1. Len(t) = 1
      BY <1>1, <1>3
  <2>2. Tail(t) \in Seq(StepNames) /\ Len(Tail(t)) = 0
      BY <1>3, <1>4, <2>1
  <2> QED
      BY <2>2, EmptySeq
<1> QED
    BY <1>4, <1>5, <1>6 DEF s, t, From

-----------------------------------------------------------------------------
(***************************************************************************)
(* The invariant: what an import has found, and has added, at the step at  *)
(* which it stands.                                                        *)
(***************************************************************************)
Statuses   == {"validating", "validation_failed", "dry_run", "failed", "succeeded"}
RunRecords == [snapshot : {c.manifest.snapshot : c \in Calls},
               hash     : {c.manifest.hash : c \in Calls}, status : Statuses]

\* The rows of money of a call are those of a run, and its people are members.
OwnRows(call, run) ==
    /\ \A row \in Replayed(call) : row \in DOMAIN savings /\ savings[row] = run
    /\ \A id \in DOMAIN call.manifest.loans : id \in DOMAIN loans /\ loans[id].run = run

BroughtPeople(call) == \A person \in call.manifest.people : SameNumber(person) # {}

Typed(call) == \A id \in DOMAIN call.manifest.loans : loans[id].type = call.manifest.loans[id]

\* Each person of the manifest is a member already or will be one.
PeopleFound(call, people) ==
    /\ \A m \in call.manifest.people : m \in people \/ SameNumber(m) # {}
    /\ \A m \in people : m \in call.manifest.people \/ m.id \in DOMAIN members

StandsAt(call, run, people, n) ==
    /\ n <= 2 <=> run = 0
    /\ 2 < n /\ n < EndAt(call) => runs[run].status = "validating"
    /\ 2 < n /\ n <= SeedAt(call) => run \notin Writers
    /\ 2 < n /\ n <= SeedAt(call) /\ ~(call.append /\ n = 6) => people = call.manifest.people
    /\ call.append /\ n = 6 => PeopleFound(call, people)
    /\ n > SeedAt(call) => OwnRows(call, run) /\ BroughtPeople(call)
    /\ n > ClassifiedAt(call) => schema >= 15
    /\ n > TypesAt(call) => Typed(call)

Fits(i) ==
    /\ DOMAIN i = {"call", "todo", "run", "people", "made", "result"}
    /\ i.run \in Nat
    /\ i.todo # << >> \/ i.run # 0 => i.call \in Calls
    /\ i.run # 0 => i.run \in DOMAIN runs /\ runs[i.run].snapshot = i.call.manifest.snapshot
    /\ i.todo # << >> =>
        \E n \in 1 .. Len(Steps(i.call)) :
            i.todo = From(i.call, n) /\ StandsAt(i.call, i.run, i.people, n)
    /\ i.run \in Writers => OwnRows(i.call, i.run) /\ BroughtPeople(i.call)
    /\ i.run # 0 /\ runs[i.run].status = "succeeded" =>
        schema >= 15 /\ OwnRows(i.call, i.run) /\ BroughtPeople(i.call) /\ Typed(i.call)

Tables ==
    /\ schema \in Nat
    /\ runs \in Seq(RunRecords)
    /\ \A id \in DOMAIN members : DOMAIN members[id] = {"no", "name", "status", "type"}
    /\ \A id \in DOMAIN loans : DOMAIN loans[id] = {"run", "type"}
    /\ \A call \in Calls : \A m \in call.manifest.people :
        m.id \in DOMAIN members => members[m.id].no = m.no
    /\ \A r \in Writers : r \in DOMAIN runs /\ runs[r].status \in {"validating", "failed", "succeeded"}

\* A run that has succeeded is that of a call whose rows it has.
Successes ==
    \A r \in DOMAIN runs : runs[r].status = "succeeded" =>
        \E call \in Calls : call.manifest.snapshot = runs[r].snapshot /\ OwnRows(call, r)

SeedInvariant ==
    /\ Tables /\ Successes
    /\ importers = [p \in Importers |-> importers[p]]
    /\ \A p \in Importers : Fits(importers[p])
    /\ \A p, q \in Importers : importers[p].run # 0 /\ importers[p].run = importers[q].run => p = q

-----------------------------------------------------------------------------
(***************************************************************************)
(* Rows are only added, with a run of r, and only r's run and the types of *)
(* its loans change.                                                       *)
(***************************************************************************)
Grows(r) ==
    /\ schema \in Nat /\ schema' \in Nat /\ schema' >= schema
    /\ \A id \in DOMAIN members : id \in DOMAIN members' /\ members'[id].no = members[id].no
    /\ \A row \in DOMAIN savings : row \in DOMAIN savings' /\ savings'[row] = savings[row]
    /\ \A id \in DOMAIN loans :
        /\ id \in DOMAIN loans' /\ loans'[id].run = loans[id].run
        /\ schema >= 15 /\ loans[id].run # r => loans'[id].type = loans[id].type
    /\ \A k \in DOMAIN runs :
        /\ k \in DOMAIN runs' /\ runs'[k].snapshot = runs[k].snapshot
        /\ k # r => runs'[k].status = runs[k].status
    /\ \A k \in Writers' : k \in Writers \/ (k = r /\ r # 0)

LEMMA OwnRowsKept ==
    ASSUME NEW call, NEW run, NEW r, Grows(r), OwnRows(call, run)
    PROVE  OwnRows(call, run)'
BY DEF Grows, OwnRows

LEMMA PeopleKept ==
    ASSUME NEW call, NEW r, Grows(r), BroughtPeople(call)
    PROVE  BroughtPeople(call)'
<1> SUFFICES ASSUME NEW person \in call.manifest.people
             PROVE  SameNumber(person)' # {}
    BY DEF BroughtPeople
<1>1. PICK id : id \in SameNumber(person)
    BY DEF BroughtPeople
<1>2. id \in SameNumber(person)'
    BY <1>1 DEF SameNumber, Grows
<1> QED
    BY <1>2

LEMMA FoundKept ==
    ASSUME NEW call, NEW people, NEW r, Grows(r), PeopleFound(call, people)
    PROVE  PeopleFound(call, people)'
<1>1. ASSUME NEW m \in call.manifest.people, m \notin people
      PROVE  SameNumber(m)' # {}
  <2>1. PICK id : id \in SameNumber(m)
      BY <1>1 DEF PeopleFound
  <2>2. id \in SameNumber(m)'
      BY <2>1 DEF SameNumber, Grows
  <2> QED
      BY <2>2
<1>2. \A m \in people : m \in call.manifest.people \/ m.id \in DOMAIN members'
    BY DEF PeopleFound, Grows
<1> QED
    BY <1>1, <1>2 DEF PeopleFound

LEMMA TypedKept ==
    ASSUME NEW call, NEW run, NEW r, Grows(r), run # r, schema >= 15, OwnRows(call, run), Typed(call)
    PROVE  Typed(call)'
BY DEF Grows, OwnRows, Typed

LEMMA StandsKept ==
    ASSUME NEW call \in Calls, NEW run, NEW people, NEW n \in 1 .. Len(Steps(call)), NEW r,
           Grows(r), run = 0 \/ run # r, run # 0 => run \in DOMAIN runs,
           StandsAt(call, run, people, n)
    PROVE  StandsAt(call, run, people, n)'
<1>1. Len(Steps(call)) = EndAt(call) /\ call.append \in BOOLEAN /\ call.manifest.extended \in BOOLEAN
    BY PlanSteps, SeedAssumption
<1>2. n \in Nat /\ (n <= 2 <=> run = 0)
    BY <1>1 DEF StandsAt, EndAt
<1>3. 2 < n /\ n < EndAt(call) => runs'[run].status = "validating"
    BY <1>2 DEF StandsAt, Grows
<1>4. 2 < n /\ n <= SeedAt(call) => run \notin Writers'
    BY <1>2 DEF StandsAt, Grows
<1>5. call.append /\ n = 6 => PeopleFound(call, people)'
    BY FoundKept DEF StandsAt
<1>6. n > SeedAt(call) => OwnRows(call, run)' /\ BroughtPeople(call)'
    BY OwnRowsKept, PeopleKept DEF StandsAt
<1>7. n > ClassifiedAt(call) => schema' >= 15
    BY DEF StandsAt, Grows
<1>8. n > TypesAt(call) => Typed(call)'
  <2> SUFFICES ASSUME n > TypesAt(call) PROVE Typed(call)'
      OBVIOUS
  <2>1. n > SeedAt(call) /\ n > ClassifiedAt(call) /\ n > 2
      BY <1>1, <1>2 DEF TypesAt, SeedAt, ClassifiedAt
  <2>2. run # r /\ schema >= 15 /\ OwnRows(call, run) /\ Typed(call)
      BY <1>2, <2>1 DEF StandsAt
  <2> QED
      BY <2>2, TypedKept
<1> QED
    BY <1>2, <1>3, <1>4, <1>5, <1>6, <1>7, <1>8 DEF StandsAt

LEMMA FitsKept ==
    ASSUME NEW i, NEW r, Grows(r), i.run = 0 \/ i.run # r, Fits(i)
    PROVE  Fits(i)'
<1>1. ASSUME i.todo # << >>
      PROVE  \E n \in 1 .. Len(Steps(i.call)) :
                 i.todo = From(i.call, n) /\ StandsAt(i.call, i.run, i.people, n)'
  <2>1. PICK n \in 1 .. Len(Steps(i.call)) :
            i.todo = From(i.call, n) /\ StandsAt(i.call, i.run, i.people, n)
      BY <1>1 DEF Fits
  <2>2. i.call \in Calls /\ (i.run # 0 => i.run \in DOMAIN runs)
      BY <1>1 DEF Fits
  <2>3. StandsAt(i.call, i.run, i.people, n)'
      BY <2>1, <2>2, StandsKept
  <2> QED
      BY <2>1, <2>3
<1>2. i.run \in Writers' => OwnRows(i.call, i.run)' /\ BroughtPeople(i.call)'
  <2> SUFFICES ASSUME i.run \in Writers' PROVE OwnRows(i.call, i.run)' /\ BroughtPeople(i.call)'
      OBVIOUS
  <2>1. i.run \in Writers
      BY DEF Grows
  <2>2. OwnRows(i.call, i.run) /\ BroughtPeople(i.call)
      BY <2>1 DEF Fits
  <2> QED
      BY <2>2, OwnRowsKept, PeopleKept
<1>3. i.run # 0 /\ runs'[i.run].status = "succeeded" =>
        schema' >= 15 /\ OwnRows(i.call, i.run)' /\ BroughtPeople(i.call)' /\ Typed(i.call)'
  <2> SUFFICES ASSUME i.run # 0, runs'[i.run].status = "succeeded"
               PROVE  schema' >= 15 /\ OwnRows(i.call, i.run)' /\ BroughtPeople(i.call)' /\ Typed(i.call)'
      OBVIOUS
  <2>1. runs[i.run].status = "succeeded"
      BY DEF Grows, Fits
  <2>2. schema >= 15 /\ OwnRows(i.call, i.run) /\ BroughtPeople(i.call) /\ Typed(i.call)
      BY <2>1 DEF Fits
  <2>3. schema' >= 15
      BY <2>2 DEF Grows
  <2> QED
      BY <2>2, <2>3, OwnRowsKept, PeopleKept, TypedKept
<1>4. i.run # 0 => i.run \in DOMAIN runs' /\ runs'[i.run].snapshot = i.call.manifest.snapshot
    BY DEF Fits, Grows
<1>5. /\ DOMAIN i = {"call", "todo", "run", "people", "made", "result"}
      /\ i.run \in Nat /\ (i.todo # << >> \/ i.run # 0 => i.call \in Calls)
    BY DEF Fits
<1> QED
    BY <1>1, <1>2, <1>3, <1>4, <1>5 DEF Fits

LEMMA NothingMoved == ASSUME UNCHANGED <<vars>>, SeedInvariant PROVE SeedInvariant'
BY DEF vars, db, SeedInvariant, Tables, Successes, Fits, StandsAt, OwnRows, BroughtPeople, Typed,
       PeopleFound, SameNumber, Writers, Range

\* What a step of p's import does to the records of imports.
LEMMA MovedImport ==
    ASSUME NEW p \in Importers, importers = [q \in Importers |-> importers[q]],
           DOMAIN importers[p] = {"call", "todo", "run", "people", "made", "result"}, NEW result
    PROVE  /\ Done(p) = [q \in Importers |-> Done(p)[q]]
           /\ End(p, result) = [q \in Importers |-> End(p, result)[q]]
           /\ \A q \in Importers : q # p =>
                Done(p)[q] = importers[q] /\ End(p, result)[q] = importers[q]
           /\ DOMAIN Done(p)[p] = DOMAIN importers[p] /\ DOMAIN End(p, result)[p] = DOMAIN importers[p]
           /\ Done(p)[p].call = importers[p].call /\ End(p, result)[p].call = importers[p].call
           /\ Done(p)[p].run = importers[p].run /\ End(p, result)[p].run = importers[p].run
           /\ Done(p)[p].people = importers[p].people
           /\ Done(p)[p].todo = Tail(importers[p].todo) /\ End(p, result)[p].todo = << >>
BY DEF Done, End

LEMMA MarkedRun ==
    ASSUME runs \in Seq(RunRecords), NEW p, importers[p].run \in DOMAIN runs, NEW status \in Statuses
    PROVE  /\ Mark(p, status) \in Seq(RunRecords)
           /\ DOMAIN Mark(p, status) = DOMAIN runs
           /\ \A k \in DOMAIN runs :
                /\ Mark(p, status)[k].snapshot = runs[k].snapshot
                /\ Mark(p, status)[k].status = IF k = importers[p].run THEN status ELSE runs[k].status
<1> DEFINE r == importers[p].run
           row == runs[r]
           new == [row EXCEPT !.status = status]
<1>1. r \in DOMAIN runs /\ DOMAIN runs = 1 .. Len(runs) /\ row \in RunRecords
    BY ElementOfSeq
<1>2. new \in RunRecords /\ new.snapshot = row.snapshot /\ new.status = status
    BY <1>1 DEF RunRecords
<1>3. Mark(p, status) = [runs EXCEPT ![r] = new]
    BY DEF Mark
<1> HIDE DEF new
<1>4. /\ [runs EXCEPT ![r] = new] \in Seq(RunRecords)
      /\ DOMAIN [runs EXCEPT ![r] = new] = DOMAIN runs
      /\ \A k \in DOMAIN runs : [runs EXCEPT ![r] = new][k] = IF k = r THEN new ELSE runs[k]
    BY <1>1, <1>2
<1> QED
    BY <1>2, <1>3, <1>4

\* A step of p's import keeps the invariant if it keeps it for p.
LEMMA ImportMoves ==
    ASSUME SeedInvariant, NEW p \in Importers, Tables', Grows(importers[p].run),
           importers' = [q \in Importers |-> importers'[q]],
           \A q \in Importers : q # p => importers'[q] = importers[q],
           Fits(importers[p])',
           \/ importers'[p].run = importers[p].run
           \/ importers'[p].run = 0
           \/ importers'[p].run \notin DOMAIN runs,
           \A k \in DOMAIN runs' : runs'[k].status = "succeeded" =>
               \/ k \in DOMAIN runs /\ runs[k].status = "succeeded"
               \/ \E call \in Calls : call.manifest.snapshot = runs'[k].snapshot /\ OwnRows(call, k)'
    PROVE  SeedInvariant'
<1>1. Successes'
  <2> SUFFICES ASSUME NEW k \in DOMAIN runs', runs'[k].status = "succeeded"
               PROVE  \E call \in Calls : call.manifest.snapshot = runs'[k].snapshot /\ OwnRows(call, k)'
      BY DEF Successes
  <2>1. CASE k \in DOMAIN runs /\ runs[k].status = "succeeded"
    <3>1. PICK call \in Calls : call.manifest.snapshot = runs[k].snapshot /\ OwnRows(call, k)
        BY <2>1 DEF SeedInvariant, Successes
    <3>2. OwnRows(call, k)'
        BY <3>1, OwnRowsKept
    <3>3. runs'[k].snapshot = runs[k].snapshot
        BY <2>1 DEF Grows
    <3> QED
        BY <3>1, <3>2, <3>3
  <2> QED
      BY <2>1
<1>2. ASSUME NEW q \in Importers PROVE Fits(importers[q])'
  <2>1. CASE q = p
      BY <2>1
  <2>2. CASE q # p
    <3> PICK i : i = importers[q]
        OBVIOUS
    <3>1. Fits(i) /\ (i.run = 0 \/ i.run # importers[p].run)
        BY <2>2 DEF SeedInvariant
    <3>2. Fits(i)'
        BY <3>1, FitsKept
    <3> QED
        BY <2>2, <3>2
  <2> QED
      BY <2>1, <2>2
<1>3. ASSUME NEW q \in Importers, NEW o \in Importers, importers'[q].run # 0,
             importers'[q].run = importers'[o].run
      PROVE  q = o
  <2>1. \A x \in Importers : importers[x].run # 0 => importers[x].run \in DOMAIN runs
      BY DEF SeedInvariant, Fits
  <2> QED
      BY <1>3, <2>1 DEF SeedInvariant
<1> QED
    BY <1>1, <1>2, <1>3 DEF SeedInvariant

\* Where an import stands that is about to take a step.
LEMMA Standing ==
    ASSUME NEW i, NEW step, Fits(i), i.todo # << >>, Head(i.todo) = step
    PROVE  /\ i.call \in Calls
           /\ \E n \in 1 .. Len(Steps(i.call)) :
                /\ StandsAt(i.call, i.run, i.people, n)
                /\ Steps(i.call)[n] = step
                /\ Tail(i.todo) = IF n < Len(Steps(i.call)) THEN From(i.call, n + 1) ELSE << >>
<1>1. i.call \in Calls
    BY DEF Fits
<1>2. PICK n \in 1 .. Len(Steps(i.call)) :
          i.todo = From(i.call, n) /\ StandsAt(i.call, i.run, i.people, n)
    BY DEF Fits
<1>3. Len(Steps(i.call)) \in Nat
    BY <1>1, PlanSteps
<1>4. Steps(i.call)[n] = step
    BY <1>1, <1>2, FromSteps
<1>5. Tail(i.todo) = IF n < Len(Steps(i.call)) THEN From(i.call, n + 1) ELSE << >>
  <2>1. n \in Nat /\ n <= Len(Steps(i.call))
      BY <1>3
  <2>2. CASE n < Len(Steps(i.call))
      BY <1>1, <1>2, <2>2, FromSteps
  <2>3. CASE n = Len(Steps(i.call))
    <3>1. Tail(From(i.call, n)) = << >>
        BY <1>1, <2>3, FromSteps
    <3>2. ~(n < Len(Steps(i.call)))
        BY <1>3, <2>3
    <3> QED
        BY <1>2, <3>1, <3>2
  <2> QED
      BY <1>3, <2>1, <2>2, <2>3
<1> QED
    BY <1>1, <1>2, <1>4, <1>5

LEMMA NoRunZero ==
    ASSUME Tables PROVE 0 \notin DOMAIN runs /\ 0 \notin Writers /\ DOMAIN runs = 1 .. Len(runs)
<1>1. DOMAIN runs = 1 .. Len(runs) /\ Len(runs) \in Nat
    BY DEF Tables
<1> QED
    BY <1>1 DEF Tables

\* What stays as it is only grows.
LEMMA RowsSame ==
    ASSUME Tables, UNCHANGED <<schema, members, users, savings, loans>>, NEW r,
           \A k \in DOMAIN runs :
               /\ k \in DOMAIN runs' /\ runs'[k].snapshot = runs[k].snapshot
               /\ k # r => runs'[k].status = runs[k].status
    PROVE  Grows(r)
<1>1. Writers' = Writers
    BY DEF Writers, Range
<1>2. schema \in Nat /\ schema' = schema
    BY DEF Tables
<1> QED
    BY <1>1, <1>2 DEF Grows

\* An import that ends.
LEMMA ImportEnds ==
    ASSUME SeedInvariant, NEW p \in Importers, NEW result, importers' = End(p, result),
           UNCHANGED <<schema, members, users, savings, loans>>,
           \/ runs' = runs
           \/ /\ importers[p].run \in DOMAIN runs \ Writers
              /\ \E status \in {"validation_failed", "dry_run"} : runs' = Mark(p, status)
           \/ importers[p].run \in DOMAIN runs /\ runs' = Mark(p, "failed")
    PROVE  SeedInvariant'
<1> PICK i : i = importers[p]
    OBVIOUS
<1> PICK j : j = importers'[p]
    OBVIOUS
<1>1. Tables /\ Fits(i) /\ importers = [q \in Importers |-> importers[q]]
    BY DEF SeedInvariant
<1>2. DOMAIN i = {"call", "todo", "run", "people", "made", "result"}
    BY <1>1 DEF Fits
<1>3. /\ importers' = [q \in Importers |-> importers'[q]]
      /\ \A q \in Importers : q # p => importers'[q] = importers[q]
      /\ DOMAIN j = DOMAIN i /\ j.call = i.call /\ j.run = i.run /\ j.todo = << >>
    BY <1>1, <1>2, MovedImport
<1>4. /\ runs' \in Seq(RunRecords) /\ DOMAIN runs' = DOMAIN runs
      /\ \A k \in DOMAIN runs :
            /\ runs'[k].snapshot = runs[k].snapshot
            /\ k # i.run => runs'[k].status = runs[k].status
            /\ runs'[k].status = "succeeded" => runs[k].status = "succeeded"
            /\ k \in Writers => runs'[k].status \in {"validating", "failed", "succeeded"}
  <2>1. CASE runs' = runs
      BY <1>1, <2>1 DEF Tables
  <2>2. CASE importers[p].run \in DOMAIN runs /\ \E status \in Statuses : runs' = Mark(p, status)
    <3>1. PICK status \in Statuses : runs' = Mark(p, status)
        BY <2>2
    <3>2. /\ runs' \in Seq(RunRecords) /\ DOMAIN runs' = DOMAIN runs
          /\ \A k \in DOMAIN runs :
                /\ runs'[k].snapshot = runs[k].snapshot
                /\ runs'[k].status = IF k = i.run THEN status ELSE runs[k].status
        <4>1. runs \in Seq(RunRecords) /\ importers[p].run \in DOMAIN runs /\ importers[p].run = i.run
            BY <1>1, <2>2 DEF Tables
        <4>2. /\ Mark(p, status) \in Seq(RunRecords)
              /\ DOMAIN Mark(p, status) = DOMAIN runs
              /\ \A k \in DOMAIN runs :
                    /\ Mark(p, status)[k].snapshot = runs[k].snapshot
                    /\ Mark(p, status)[k].status = IF k = i.run THEN status ELSE runs[k].status
            BY <4>1, MarkedRun
        <4>3. QED
            BY <3>1, <4>2
    <3>3. \/ runs' = runs
          \/ i.run \notin Writers /\ status # "succeeded"
          \/ status = "failed"
      <4>1. \/ runs' = runs
            \/ /\ i.run \notin Writers
               /\ \E s \in {"validation_failed", "dry_run"} : runs' = Mark(p, s)
            \/ runs' = Mark(p, "failed")
          OBVIOUS
      <4>2. ASSUME NEW s \in Statuses, runs' = Mark(p, s) PROVE runs'[i.run].status = s
          BY <1>1, <2>2, <4>2, MarkedRun DEF Tables
      <4>3. {"validation_failed", "dry_run", "failed"} \subseteq Statuses
          BY DEF Statuses
      <4>4. runs'[i.run].status = status
          BY <2>2, <3>2
      <4> QED
          BY <4>1, <4>2, <4>3, <4>4
    <3> QED
        BY <1>1, <3>2, <3>3 DEF Tables
  <2> QED
      BY <2>1, <2>2 DEF Statuses
<1>5. Grows(i.run)
    BY <1>1, <1>4, RowsSame
<1>6. Writers' = Writers
    BY DEF Writers, Range
<1>7. Tables'
    BY <1>1, <1>4, <1>6 DEF Tables, SameNumber
<1>8. Fits(j)'
  <2>1. j.run \in Writers' => OwnRows(j.call, j.run)' /\ BroughtPeople(j.call)'
      BY <1>1, <1>3, <1>5, <1>6, OwnRowsKept, PeopleKept DEF Fits
  <2>2. ASSUME j.run # 0, runs'[j.run].status = "succeeded"
        PROVE  schema' >= 15 /\ OwnRows(j.call, j.run)' /\ BroughtPeople(j.call)' /\ Typed(j.call)'
    <3>1. runs[i.run].status = "succeeded"
        BY <1>1, <1>3, <1>4, <2>2 DEF Fits
    <3>2. schema >= 15 /\ OwnRows(i.call, i.run) /\ BroughtPeople(i.call) /\ Typed(i.call)
        BY <1>1, <1>3, <2>2, <3>1 DEF Fits
    <3>3. Typed(i.call)'
        BY <3>2 DEF Typed
    <3>4. OwnRows(i.call, i.run)' /\ BroughtPeople(i.call)'
        BY <1>5, <3>2, OwnRowsKept, PeopleKept
    <3> QED
        BY <1>3, <3>2, <3>3, <3>4
  <2>3. /\ j.run \in Nat /\ (j.run # 0 => j.call \in Calls)
        /\ j.run # 0 => j.run \in DOMAIN runs' /\ runs'[j.run].snapshot = j.call.manifest.snapshot
      BY <1>1, <1>3, <1>4 DEF Fits
  <2> QED
      BY <1>2, <1>3, <2>1, <2>2, <2>3 DEF Fits
<1>9. Fits(importers[p])'
    BY <1>8
<1> QED
    BY <1>3, <1>4, <1>5, <1>7, <1>9, ImportMoves

\* An import that goes on to its next step.
LEMMA ImportGoesOn ==
    ASSUME SeedInvariant, NEW p \in Importers, Tables', Grows(importers[p].run),
           NEW n \in 1 .. Len(Steps(Call(p))), n < Len(Steps(Call(p))), Call(p) \in Calls,
           importers' = [q \in Importers |-> importers'[q]],
           \A q \in Importers : q # p => importers'[q] = importers[q],
           DOMAIN importers'[p] = DOMAIN importers[p],
           importers'[p].call = importers[p].call, importers'[p].run = importers[p].run,
           importers'[p].todo = From(Call(p), n + 1),
           StandsAt(importers[p].call, importers[p].run, importers[p].people, n + 1)',
           n > 2,
           n + 1 > SeedAt(Call(p)) \/ importers[p].run \notin Writers',
           \/ n + 1 < EndAt(Call(p))
           \/ /\ schema' >= 15 /\ OwnRows(importers[p].call, importers[p].run)'
              /\ BroughtPeople(importers[p].call)' /\ Typed(importers[p].call)',
           \A k \in DOMAIN runs' : k \in DOMAIN runs /\ (k # importers[p].run => runs'[k].status = runs[k].status)
    PROVE  SeedInvariant'
<1> PICK i : i = importers[p]
    OBVIOUS
<1> PICK j : j = importers'[p]
    OBVIOUS
<1>1. Tables /\ Fits(i) /\ Call(p) = i.call
    BY DEF SeedInvariant, Call
<1>2. Len(Steps(i.call)) = EndAt(i.call) /\ EndAt(i.call) \in Nat /\ SeedAt(i.call) \in Nat
    BY <1>1, PlanLength
<1>3. j.call = i.call /\ j.run = i.run /\ j.todo = From(i.call, n + 1) /\ DOMAIN j = DOMAIN i
    BY <1>1
<1>4. StandsAt(i.call, i.run, j.people, n + 1)'
    BY <1>3
<1>5. i.run # 0
    BY <1>1, <1>2, <1>4 DEF StandsAt
<1>6. i.run \in DOMAIN runs /\ i.run \in DOMAIN runs' /\ runs'[i.run].snapshot = i.call.manifest.snapshot
    BY <1>1, <1>5 DEF Fits, Grows
<1>7. i.run \in Writers' => OwnRows(i.call, i.run)' /\ BroughtPeople(i.call)'
    BY <1>1, <1>2, <1>4 DEF StandsAt
<1>8. runs'[i.run].status = "succeeded" =>
        schema' >= 15 /\ OwnRows(i.call, i.run)' /\ BroughtPeople(i.call)' /\ Typed(i.call)'
  <2>1. CASE n + 1 < EndAt(Call(p))
      BY <1>1, <1>2, <1>4, <2>1 DEF StandsAt
  <2>2. CASE /\ schema' >= 15 /\ OwnRows(importers[p].call, importers[p].run)'
             /\ BroughtPeople(importers[p].call)' /\ Typed(importers[p].call)'
      BY <1>3, <2>2
  <2> QED
      BY <2>1, <2>2
<1>9. Fits(j)'
  <2>1. n + 1 \in 1 .. Len(Steps(i.call))
      BY <1>1, <1>2
  <2>2. \E k \in 1 .. Len(Steps(j.call)) :
            j.todo = From(j.call, k) /\ StandsAt(j.call, j.run, j.people, k)'
      BY <1>3, <1>4, <2>1
  <2>3. DOMAIN i = {"call", "todo", "run", "people", "made", "result"} /\ i.run \in Nat /\ i.call \in Calls
      BY <1>1 DEF Fits
  <2> QED
      BY <1>3, <1>6, <1>7, <1>8, <2>2, <2>3 DEF Fits
<1>10. ASSUME NEW k \in DOMAIN runs', runs'[k].status = "succeeded"
       PROVE  \/ k \in DOMAIN runs /\ runs[k].status = "succeeded"
              \/ \E call \in Calls : call.manifest.snapshot = runs'[k].snapshot /\ OwnRows(call, k)'
  <2>1. CASE k # i.run
      BY <1>10, <2>1
  <2>2. CASE k = i.run
    <3>1. i.call \in Calls /\ i.call.manifest.snapshot = runs'[k].snapshot /\ OwnRows(i.call, k)'
        BY <1>1, <1>6, <1>8, <1>10, <2>2
    <3> QED
        BY <3>1
  <2> QED
      BY <2>1, <2>2
<1>11. Fits(importers[p])'
    BY <1>9
<1> QED
    BY <1>10, <1>11, ImportMoves

-----------------------------------------------------------------------------
(***************************************************************************)
(* The steps.                                                              *)
(***************************************************************************)
LEMMA MigrationGrows ==
    ASSUME Tables, NEW version \in Nat, MigrateTo(version), UNCHANGED <<members, users, savings, runs>>,
           NEW r
    PROVE  Grows(r) /\ Tables' /\ Writers' = Writers /\ schema' >= version
<1>1. schema \in Nat /\ \A id \in DOMAIN loans : DOMAIN loans[id] = {"run", "type"}
    BY DEF Tables
<1>2. schema' \in Nat /\ schema' >= schema /\ schema' >= version
    BY <1>1 DEF MigrateTo, Higher
<1>3. /\ DOMAIN loans' = DOMAIN loans
      /\ \A id \in DOMAIN loans :
            /\ loans'[id].run = loans[id].run /\ DOMAIN loans'[id] = {"run", "type"}
            /\ schema >= 15 => loans'[id].type = loans[id].type
  <2>1. CASE schema < 15 /\ version >= 15
      BY <1>1, <2>1 DEF MigrateTo, Classified
  <2>2. CASE ~(schema < 15 /\ version >= 15)
      BY <1>1, <2>2 DEF MigrateTo, Classified
  <2> QED
      BY <2>1, <2>2
<1>4. Writers' = Writers
    BY <1>3 DEF Writers, Range
<1>5. Grows(r)
    BY <1>1, <1>2, <1>3, <1>4 DEF Grows
<1>6. Tables'
    BY <1>2, <1>3, <1>4 DEF Tables
<1> QED
    BY <1>2, <1>4, <1>5, <1>6

LEMMA MigratesAlone ==
    ASSUME SeedInvariant, NEW version \in Nat, MigrateTo(version),
           UNCHANGED <<members, users, savings, runs, importers>>
    PROVE  SeedInvariant'
<1>1. Tables /\ Successes
    BY DEF SeedInvariant
<1>2. Grows(0) /\ Tables'
    BY <1>1, MigrationGrows
<1>3. Successes'
  <2> SUFFICES ASSUME NEW k \in DOMAIN runs, runs[k].status = "succeeded"
               PROVE  \E call \in Calls : call.manifest.snapshot = runs[k].snapshot /\ OwnRows(call, k)'
      BY DEF Successes
  <2>1. PICK call \in Calls : call.manifest.snapshot = runs[k].snapshot /\ OwnRows(call, k)
      BY <1>1 DEF Successes
  <2> QED
      BY <1>2, <2>1, OwnRowsKept
<1>4. ASSUME NEW q \in Importers PROVE Fits(importers[q])'
  <2> PICK i : i = importers[q]
      OBVIOUS
  <2>1. Fits(i) /\ (i.run = 0 \/ i.run # 0)
      BY DEF SeedInvariant
  <2>2. Fits(i)'
      BY <1>2, <2>1, FitsKept
  <2> QED
      BY <2>2
<1> QED
    BY <1>2, <1>3, <1>4 DEF SeedInvariant

LEMMA SeedBeginKeeps ==
    ASSUME SeedInvariant, NEW p \in Importers, NEW call \in Calls, begin(p, call)
    PROVE  SeedInvariant'
<1> PICK j : j = [Idle EXCEPT !.call = call, !.todo = Steps(call)]
    OBVIOUS
<1>1. importers' = [importers EXCEPT ![p] = j] /\ UNCHANGED <<members, users, savings, events, runs>>
      /\ MigrateTo(14)
    BY DEF begin
<1>2. /\ DOMAIN j = {"call", "todo", "run", "people", "made", "result"}
      /\ j.call = call /\ j.todo = Steps(call) /\ j.run = 0
    BY DEF Idle
<1>3. Tables /\ importers = [q \in Importers |-> importers[q]]
    BY DEF SeedInvariant
<1>4. Grows(importers[p].run) /\ Tables'
    BY <1>1, <1>3, MigrationGrows
<1>5. importers' = [q \in Importers |-> importers'[q]] /\ importers'[p] = j
      /\ \A q \in Importers : q # p => importers'[q] = importers[q]
    BY <1>1, <1>3
<1>6. Len(Steps(call)) \in Nat /\ EndAt(call) > 2 /\ Len(Steps(call)) = EndAt(call)
      /\ SeedAt(call) > 2 /\ ClassifiedAt(call) > 1 /\ TypesAt(call) > 2
    BY PlanLength
<1>7. j.todo = From(call, 1)
  <2>1. Steps(call) \in Seq(StepNames)
      BY <1>6, PlanSteps
  <2> HIDE DEF Steps
  <2> QED
      BY <1>2, <2>1 DEF From
<1>8. StandsAt(call, j.run, j.people, 1)'
    BY <1>2, <1>6, PlanLength DEF StandsAt
<1>9. 0 \notin Writers'
  <2>1. Tables'
      BY <1>4
  <2>2. runs' = runs /\ DOMAIN runs = 1 .. Len(runs)
      BY <1>1, <1>3, NoRunZero
  <2> QED
      BY <2>1, <2>2 DEF Tables
<1>10. Fits(j)'
  <2>1. 1 \in 1 .. Len(Steps(call))
      BY <1>6
  <2>2. \E n \in 1 .. Len(Steps(j.call)) :
            j.todo = From(j.call, n) /\ StandsAt(j.call, j.run, j.people, n)'
      BY <1>2, <1>7, <1>8, <2>1
  <2> QED
      BY <1>2, <1>9, <2>2 DEF Fits
<1>11. Fits(importers[p])'
    BY <1>5, <1>10
<1> QED
    BY <1>1, <1>2, <1>4, <1>5, <1>11, ImportMoves

LEMMA SnapshotKeeps ==
    ASSUME SeedInvariant, NEW p \in Importers, successfulSeedSnapshot(p) PROVE SeedInvariant'
<1> PICK i : i = importers[p]
    OBVIOUS
<1> PICK j : j = importers'[p]
    OBVIOUS
<1>1. Tables /\ Fits(i) /\ i.call = Call(p) /\ importers = [q \in Importers |-> importers[q]]
      /\ i.todo # << >> /\ Head(i.todo) = "snapshot"
      /\ UNCHANGED <<schema, members, users, savings, loans, runs>>
    BY DEF SeedInvariant, Call, successfulSeedSnapshot, Doing, Running, db
<1>2. DOMAIN i = {"call", "todo", "run", "people", "made", "result"}
    BY <1>1 DEF Fits
<1>3. CASE \E result : importers' = End(p, result)
    BY <1>1, <1>3, ImportEnds
<1>4. CASE importers' = Done(p)
  <2>1. /\ importers' = [q \in Importers |-> importers'[q]]
        /\ \A q \in Importers : q # p => importers'[q] = importers[q]
        /\ DOMAIN j = DOMAIN i /\ j.call = i.call /\ j.run = i.run /\ j.todo = Tail(i.todo)
      BY <1>1, <1>2, <1>4, MovedImport
  <2>2. i.call \in Calls
      BY <1>1, Standing
  <2>3. PICK n \in 1 .. Len(Steps(i.call)) :
            /\ StandsAt(i.call, i.run, i.people, n)
            /\ Steps(i.call)[n] = "snapshot"
            /\ Tail(i.todo) = IF n < Len(Steps(i.call)) THEN From(i.call, n + 1) ELSE << >>
      BY <1>1, Standing
  <2>4. n = 1
      BY <2>2, <2>3, PlanSteps
  <2>5. /\ Len(Steps(i.call)) \in Nat /\ Len(Steps(i.call)) > 2
        /\ SeedAt(i.call) > 2 /\ ClassifiedAt(i.call) >= 2 /\ TypesAt(i.call) > 2
      BY <2>2, PlanLength
  <2>6. i.run = 0 /\ j.todo = From(i.call, 2)
      BY <2>1, <2>3, <2>4, <2>5 DEF StandsAt
  <2>7. StandsAt(i.call, i.run, j.people, 2)'
      BY <2>2, <2>5, <2>6, PlanLength DEF StandsAt
  <2>8. Writers' = Writers /\ 0 \notin Writers
      BY <1>1, NoRunZero DEF Writers, Range
  <2>9. Grows(i.run)
      BY <1>1, RowsSame
  <2>10. Tables'
      BY <1>1, <2>8 DEF Tables
  <2>11. Fits(j)'
    <3>1. \E k \in 1 .. Len(Steps(j.call)) :
              j.todo = From(j.call, k) /\ StandsAt(j.call, j.run, j.people, k)'
        BY <2>1, <2>5, <2>6, <2>7
    <3> QED
        BY <1>2, <2>1, <2>2, <2>6, <2>8, <3>1 DEF Fits
  <2>12. Fits(importers[p])'
      BY <2>11
  <2> QED
      BY <1>1, <2>1, <2>9, <2>10, <2>12, ImportMoves
<1> QED
    BY <1>3, <1>4 DEF successfulSeedSnapshot

LEMMA OpenKeeps ==
    ASSUME SeedInvariant, NEW p \in Importers, insertSeedRun(p) PROVE SeedInvariant'
<1> PICK i : i = importers[p]
    OBVIOUS
<1> PICK j : j = importers'[p]
    OBVIOUS
<1>1. Tables /\ Fits(i) /\ i.call = Call(p) /\ importers = [q \in Importers |-> importers[q]]
      /\ i.todo # << >> /\ Head(i.todo) = "open" /\ UNCHANGED <<schema, members, users, savings, loans>>
    BY DEF SeedInvariant, Call, insertSeedRun, Doing, Running
<1>2. DOMAIN i = {"call", "todo", "run", "people", "made", "result"}
    BY <1>1 DEF Fits
<1>3. CASE ~SchemaFits(p)
    BY <1>1, <1>3, ImportEnds DEF insertSeedRun
<1>4. CASE SchemaFits(p)
  <2> DEFINE row == [snapshot |-> Manifest(p).snapshot, hash |-> Manifest(p).hash, status |-> "validating"]
  <2> PICK new : new = Len(runs) + 1
      OBVIOUS
  <2>1. /\ runs' = Append(runs, row)
        /\ importers' = [Done(p) EXCEPT ![p].run = new, ![p].people = Manifest(p).people]
      BY <1>4 DEF insertSeedRun
  <2>2. i.call \in Calls
      BY <1>1, Standing
  <2>3. PICK n \in 1 .. Len(Steps(i.call)) :
            /\ StandsAt(i.call, i.run, i.people, n)
            /\ Steps(i.call)[n] = "open"
            /\ Tail(i.todo) = IF n < Len(Steps(i.call)) THEN From(i.call, n + 1) ELSE << >>
      BY <1>1, Standing
  <2>4. n = 2
      BY <2>2, <2>3, PlanSteps
  <2>5. /\ Len(Steps(i.call)) \in Nat /\ Len(Steps(i.call)) > 3 /\ EndAt(i.call) > 3
        /\ SeedAt(i.call) > 3 /\ TypesAt(i.call) > 3 /\ (~i.call.append => ClassifiedAt(i.call) > 3)
      BY <2>2, PlanLength
  <2>6. /\ Done(p) = [q \in Importers |-> Done(p)[q]]
        /\ \A q \in Importers : q # p => Done(p)[q] = importers[q]
        /\ DOMAIN Done(p)[p] = DOMAIN i /\ Done(p)[p].call = i.call /\ Done(p)[p].todo = Tail(i.todo)
      BY <1>1, <1>2, MovedImport
  <2>7. Manifest(p) = i.call.manifest
      BY <1>1 DEF Manifest
  <2>8. /\ importers' = [q \in Importers |-> importers'[q]]
        /\ \A q \in Importers : q # p => importers'[q] = importers[q]
        /\ DOMAIN j = DOMAIN i /\ j.call = i.call /\ j.run = new /\ j.todo = Tail(i.todo)
        /\ j.people = i.call.manifest.people
      BY <1>2, <2>1, <2>6, <2>7
  <2>9. row \in RunRecords /\ row.snapshot = i.call.manifest.snapshot /\ row.status = "validating"
      BY <2>2, <2>7 DEF RunRecords, Statuses
  <2> HIDE DEF row
  <2>10. /\ runs' \in Seq(RunRecords) /\ Len(runs) \in Nat /\ DOMAIN runs = 1 .. Len(runs)
         /\ DOMAIN runs' = 1 .. Len(runs) + 1 /\ runs'[new] = row /\ new \notin DOMAIN runs /\ new # 0
         /\ \A k \in DOMAIN runs : runs'[k] = runs[k]
      BY <1>1, <2>1, <2>9 DEF Tables
  <2>11. Writers' = Writers /\ new \notin Writers
      BY <1>1, <2>10 DEF Writers, Range, Tables
  <2>12. Tables'
      BY <1>1, <2>10, <2>11 DEF Tables
  <2>13. Grows(i.run)
      BY <1>1, <2>10, RowsSame
  <2>14. i.call.append => schema >= 15
      BY <1>1, <1>4 DEF SchemaFits, Tables
  <2>15. StandsAt(i.call, new, j.people, 3)'
      BY <1>1, <2>2, <2>5, <2>8, <2>9, <2>10, <2>11, <2>14, PlanLength DEF StandsAt
  <2>16. Fits(j)'
    <3>1. j.todo = From(j.call, 3)
        BY <2>3, <2>4, <2>5, <2>8
    <3>2. \E k \in 1 .. Len(Steps(j.call)) :
              j.todo = From(j.call, k) /\ StandsAt(j.call, j.run, j.people, k)'
        BY <2>5, <2>8, <2>15, <3>1
    <3>3. j.run \in Nat /\ j.run \in DOMAIN runs' /\ runs'[j.run].snapshot = j.call.manifest.snapshot
        BY <2>8, <2>9, <2>10
    <3>4. j.run \notin Writers' /\ runs'[j.run].status # "succeeded"
        BY <2>8, <2>9, <2>10, <2>11
    <3> QED
        BY <1>2, <2>2, <2>8, <3>2, <3>3, <3>4 DEF Fits
  <2>17. \A k \in DOMAIN runs' : runs'[k].status = "succeeded" => k \in DOMAIN runs /\ runs[k].status = "succeeded"
    <3>1. ASSUME NEW k \in DOMAIN runs', k \notin DOMAIN runs PROVE k = new
        BY <2>10, <3>1
    <3> QED
        BY <2>9, <2>10, <3>1
  <2>18. Fits(importers[p])'
      BY <2>16
  <2> QED
      BY <2>8, <2>10, <2>12, <2>13, <2>17, <2>18, ImportMoves
<1> QED
    BY <1>3, <1>4

LEMMA StandsNext ==
    ASSUME NEW call \in Calls, NEW run, NEW people, NEW n \in 1 .. Len(Steps(call)),
           n < Len(Steps(call)), 2 < n, n # EndAt(call) - 1, n # SeedAt(call), ~(call.append /\ n = 5),
           Grows(run), UNCHANGED runs, Writers' = Writers, StandsAt(call, run, people, n),
           n + 1 > ClassifiedAt(call) => schema' >= 15, n + 1 > TypesAt(call) => Typed(call)'
    PROVE  StandsAt(call, run, people, n + 1)'
<1>1. /\ Len(Steps(call)) = EndAt(call) /\ EndAt(call) \in Nat /\ SeedAt(call) \in Nat
      /\ SeedAt(call) \in {5, 6} /\ n \in Nat
    BY PlanLength
<1>2. /\ n + 1 <= 2 <=> run = 0
      /\ 2 < n + 1 /\ n + 1 < EndAt(call) => runs[run].status = "validating"
      /\ 2 < n + 1 /\ n + 1 <= SeedAt(call) => run \notin Writers
    BY <1>1 DEF StandsAt
<1>3. /\ 2 < n + 1 /\ n + 1 <= SeedAt(call) /\ ~(call.append /\ n + 1 = 6) => people = call.manifest.people
      /\ ~(call.append /\ n + 1 = 6)
    BY <1>1 DEF StandsAt
<1>4. n + 1 > SeedAt(call) => OwnRows(call, run)' /\ BroughtPeople(call)'
  <2> SUFFICES ASSUME n + 1 > SeedAt(call) PROVE OwnRows(call, run)' /\ BroughtPeople(call)'
      OBVIOUS
  <2>1. OwnRows(call, run) /\ BroughtPeople(call)
      BY <1>1 DEF StandsAt
  <2> QED
      BY <2>1, OwnRowsKept, PeopleKept
<1> QED
    BY <1>2, <1>3, <1>4 DEF StandsAt

\* An import that goes on and changes no row: it stands at the next step already.
LEMMA ImportGoesOnAlone ==
    ASSUME SeedInvariant, NEW p \in Importers, NEW i, i = importers[p], i.call \in Calls,
           NEW n \in 1 .. Len(Steps(i.call)), n < Len(Steps(i.call)), 2 < n, n # EndAt(i.call) - 1,
           Tail(i.todo) = From(i.call, n + 1), importers' = Done(p), UNCHANGED db,
           StandsAt(i.call, i.run, i.people, n),
           n # SeedAt(i.call), n # TypesAt(i.call), n # ClassifiedAt(i.call),
           ~(i.call.append /\ n = 5)
    PROVE  SeedInvariant'
<1> PICK j : j = importers'[p]
    OBVIOUS
<1>1. Tables /\ Fits(i) /\ i.call = Call(p) /\ importers = [q \in Importers |-> importers[q]]
      /\ UNCHANGED <<schema, members, users, savings, loans, runs>>
    BY DEF SeedInvariant, Call, db
<1>2. DOMAIN i = {"call", "todo", "run", "people", "made", "result"}
    BY <1>1 DEF Fits
<1>3. /\ importers' = [q \in Importers |-> importers'[q]]
      /\ \A q \in Importers : q # p => importers'[q] = importers[q]
      /\ DOMAIN j = DOMAIN i /\ j.call = i.call /\ j.run = i.run /\ j.people = i.people
      /\ j.todo = Tail(i.todo)
    BY <1>1, <1>2, MovedImport
<1>4. /\ Len(Steps(i.call)) = EndAt(i.call) /\ EndAt(i.call) \in Nat /\ SeedAt(i.call) \in Nat
      /\ TypesAt(i.call) \in Nat /\ ClassifiedAt(i.call) \in Nat /\ n \in Nat
      /\ SeedAt(i.call) <= TypesAt(i.call) /\ SeedAt(i.call) \in {5, 6}
    BY PlanLength
<1>5. Grows(i.run) /\ Writers' = Writers /\ Tables'
  <2>1. Writers' = Writers
      BY <1>1 DEF Writers, Range
  <2>2. Tables'
      BY <1>1, <2>1 DEF Tables
  <2> QED
      BY <1>1, <2>1, <2>2, RowsSame
<1>6. Typed(i.call)' = Typed(i.call)
    BY <1>1 DEF Typed
<1>7. n + 1 > ClassifiedAt(i.call) => schema' >= 15
    BY <1>1, <1>4 DEF StandsAt
<1>8. StandsAt(i.call, i.run, i.people, n + 1)'
  <2>1. n + 1 > TypesAt(i.call) => Typed(i.call)'
      BY <1>4, <1>6 DEF StandsAt
  <2> QED
      BY <1>1, <1>4, <1>5, <1>7, <2>1, StandsNext
<1>9. n + 1 > SeedAt(i.call) \/ i.run \notin Writers'
    BY <1>4, <1>5 DEF StandsAt
<1>10. n + 1 < EndAt(i.call)
    BY <1>4
<1>11. \A k \in DOMAIN runs' : k \in DOMAIN runs /\ (k # i.run => runs'[k].status = runs[k].status)
    BY <1>1
<1> QED
    BY <1>1, <1>3, <1>4, <1>5, <1>8, <1>9, <1>10, <1>11, ImportGoesOn

LEMMA MigrateKeeps ==
    ASSUME SeedInvariant, NEW p \in Importers, NEW step \in {"prepare", "extend", "classify", "finish"},
           migrate(p, step)
    PROVE  SeedInvariant'
<1> PICK i : i = importers[p]
    OBVIOUS
<1> PICK j : j = importers'[p]
    OBVIOUS
<1>1. Tables /\ Fits(i) /\ i.call = Call(p) /\ importers = [q \in Importers |-> importers[q]]
      /\ i.todo # << >> /\ Head(i.todo) = step /\ importers' = Done(p)
      /\ MigrateTo(Target(p, step)) /\ UNCHANGED <<members, users, savings, runs>>
    BY DEF SeedInvariant, Call, migrate, Doing, Running
<1>2. DOMAIN i = {"call", "todo", "run", "people", "made", "result"}
    BY <1>1 DEF Fits
<1>3. /\ importers' = [q \in Importers |-> importers'[q]]
      /\ \A q \in Importers : q # p => importers'[q] = importers[q]
      /\ DOMAIN j = DOMAIN i /\ j.call = i.call /\ j.run = i.run /\ j.people = i.people
      /\ j.todo = Tail(i.todo)
    BY <1>1, <1>2, MovedImport
<1>4. i.call \in Calls
    BY <1>1, Standing
<1>5. PICK n \in 1 .. Len(Steps(i.call)) :
          /\ StandsAt(i.call, i.run, i.people, n)
          /\ Steps(i.call)[n] = step
          /\ Tail(i.todo) = IF n < Len(Steps(i.call)) THEN From(i.call, n + 1) ELSE << >>
    BY <1>1, Standing
<1>6. /\ step = "prepare" => n = 4 /\ i.call.append
      /\ step = "extend" => n = 4 /\ ~i.call.append /\ i.call.manifest.extended
      /\ step = "classify" => n = 7 /\ ~i.call.append /\ ~i.call.manifest.extended
      /\ step = "finish" => n = 9 /\ ~i.call.append
    BY <1>4, <1>5, PlanSteps
<1>7. /\ Len(Steps(i.call)) = EndAt(i.call) /\ EndAt(i.call) \in Nat /\ SeedAt(i.call) \in Nat
      /\ TypesAt(i.call) \in Nat /\ ClassifiedAt(i.call) \in Nat /\ n \in Nat
      /\ n # SeedAt(i.call) /\ n < EndAt(i.call) - 1 /\ n # TypesAt(i.call)
      /\ 2 < n /\ ~(i.call.append /\ n = 5)
      /\ n = ClassifiedAt(i.call) => step \in {"extend", "classify"}
  <2>1. /\ Len(Steps(i.call)) = EndAt(i.call) /\ EndAt(i.call) \in Nat /\ SeedAt(i.call) \in Nat
        /\ TypesAt(i.call) \in Nat /\ ClassifiedAt(i.call) \in Nat /\ n \in Nat
        /\ i.call.append \in BOOLEAN /\ i.call.manifest.extended \in BOOLEAN
      BY <1>4, PlanLength
  <2>2. CASE step = "prepare"
      BY <1>6, <2>1, <2>2 DEF EndAt, SeedAt, TypesAt, ClassifiedAt
  <2>3. CASE step = "extend"
      BY <1>6, <2>1, <2>3 DEF EndAt, SeedAt, TypesAt, ClassifiedAt
  <2>4. CASE step = "classify"
      BY <1>6, <2>1, <2>4 DEF EndAt, SeedAt, TypesAt, ClassifiedAt
  <2>5. CASE step = "finish"
      BY <1>6, <2>1, <2>5 DEF EndAt, SeedAt, TypesAt, ClassifiedAt
  <2> QED
      BY <2>2, <2>3, <2>4, <2>5
<1>8. Target(p, step) \in Nat /\ (step \in {"extend", "classify"} => Target(p, step) >= 15)
    BY DEF Target
<1>9. Grows(i.run) /\ Tables' /\ Writers' = Writers /\ schema' >= Target(p, step)
    BY <1>1, <1>8, MigrationGrows
<1>10. schema \in Nat /\ schema' \in Nat /\ schema' >= schema
    BY <1>9 DEF Grows
<1>11. n + 1 > ClassifiedAt(i.call) => schema' >= 15
  <2>1. CASE n = ClassifiedAt(i.call)
      BY <1>7, <1>8, <1>9, <1>10, <2>1
  <2>2. CASE n > ClassifiedAt(i.call)
    <3>1. schema >= 15
        BY <1>5, <2>2 DEF StandsAt
    <3> QED
        BY <1>10, <3>1
  <2> QED
      BY <1>7, <2>1, <2>2
<1>12. n + 1 > TypesAt(i.call) => Typed(i.call)'
  <2> SUFFICES ASSUME n + 1 > TypesAt(i.call) PROVE Typed(i.call)'
      OBVIOUS
  <2>1. n > TypesAt(i.call)
      BY <1>7
  <2>2. n > ClassifiedAt(i.call)
      BY <1>4, <1>6, <1>7, <2>1 DEF TypesAt, ClassifiedAt
  <2>3. Typed(i.call) /\ schema >= 15
      BY <1>5, <2>1, <2>2 DEF StandsAt
  <2>4. loans' = loans
      BY <1>1, <1>10, <2>3 DEF MigrateTo, Classified
  <2> QED
      BY <2>3, <2>4 DEF Typed
<1>13. StandsAt(i.call, i.run, i.people, n + 1)'
    BY <1>1, <1>4, <1>5, <1>7, <1>9, <1>11, <1>12, StandsNext
<1>14. n + 1 > SeedAt(i.call) \/ i.run \notin Writers'
    BY <1>5, <1>7, <1>9 DEF StandsAt
<1>15. n + 1 < EndAt(i.call) /\ n < Len(Steps(i.call))
    BY <1>7
<1> QED
    BY <1>1, <1>3, <1>4, <1>5, <1>7, <1>9, <1>13, <1>14, <1>15, ImportGoesOn

LEMMA ValidateKeeps ==
    ASSUME SeedInvariant, NEW p \in Importers, validate(p) PROVE SeedInvariant'
<1> PICK i : i = importers[p]
    OBVIOUS
<1>1. Tables /\ Fits(i) /\ i.todo # << >> /\ Head(i.todo) = "validate"
      /\ UNCHANGED <<schema, members, users, savings, loans, events>>
    BY DEF SeedInvariant, validate, Doing, Running
<1>2. i.call \in Calls
    BY <1>1, Standing
<1>3. PICK n \in 1 .. Len(Steps(i.call)) :
          /\ StandsAt(i.call, i.run, i.people, n)
          /\ Steps(i.call)[n] = "validate"
          /\ Tail(i.todo) = IF n < Len(Steps(i.call)) THEN From(i.call, n + 1) ELSE << >>
    BY <1>1, Standing
<1>4. /\ n = 3 /\ Len(Steps(i.call)) = EndAt(i.call) /\ EndAt(i.call) \in {10, 12}
      /\ SeedAt(i.call) \in {5, 6} /\ TypesAt(i.call) \in Nat /\ SeedAt(i.call) <= TypesAt(i.call)
      /\ (~i.call.append => ClassifiedAt(i.call) >= 4)
    BY <1>2, <1>3, PlanSteps, PlanLength
<1>5. n # ClassifiedAt(i.call)
    BY <1>2, <1>4 DEF ClassifiedAt
<1>6. i.run \in DOMAIN runs \ Writers
    BY <1>1, <1>3, <1>4 DEF StandsAt, Fits
<1>7. CASE importers' = Done(p) /\ UNCHANGED runs
  <2>1. UNCHANGED db
      BY <1>1, <1>7 DEF db
  <2> QED
      BY <1>2, <1>3, <1>4, <1>5, <1>7, <2>1, ImportGoesOnAlone
<1>8. CASE (\E result : importers' = End(p, result)) /\ UNCHANGED runs
    BY <1>1, <1>8, ImportEnds
<1>9. CASE /\ \E result : importers' = End(p, result)
           /\ \E status \in {"validation_failed", "dry_run"} : runs' = Mark(p, status)
    BY <1>1, <1>6, <1>9, ImportEnds
<1> QED
    BY <1>7, <1>8, <1>9 DEF validate

LEMMA EmptyKeeps ==
    ASSUME SeedInvariant, NEW p \in Importers, validateEmptyOperationalDatabase(p) PROVE SeedInvariant'
<1> PICK i : i = importers[p]
    OBVIOUS
<1>1. Tables /\ Fits(i) /\ i.todo # << >> /\ Head(i.todo) = "empty"
      /\ UNCHANGED <<schema, members, users, savings, loans, events>>
    BY DEF SeedInvariant, validateEmptyOperationalDatabase, Doing, Running
<1>2. i.call \in Calls
    BY <1>1, Standing
<1>3. PICK n \in 1 .. Len(Steps(i.call)) :
          /\ StandsAt(i.call, i.run, i.people, n)
          /\ Steps(i.call)[n] = "empty"
          /\ Tail(i.todo) = IF n < Len(Steps(i.call)) THEN From(i.call, n + 1) ELSE << >>
    BY <1>1, Standing
<1>4. /\ n = SeedAt(i.call) - 1 /\ ~i.call.append /\ i.call.manifest.extended \in BOOLEAN
      /\ Len(Steps(i.call)) = EndAt(i.call) /\ EndAt(i.call) \in {10, 12}
      /\ SeedAt(i.call) \in {5, 6} /\ TypesAt(i.call) \in Nat /\ SeedAt(i.call) <= TypesAt(i.call)
    BY <1>2, <1>3, PlanSteps, PlanLength
<1>5. n # ClassifiedAt(i.call)
    BY <1>4 DEF ClassifiedAt, SeedAt
<1>6. i.run \in DOMAIN runs \ Writers
    BY <1>1, <1>3, <1>4 DEF StandsAt, Fits
<1>7. CASE importers' = Done(p) /\ UNCHANGED runs
  <2>1. UNCHANGED db
      BY <1>1, <1>7 DEF db
  <2>2. n < Len(Steps(i.call)) /\ 2 < n /\ n # EndAt(i.call) - 1 /\ n # SeedAt(i.call) /\ n # TypesAt(i.call)
        /\ ~(i.call.append /\ n = 5)
      BY <1>4
  <2> QED
      BY <1>2, <1>3, <1>5, <1>7, <2>1, <2>2, ImportGoesOnAlone
<1>8. CASE (\E result : importers' = End(p, result)) /\ runs' = Mark(p, "validation_failed")
    BY <1>1, <1>6, <1>8, ImportEnds
<1> QED
    BY <1>7, <1>8 DEF validateEmptyOperationalDatabase

LEMMA FailsKeeps ==
    ASSUME SeedInvariant, NEW p \in Importers, NEW step \in {"seed", "configs"}, Doing(p, step),
           NEW result, importers' = End(p, result), runs' = Mark(p, "failed"),
           UNCHANGED <<schema, members, users, savings, loans>>
    PROVE  SeedInvariant'
<1> PICK i : i = importers[p]
    OBVIOUS
<1>1. Fits(i) /\ i.todo # << >> /\ Head(i.todo) = step
    BY DEF SeedInvariant, Doing, Running
<1>2. i.call \in Calls
    BY <1>1, Standing
<1>3. PICK n \in 1 .. Len(Steps(i.call)) :
          StandsAt(i.call, i.run, i.people, n) /\ Steps(i.call)[n] = step
    BY <1>1, Standing
<1>4. n > 2
    BY <1>2, <1>3, PlanSteps, PlanLength
<1>5. i.run \in DOMAIN runs
    BY <1>1, <1>3, <1>4 DEF StandsAt, Fits
<1> QED
    BY <1>5, ImportEnds

LEMMA ConfigsKeeps ==
    ASSUME SeedInvariant, NEW p \in Importers, ensureMissingMemberTagihanConfigs(p) PROVE SeedInvariant'
<1> PICK i : i = importers[p]
    OBVIOUS
<1>1. Tables /\ Fits(i) /\ i.todo # << >> /\ Head(i.todo) = "configs" /\ Doing(p, "configs")
      /\ UNCHANGED <<schema, members, users, savings, loans, events>>
    BY DEF SeedInvariant, ensureMissingMemberTagihanConfigs, Doing, Running
<1>2. CASE importers' = Done(p) /\ UNCHANGED runs
  <2>1. UNCHANGED db
      BY <1>1, <1>2 DEF db
  <2>2. i.call \in Calls
      BY <1>1, Standing
  <2>3. PICK n \in 1 .. Len(Steps(i.call)) :
            /\ StandsAt(i.call, i.run, i.people, n)
            /\ Steps(i.call)[n] = "configs"
            /\ Tail(i.todo) = IF n < Len(Steps(i.call)) THEN From(i.call, n + 1) ELSE << >>
      BY <1>1, Standing
  <2>4. /\ n = SeedAt(i.call) + 1 /\ i.call.append \in BOOLEAN /\ i.call.manifest.extended \in BOOLEAN
        /\ Len(Steps(i.call)) = EndAt(i.call)
      BY <2>2, <2>3, PlanSteps, PlanLength
  <2>5. /\ n < Len(Steps(i.call)) /\ 2 < n /\ n # EndAt(i.call) - 1 /\ n # SeedAt(i.call)
        /\ n # TypesAt(i.call) /\ n # ClassifiedAt(i.call) /\ ~(i.call.append /\ n = 5)
      BY <2>4 DEF SeedAt, EndAt, TypesAt, ClassifiedAt
  <2> QED
      BY <1>2, <2>1, <2>2, <2>3, <2>5, ImportGoesOnAlone
<1>3. CASE (\E result : importers' = End(p, result)) /\ runs' = Mark(p, "failed")
    BY <1>1, <1>3, FailsKeeps
<1> QED
    BY <1>2, <1>3 DEF ensureMissingMemberTagihanConfigs

LEMMA ReconcileKeeps ==
    ASSUME SeedInvariant, NEW p \in Importers, reconcileAppendMemberIDs(p) PROVE SeedInvariant'
<1> PICK i : i = importers[p]
    OBVIOUS
<1> PICK j : j = importers'[p]
    OBVIOUS
<1>1. Tables /\ Fits(i) /\ i.call = Call(p) /\ importers = [q \in Importers |-> importers[q]]
      /\ i.todo # << >> /\ Head(i.todo) = "reconcile"
      /\ UNCHANGED <<schema, members, users, savings, loans, runs>>
    BY DEF SeedInvariant, Call, reconcileAppendMemberIDs, Doing, Running, db
<1>2. DOMAIN i = {"call", "todo", "run", "people", "made", "result"}
    BY <1>1 DEF Fits
<1>3. CASE \E result : importers' = End(p, result)
    BY <1>1, <1>3, ImportEnds
<1>4. CASE importers' = [Done(p) EXCEPT ![p].people = {Existing(m) : m \in Manifest(p).people}]
  <2> PICK people : people = {Existing(m) : m \in Manifest(p).people}
      OBVIOUS
  <2>1. /\ Done(p) = [q \in Importers |-> Done(p)[q]]
        /\ \A q \in Importers : q # p => Done(p)[q] = importers[q]
        /\ DOMAIN Done(p)[p] = DOMAIN i /\ Done(p)[p].call = i.call /\ Done(p)[p].run = i.run
        /\ Done(p)[p].todo = Tail(i.todo)
      BY <1>1, <1>2, MovedImport
  <2>2. /\ importers' = [q \in Importers |-> importers'[q]]
        /\ \A q \in Importers : q # p => importers'[q] = importers[q]
        /\ DOMAIN j = DOMAIN i /\ j.call = i.call /\ j.run = i.run /\ j.todo = Tail(i.todo)
        /\ j.people = people
      BY <1>2, <1>4, <2>1
  <2>3. i.call \in Calls
      BY <1>1, Standing
  <2>4. PICK n \in 1 .. Len(Steps(i.call)) :
            /\ StandsAt(i.call, i.run, i.people, n)
            /\ Steps(i.call)[n] = "reconcile"
            /\ Tail(i.todo) = IF n < Len(Steps(i.call)) THEN From(i.call, n + 1) ELSE << >>
      BY <1>1, Standing
  <2>5. n = 5 /\ i.call.append /\ Len(Steps(i.call)) = EndAt(i.call)
      BY <2>3, <2>4, PlanSteps, PlanLength
  <2>6. EndAt(i.call) = 10 /\ SeedAt(i.call) = 6 /\ TypesAt(i.call) = 6 /\ ClassifiedAt(i.call) = 2
      BY <2>5 DEF EndAt, SeedAt, TypesAt, ClassifiedAt
  <2>7. PeopleFound(i.call, people)
    <3>1. \A m \in i.call.manifest.people : DOMAIN m = {"id", "no", "name", "status", "type"}
        BY <2>3, SeedAssumption
    <3>2. ASSUME NEW m \in i.call.manifest.people, SameNumber(m) = {}
          PROVE  Existing(m) = m
        BY <3>2 DEF Existing
    <3>3. ASSUME NEW m \in i.call.manifest.people, SameNumber(m) # {}
          PROVE  Existing(m).id \in DOMAIN members
      <4> PICK id : id = CHOOSE x \in SameNumber(m) : TRUE
          OBVIOUS
      <4>1. id \in SameNumber(m)
          BY <3>3
      <4>2. Existing(m) = [m EXCEPT !.id = id]
          BY <3>3 DEF Existing
      <4>3. Existing(m).id = id
          BY <3>1, <4>2
      <4> QED
          BY <4>1, <4>3 DEF SameNumber
    <3>4. \A m \in i.call.manifest.people : Existing(m) \in people
        BY <1>1 DEF Manifest
    <3>5. \A x \in people : \E m \in i.call.manifest.people : x = Existing(m)
        BY <1>1 DEF Manifest
    <3> QED
        BY <3>2, <3>3, <3>4, <3>5 DEF PeopleFound
  <2>8. Writers' = Writers
      BY <1>1 DEF Writers, Range
  <2>9. Tables' /\ Grows(i.run)
    <3>1. Tables'
        BY <1>1, <2>8 DEF Tables
    <3> QED
        BY <1>1, <3>1, RowsSame
  <2>10. PeopleFound(i.call, people)'
      BY <2>7, <2>9, FoundKept
  <2>11. StandsAt(i.call, i.run, people, 6)'
      BY <1>1, <2>4, <2>5, <2>6, <2>8, <2>10 DEF StandsAt
  <2>12. i.run \notin Writers'
      BY <2>4, <2>5, <2>6, <2>8 DEF StandsAt
  <2>13. j.todo = From(i.call, 6)
      BY <2>2, <2>4, <2>5, <2>6
  <2>14. StandsAt(importers[p].call, importers[p].run, importers[p].people, n + 1)'
      BY <2>2, <2>5, <2>11
  <2>15. \A k \in DOMAIN runs' : k \in DOMAIN runs /\ (k # i.run => runs'[k].status = runs[k].status)
      BY <1>1
  <2>16. /\ n < Len(Steps(Call(p))) /\ n > 2 /\ n + 1 < EndAt(Call(p)) /\ Call(p) \in Calls
         /\ importers'[p].todo = From(Call(p), n + 1) /\ importers[p].run \notin Writers'
    <3>1. n < Len(Steps(i.call)) /\ n > 2 /\ n + 1 < EndAt(i.call) /\ j.todo = From(i.call, n + 1)
        BY <2>5, <2>6, <2>13
    <3> QED
        BY <1>1, <2>3, <2>12, <3>1
  <2> QED
      BY <1>1, <2>2, <2>9, <2>14, <2>15, <2>16, ImportGoesOn
<1> QED
    BY <1>3, <1>4 DEF reconcileAppendMemberIDs

LEMMA SucceedKeeps ==
    ASSUME SeedInvariant, NEW p \in Importers, succeed(p) PROVE SeedInvariant'
<1> PICK i : i = importers[p]
    OBVIOUS
<1> PICK j : j = importers'[p]
    OBVIOUS
<1>1. Tables /\ Fits(i) /\ i.call = Call(p) /\ importers = [q \in Importers |-> importers[q]]
      /\ i.todo # << >> /\ Head(i.todo) = "succeed" /\ importers' = Done(p) /\ runs' = Mark(p, "succeeded")
      /\ UNCHANGED <<schema, members, users, savings, loans>>
    BY DEF SeedInvariant, Call, succeed, Doing, Running
<1>2. DOMAIN i = {"call", "todo", "run", "people", "made", "result"}
    BY <1>1 DEF Fits
<1>3. /\ importers' = [q \in Importers |-> importers'[q]]
      /\ \A q \in Importers : q # p => importers'[q] = importers[q]
      /\ DOMAIN j = DOMAIN i /\ j.call = i.call /\ j.run = i.run /\ j.people = i.people
      /\ j.todo = Tail(i.todo)
    BY <1>1, <1>2, MovedImport
<1>4. i.call \in Calls
    BY <1>1, Standing
<1>5. PICK n \in 1 .. Len(Steps(i.call)) :
          /\ StandsAt(i.call, i.run, i.people, n)
          /\ Steps(i.call)[n] = "succeed"
          /\ Tail(i.todo) = IF n < Len(Steps(i.call)) THEN From(i.call, n + 1) ELSE << >>
    BY <1>1, Standing
<1>6. /\ n = EndAt(i.call) - 1 /\ Len(Steps(i.call)) = EndAt(i.call) /\ EndAt(i.call) \in {10, 12}
      /\ SeedAt(i.call) \in {5, 6} /\ TypesAt(i.call) \in Nat /\ ClassifiedAt(i.call) \in Nat
      /\ TypesAt(i.call) < n /\ ClassifiedAt(i.call) < n
    BY <1>4, <1>5, PlanSteps, PlanLength
<1>7. OwnRows(i.call, i.run) /\ BroughtPeople(i.call) /\ Typed(i.call) /\ schema >= 15 /\ i.run # 0
    BY <1>5, <1>6 DEF StandsAt
<1>8. i.run \in DOMAIN runs
    BY <1>1, <1>7 DEF Fits
<1>9. /\ runs' \in Seq(RunRecords) /\ DOMAIN runs' = DOMAIN runs
      /\ \A k \in DOMAIN runs :
            /\ runs'[k].snapshot = runs[k].snapshot
            /\ runs'[k].status = IF k = i.run THEN "succeeded" ELSE runs[k].status
  <2>1. "succeeded" \in Statuses
      BY DEF Statuses
  <2> QED
      BY <1>1, <1>8, <2>1, MarkedRun DEF Tables
<1>10. Writers' = Writers
    BY <1>1 DEF Writers, Range
<1>11. Grows(i.run) /\ Tables'
  <2>1. Tables'
      BY <1>1, <1>9, <1>10 DEF Tables
  <2> QED
      BY <1>1, <1>9, <2>1, RowsSame
<1>12. OwnRows(i.call, i.run)' /\ BroughtPeople(i.call)' /\ Typed(i.call)' /\ schema' >= 15
  <2>1. Typed(i.call)' /\ schema' >= 15
      BY <1>1, <1>7 DEF Typed
  <2> QED
      BY <1>7, <1>11, <2>1, OwnRowsKept, PeopleKept
<1>13. StandsAt(i.call, i.run, i.people, n + 1)'
    BY <1>6, <1>7, <1>12 DEF StandsAt
<1>14. StandsAt(importers[p].call, importers[p].run, importers[p].people, n + 1)'
    BY <1>3, <1>13
<1>15. n + 1 > SeedAt(i.call) /\ n < Len(Steps(i.call)) /\ n > 2 /\ j.todo = From(i.call, n + 1)
    BY <1>3, <1>5, <1>6
<1>16. /\ schema' >= 15 /\ OwnRows(importers[p].call, importers[p].run)'
       /\ BroughtPeople(importers[p].call)' /\ Typed(importers[p].call)'
    BY <1>3, <1>12
<1> QED
    BY <1>1, <1>3, <1>4, <1>9, <1>11, <1>14, <1>15, <1>16, ImportGoesOn

LEMMA WriteKeeps ==
    ASSUME SeedInvariant, NEW p \in Importers, writeSeedCredentials(p) PROVE SeedInvariant'
BY ImportEnds DEF writeSeedCredentials, db

LEMMA CrashKeeps ==
    ASSUME SeedInvariant, NEW p \in Importers, crash(p) PROVE SeedInvariant'
BY ImportEnds DEF crash, db

LEMMA MemberTypesKeep ==
    ASSUME SeedInvariant, NEW p \in Importers, updateImportedMemberTypes(p) PROVE SeedInvariant'
<1> PICK i : i = importers[p]
    OBVIOUS
<1> PICK j : j = importers'[p]
    OBVIOUS
<1>1. Tables /\ Fits(i) /\ i.call = Call(p) /\ importers = [q \in Importers |-> importers[q]]
      /\ i.todo # << >> /\ Head(i.todo) = "memberTypes"
      /\ UNCHANGED <<schema, users, savings, loans, runs>>
    BY DEF SeedInvariant, Call, updateImportedMemberTypes, Doing, Running
<1>2. DOMAIN i = {"call", "todo", "run", "people", "made", "result"}
    BY <1>1 DEF Fits
<1>3. CASE (\E result : importers' = End(p, result)) /\ UNCHANGED members
    BY <1>1, <1>3, ImportEnds
<1>4. CASE /\ importers' = Done(p)
           /\ members' = [id \in DOMAIN members |->
                              IF \E m \in importers[p].people : m.id = id
                              THEN [members[id] EXCEPT !.type = PersonWith(importers[p].people, id).type]
                              ELSE members[id]]
  <2>1. /\ importers' = [q \in Importers |-> importers'[q]]
        /\ \A q \in Importers : q # p => importers'[q] = importers[q]
        /\ DOMAIN j = DOMAIN i /\ j.call = i.call /\ j.run = i.run /\ j.people = i.people
        /\ j.todo = Tail(i.todo)
      BY <1>1, <1>2, <1>4, MovedImport
  <2>2. i.call \in Calls
      BY <1>1, Standing
  <2>3. PICK n \in 1 .. Len(Steps(i.call)) :
            /\ StandsAt(i.call, i.run, i.people, n)
            /\ Steps(i.call)[n] = "memberTypes"
            /\ Tail(i.todo) = IF n < Len(Steps(i.call)) THEN From(i.call, n + 1) ELSE << >>
      BY <1>1, Standing
  <2>4. /\ n = EndAt(i.call) - 2 /\ Len(Steps(i.call)) = EndAt(i.call) /\ EndAt(i.call) \in {10, 12}
        /\ SeedAt(i.call) \in {5, 6} /\ TypesAt(i.call) \in Nat /\ ClassifiedAt(i.call) \in Nat
        /\ TypesAt(i.call) < n /\ ClassifiedAt(i.call) < n
      BY <2>2, <2>3, PlanSteps, PlanLength
  <2>5. /\ DOMAIN members' = DOMAIN members
        /\ \A id \in DOMAIN members :
              members'[id].no = members[id].no /\ DOMAIN members'[id] = {"no", "name", "status", "type"}
    <3>1. \A id \in DOMAIN members : DOMAIN members[id] = {"no", "name", "status", "type"}
        BY <1>1 DEF Tables
    <3>2. ASSUME NEW id \in DOMAIN members
          PROVE  members'[id].no = members[id].no /\ DOMAIN members'[id] = {"no", "name", "status", "type"}
      <4>1. CASE members'[id] = members[id]
          BY <3>1, <4>1
      <4>2. CASE \E type : members'[id] = [members[id] EXCEPT !.type = type]
          BY <3>1, <4>2
      <4> QED
          BY <1>4, <4>1, <4>2
    <3> QED
        BY <1>4, <3>2
  <2>6. Writers' = Writers
      BY <1>1 DEF Writers, Range
  <2>7. Tables'
      BY <1>1, <2>5, <2>6 DEF Tables
  <2>8. Grows(i.run)
    <3>1. schema \in Nat
        BY <1>1 DEF Tables
    <3> QED
        BY <1>1, <2>5, <2>6, <3>1 DEF Grows
  <2>9. schema' >= 15 /\ Typed(i.call)'
      BY <1>1, <2>3, <2>4 DEF StandsAt, Typed
  <2>10. StandsAt(i.call, i.run, i.people, n + 1)'
    <3>1. n < Len(Steps(i.call)) /\ 2 < n /\ n # EndAt(i.call) - 1 /\ n # SeedAt(i.call)
          /\ ~(i.call.append /\ n = 5)
        BY <2>4
    <3> QED
        BY <1>1, <2>2, <2>3, <2>6, <2>8, <2>9, <3>1, StandsNext
  <2>11. StandsAt(importers[p].call, importers[p].run, importers[p].people, n + 1)'
      BY <2>1, <2>10
  <2>12. /\ n < Len(Steps(Call(p))) /\ n > 2 /\ n + 1 < EndAt(Call(p)) /\ Call(p) \in Calls
         /\ importers'[p].todo = From(Call(p), n + 1) /\ n + 1 > SeedAt(Call(p))
      BY <1>1, <2>1, <2>2, <2>3, <2>4
  <2>13. \A k \in DOMAIN runs' : k \in DOMAIN runs /\ (k # i.run => runs'[k].status = runs[k].status)
      BY <1>1
  <2> QED
      BY <1>1, <2>1, <2>7, <2>8, <2>11, <2>12, <2>13, ImportGoesOn
<1> QED
    BY <1>3, <1>4 DEF updateImportedMemberTypes

LEMMA LoanTypesKeep ==
    ASSUME SeedInvariant, NEW p \in Importers, assignImportedLoanTypes(p) PROVE SeedInvariant'
<1> PICK i : i = importers[p]
    OBVIOUS
<1> PICK j : j = importers'[p]
    OBVIOUS
<1>1. Tables /\ Fits(i) /\ i.call = Call(p) /\ importers = [q \in Importers |-> importers[q]]
      /\ i.todo # << >> /\ Head(i.todo) = "loanTypes" /\ importers' = Done(p)
      /\ UNCHANGED <<schema, members, users, savings, runs>>
    BY DEF SeedInvariant, Call, assignImportedLoanTypes, Doing, Running
<1>2. DOMAIN i = {"call", "todo", "run", "people", "made", "result"}
    BY <1>1 DEF Fits
<1>3. /\ importers' = [q \in Importers |-> importers'[q]]
      /\ \A q \in Importers : q # p => importers'[q] = importers[q]
      /\ DOMAIN j = DOMAIN i /\ j.call = i.call /\ j.run = i.run /\ j.people = i.people
      /\ j.todo = Tail(i.todo)
    BY <1>1, <1>2, MovedImport
<1>4. i.call \in Calls
    BY <1>1, Standing
<1>5. PICK n \in 1 .. Len(Steps(i.call)) :
          /\ StandsAt(i.call, i.run, i.people, n)
          /\ Steps(i.call)[n] = "loanTypes"
          /\ Tail(i.todo) = IF n < Len(Steps(i.call)) THEN From(i.call, n + 1) ELSE << >>
    BY <1>1, Standing
<1>6. /\ n = 8 /\ ~i.call.append /\ Len(Steps(i.call)) = EndAt(i.call) /\ SeedAt(i.call) \in {5, 6}
      /\ i.call.manifest.extended \in BOOLEAN
    BY <1>4, <1>5, PlanSteps, PlanLength
<1>7. EndAt(i.call) = 12 /\ TypesAt(i.call) = 8 /\ ClassifiedAt(i.call) \in {4, 7}
    BY <1>6 DEF EndAt, TypesAt, ClassifiedAt
<1>8. OwnRows(i.call, i.run) /\ schema >= 15 /\ schema \in Nat
    BY <1>1, <1>5, <1>6, <1>7 DEF StandsAt, Tables
<1>9. /\ DOMAIN loans' = DOMAIN loans
      /\ \A id \in DOMAIN loans :
            /\ loans'[id].run = loans[id].run /\ DOMAIN loans'[id] = {"run", "type"}
            /\ id \notin DOMAIN i.call.manifest.loans => loans'[id] = loans[id]
            /\ id \in DOMAIN i.call.manifest.loans => loans'[id].type = i.call.manifest.loans[id]
  <2>1. \A id \in DOMAIN loans : DOMAIN loans[id] = {"run", "type"}
      BY <1>1 DEF Tables
  <2>2. loans' = [id \in DOMAIN loans |->
                     IF id \in DOMAIN i.call.manifest.loans
                     THEN [loans[id] EXCEPT !.type = i.call.manifest.loans[id]] ELSE loans[id]]
      BY <1>1 DEF assignImportedLoanTypes, Manifest
  <2> QED
      BY <2>1, <2>2
<1>10. Writers' = Writers
    BY <1>1, <1>9 DEF Writers, Range
<1>11. Tables'
    BY <1>1, <1>9, <1>10 DEF Tables
<1>12. Grows(i.run)
  <2>1. \A id \in DOMAIN loans : loans[id].run # i.run => loans'[id].type = loans[id].type
      BY <1>8, <1>9 DEF OwnRows
  <2> QED
      BY <1>1, <1>8, <1>9, <1>10, <2>1 DEF Grows
<1>13. schema' >= 15 /\ Typed(i.call)'
    BY <1>1, <1>8, <1>9 DEF OwnRows, Typed
<1>14. StandsAt(i.call, i.run, i.people, n + 1)'
  <2>1. n < Len(Steps(i.call)) /\ 2 < n /\ n # EndAt(i.call) - 1 /\ n # SeedAt(i.call)
        /\ ~(i.call.append /\ n = 5)
      BY <1>6, <1>7
  <2> QED
      BY <1>1, <1>4, <1>5, <1>10, <1>12, <1>13, <2>1, StandsNext
<1>15. StandsAt(importers[p].call, importers[p].run, importers[p].people, n + 1)'
    BY <1>3, <1>14
<1>16. /\ n < Len(Steps(Call(p))) /\ n > 2 /\ n + 1 < EndAt(Call(p)) /\ Call(p) \in Calls
       /\ importers'[p].todo = From(Call(p), n + 1) /\ n + 1 > SeedAt(Call(p))
  <2>1. n < Len(Steps(i.call)) /\ n > 2 /\ n + 1 < EndAt(i.call) /\ n + 1 > SeedAt(i.call)
      BY <1>6, <1>7
  <2>2. j.todo = From(i.call, n + 1)
      BY <1>3, <1>5, <2>1
  <2> QED
      BY <1>1, <1>4, <2>1, <2>2
<1>17. \A k \in DOMAIN runs' : k \in DOMAIN runs /\ (k # i.run => runs'[k].status = runs[k].status)
    BY <1>1
<1> QED
    BY <1>1, <1>3, <1>11, <1>12, <1>15, <1>16, <1>17, ImportGoesOn

LEMMA ImportedLoanIs ==
    ASSUME NEW p, NEW id
    PROVE  /\ ImportedLoan(p, id).run = importers[p].run
           /\ DOMAIN ImportedLoan(p, id) = {"run", "type"}
           /\ Call(p).append => ImportedLoan(p, id).type = Manifest(p).loans[id]
BY DEF ImportedLoan

LEMMA PersonIsOne ==
    ASSUME NEW people, NEW m \in people
    PROVE  PersonWith(people, m.id) \in people /\ PersonWith(people, m.id).id = m.id
<1> PICK x : x = CHOOSE y \in people : y.id = m.id
    OBVIOUS
<1>1. x \in people /\ x.id = m.id
    OBVIOUS
<1> QED
    BY <1>1 DEF PersonWith

\* What seedBaseSchema adds when no row is in its way.
RowsAdded(p) ==
    LET run == importers[p].run IN
    /\ DOMAIN savings' = DOMAIN savings \cup SavingsOf(p)
    /\ \A row \in DOMAIN savings' : savings'[row] = IF row \in DOMAIN savings THEN savings[row] ELSE run
    /\ DOMAIN loans' = DOMAIN loans \cup DOMAIN Manifest(p).loans
    /\ \A id \in DOMAIN loans' : loans'[id] = IF id \in DOMAIN loans THEN loans[id] ELSE ImportedLoan(p, id)
    /\ DOMAIN members' = DOMAIN members \cup {m.id : m \in NewPeople(p)}
    /\ \A id \in DOMAIN members' :
        IF id \in DOMAIN members THEN members'[id] = members[id]
        ELSE /\ members'[id].no = PersonWith(NewPeople(p), id).no
             /\ DOMAIN members'[id] = {"no", "name", "status", "type"}
    /\ DOMAIN users \subseteq DOMAIN users'
    /\ \A id \in DOMAIN users' : users'[id] = IF id \in DOMAIN users THEN users[id] ELSE run

LEMMA SeedAdds ==
    ASSUME NEW p, seedBaseSchema(p), ~Conflicts(p)
    PROVE  /\ RowsAdded(p) /\ UNCHANGED <<runs, schema>>
           /\ \E made : importers' = [Done(p) EXCEPT ![p].made = made]
<1>1. /\ DOMAIN savings' = DOMAIN savings \cup SavingsOf(p)
      /\ \A row \in DOMAIN savings' :
            savings'[row] = IF row \in DOMAIN savings THEN savings[row] ELSE importers[p].run
    BY DEF seedBaseSchema, Added
<1>2. /\ DOMAIN loans' = DOMAIN loans \cup DOMAIN Manifest(p).loans
      /\ \A id \in DOMAIN loans' : loans'[id] = IF id \in DOMAIN loans THEN loans[id] ELSE ImportedLoan(p, id)
    BY DEF seedBaseSchema, Added
<1>3. /\ DOMAIN users \subseteq DOMAIN users'
      /\ \A id \in DOMAIN users' :
            users'[id] = IF id \in DOMAIN users THEN users[id] ELSE importers[p].run
    BY DEF seedBaseSchema, Added
<1>4. /\ DOMAIN members' = DOMAIN members \cup {m.id : m \in NewPeople(p)}
      /\ \A id \in DOMAIN members' :
            members'[id] = IF id \in DOMAIN members THEN members[id]
                           ELSE [no |-> PersonWith(NewPeople(p), id).no,
                                 name |-> PersonWith(NewPeople(p), id).name,
                                 status |-> PersonWith(NewPeople(p), id).status, type |-> "employee"]
    BY DEF seedBaseSchema, Added
<1>5. \A id \in DOMAIN members' :
        IF id \in DOMAIN members THEN members'[id] = members[id]
        ELSE /\ members'[id].no = PersonWith(NewPeople(p), id).no
             /\ DOMAIN members'[id] = {"no", "name", "status", "type"}
  <2> SUFFICES ASSUME NEW id \in DOMAIN members', id \notin DOMAIN members
               PROVE  /\ members'[id].no = PersonWith(NewPeople(p), id).no
                      /\ DOMAIN members'[id] = {"no", "name", "status", "type"}
      BY <1>4
  <2>1. \E no, name, status, type :
            /\ members'[id] = [no |-> no, name |-> name, status |-> status, type |-> type]
            /\ no = PersonWith(NewPeople(p), id).no
      BY <1>4
  <2> QED
      BY <2>1
<1>6. UNCHANGED <<runs, schema>> /\ \E made : importers' = [Done(p) EXCEPT ![p].made = made]
    BY DEF seedBaseSchema
<1> QED
    BY <1>1, <1>2, <1>3, <1>4, <1>5, <1>6 DEF RowsAdded

LEMMA SeedKeeps ==
    ASSUME SeedInvariant, NEW p \in Importers, seedBaseSchema(p) PROVE SeedInvariant'
<1> PICK i : i = importers[p]
    OBVIOUS
<1> PICK j : j = importers'[p]
    OBVIOUS
<1>1. Tables /\ Fits(i) /\ i.call = Call(p) /\ importers = [q \in Importers |-> importers[q]]
      /\ i.todo # << >> /\ Head(i.todo) = "seed" /\ Doing(p, "seed")
    BY DEF SeedInvariant, Call, seedBaseSchema, Doing, Running
<1>2. DOMAIN i = {"call", "todo", "run", "people", "made", "result"}
    BY <1>1 DEF Fits
<1>3. CASE Conflicts(p)
  <2>1. /\ \E result : importers' = End(p, result)
        /\ runs' = Mark(p, "failed") /\ UNCHANGED <<schema, members, users, savings, loans>>
      BY <1>3 DEF seedBaseSchema
  <2> QED
      BY <1>1, <2>1, FailsKeeps
<1>4. CASE ~Conflicts(p)
  <2>1. RowsAdded(p) /\ UNCHANGED <<runs, schema>>
      BY <1>4, SeedAdds
  <2>2. /\ importers' = [q \in Importers |-> importers'[q]]
        /\ \A q \in Importers : q # p => importers'[q] = importers[q]
        /\ DOMAIN j = DOMAIN i /\ j.call = i.call /\ j.run = i.run /\ j.people = i.people
        /\ j.todo = Tail(i.todo)
    <3>1. PICK made : importers' = [Done(p) EXCEPT ![p].made = made]
        BY <1>4, SeedAdds
    <3>2. /\ Done(p) = [q \in Importers |-> Done(p)[q]]
          /\ \A q \in Importers : q # p => Done(p)[q] = importers[q]
          /\ DOMAIN Done(p)[p] = DOMAIN i /\ Done(p)[p].call = i.call /\ Done(p)[p].run = i.run
          /\ Done(p)[p].todo = Tail(i.todo) /\ Done(p)[p].people = i.people
        BY <1>1, <1>2, MovedImport
    <3> QED
        BY <1>2, <3>1, <3>2
  <2>3. i.call \in Calls
      BY <1>1, Standing
  <2>4. PICK n \in 1 .. Len(Steps(i.call)) :
            /\ StandsAt(i.call, i.run, i.people, n)
            /\ Steps(i.call)[n] = "seed"
            /\ Tail(i.todo) = IF n < Len(Steps(i.call)) THEN From(i.call, n + 1) ELSE << >>
      BY <1>1, Standing
  <2>5. /\ n = SeedAt(i.call) /\ Len(Steps(i.call)) = EndAt(i.call) /\ EndAt(i.call) \in {10, 12}
        /\ SeedAt(i.call) \in {5, 6} /\ i.call.append \in BOOLEAN /\ i.call.manifest.extended \in BOOLEAN
        /\ TypesAt(i.call) \in Nat /\ ClassifiedAt(i.call) \in Nat
      BY <2>3, <2>4, PlanSteps, PlanLength
  <2>6. /\ n # ClassifiedAt(i.call) /\ (~i.call.append => n < TypesAt(i.call))
        /\ i.call.append => n = 6
      BY <2>5 DEF ClassifiedAt, SeedAt, TypesAt
  <2>7. i.run # 0 /\ runs[i.run].status = "validating" /\ i.run \in DOMAIN runs
      BY <1>1, <2>4, <2>5 DEF StandsAt, Fits
  <2>8. NewPeople(p) \subseteq i.call.manifest.people /\ \A m \in NewPeople(p) : m.id \notin DOMAIN members
    <3>1. CASE i.call.append
      <4>1. PeopleFound(i.call, i.people)
          BY <2>4, <2>6, <3>1 DEF StandsAt
      <4> QED
          BY <1>1, <3>1, <4>1 DEF PeopleFound, NewPeople
    <3>2. CASE ~i.call.append
      <4>1. i.people = i.call.manifest.people
          BY <2>4, <2>5, <3>2 DEF StandsAt
      <4> QED
          BY <1>1, <1>4, <3>2, <4>1 DEF NewPeople, Conflicts
    <3> QED
        BY <3>1, <3>2
  <2>9. ASSUME NEW m \in NewPeople(p) PROVE m.id \in DOMAIN members' /\ members'[m.id].no = m.no
    <3>1. PICK o : o = PersonWith(NewPeople(p), m.id)
        OBVIOUS
    <3>2. o \in NewPeople(p) /\ o.id = m.id
        BY <3>1, PersonIsOne
    <3>3. o.no = m.no
        BY <2>3, <2>8, <3>2, SeedRowsAssumption
    <3>4. m.id \in DOMAIN members' /\ m.id \notin DOMAIN members
        BY <2>1, <2>8 DEF RowsAdded
    <3> QED
        BY <2>1, <3>1, <3>3, <3>4 DEF RowsAdded
  <2>10. \A k \in Writers' : k \in Writers \/ k = i.run
    <3>1. ASSUME NEW row \in DOMAIN savings' PROVE savings'[row] \in Writers \/ savings'[row] = i.run
        BY <2>1 DEF RowsAdded, Writers, Range
    <3>2. ASSUME NEW id \in DOMAIN loans' PROVE loans'[id].run \in Writers \/ loans'[id].run = i.run
        BY <2>1, ImportedLoanIs DEF RowsAdded, Writers
    <3>3. ASSUME NEW id \in DOMAIN users', users'[id] # Own
          PROVE  users'[id] \in Writers \/ users'[id] = i.run
        BY <2>1, <3>3 DEF RowsAdded, Writers
    <3> QED
        BY <3>1, <3>2, <3>3 DEF Writers, Range
  <2>11. Grows(i.run)
    <3>1. schema \in Nat
        BY <1>1 DEF Tables
    <3>2. \A id \in DOMAIN members : id \in DOMAIN members' /\ members'[id] = members[id]
        BY <2>1 DEF RowsAdded
    <3>3. \A row \in DOMAIN savings : row \in DOMAIN savings' /\ savings'[row] = savings[row]
        BY <2>1 DEF RowsAdded
    <3>4. \A id \in DOMAIN loans : id \in DOMAIN loans' /\ loans'[id] = loans[id]
        BY <2>1 DEF RowsAdded
    <3> QED
        BY <2>1, <2>7, <2>10, <3>1, <3>2, <3>3, <3>4 DEF Grows
  <2>12. Tables'
    <3>1. \A id \in DOMAIN members' : DOMAIN members'[id] = {"no", "name", "status", "type"}
        BY <1>1, <2>1 DEF Tables, RowsAdded
    <3>2. ASSUME NEW id \in DOMAIN loans' PROVE DOMAIN loans'[id] = {"run", "type"}
      <4>1. CASE id \in DOMAIN loans
        <5>1. loans'[id] = loans[id]
            BY <2>1, <4>1 DEF RowsAdded
        <5> QED
            BY <1>1, <4>1, <5>1 DEF Tables
      <4>2. CASE id \notin DOMAIN loans
        <5>1. loans'[id] = ImportedLoan(p, id)
            BY <2>1, <4>2 DEF RowsAdded
        <5> QED
            BY <5>1, ImportedLoanIs
      <4> QED
          BY <4>1, <4>2
    <3>3. ASSUME NEW call \in Calls, NEW m \in call.manifest.people, m.id \in DOMAIN members'
          PROVE  members'[m.id].no = m.no
      <4>1. CASE m.id \in DOMAIN members
          BY <1>1, <2>1, <4>1 DEF Tables, RowsAdded
      <4>2. CASE m.id \notin DOMAIN members
        <5>1. PICK o \in NewPeople(p) : o.id = m.id
            BY <2>1, <3>3, <4>2 DEF RowsAdded
        <5>2. members'[o.id].no = o.no
            BY <2>9
        <5>3. o.no = m.no
            BY <2>3, <2>8, <5>1, SeedRowsAssumption
        <5> QED
            BY <5>1, <5>2, <5>3
      <4> QED
          BY <4>1, <4>2
    <3>4. \A r \in Writers' : r \in DOMAIN runs /\ runs[r].status \in {"validating", "failed", "succeeded"}
        BY <1>1, <2>7, <2>10 DEF Tables
    <3> QED
        BY <1>1, <2>1, <3>1, <3>2, <3>3, <3>4 DEF Tables
  <2>13. OwnRows(i.call, i.run)'
    <3>1. SavingsOf(p) = Replayed(i.call) /\ Manifest(p) = i.call.manifest
        BY <1>1 DEF SavingsOf, Manifest
    <3>2. Replayed(i.call) \cap DOMAIN savings = {} /\ DOMAIN i.call.manifest.loans \cap DOMAIN loans = {}
        BY <1>4, <3>1 DEF Conflicts
    <3>3. \A row \in Replayed(i.call) : row \in DOMAIN savings' /\ savings'[row] = i.run
        BY <2>1, <3>1, <3>2 DEF RowsAdded
    <3>4. ASSUME NEW id \in DOMAIN i.call.manifest.loans
          PROVE  id \in DOMAIN loans' /\ loans'[id] = ImportedLoan(p, id)
        BY <2>1, <3>1, <3>2 DEF RowsAdded
    <3> QED
        BY <3>3, <3>4, ImportedLoanIs DEF OwnRows
  <2>14. BroughtPeople(i.call)'
    <3> SUFFICES ASSUME NEW m \in i.call.manifest.people
                 PROVE  \E id \in DOMAIN members' : members'[id].no = m.no
        BY DEF BroughtPeople, SameNumber
    <3>1. CASE m.id \in DOMAIN members
      <4>1. members[m.id].no = m.no
          BY <1>1, <2>3, <3>1 DEF Tables
      <4> QED
          BY <2>1, <3>1, <4>1 DEF RowsAdded
    <3>2. CASE SameNumber(m) # {}
        BY <2>1, <3>2 DEF RowsAdded, SameNumber
    <3>3. CASE m.id \notin DOMAIN members /\ SameNumber(m) = {}
      <4>1. m \in i.people
        <5>1. CASE i.call.append
            BY <2>4, <2>6, <3>3, <5>1 DEF StandsAt, PeopleFound
        <5>2. CASE ~i.call.append
            BY <2>4, <2>5, <5>2 DEF StandsAt
        <5> QED
            BY <5>1, <5>2
      <4>2. m \in NewPeople(p)
          BY <3>3, <4>1 DEF NewPeople
      <4> QED
          BY <2>9, <4>2
    <3> QED
        BY <3>1, <3>2, <3>3
  <2>15. n + 1 > TypesAt(i.call) => Typed(i.call)'
    <3> SUFFICES ASSUME n + 1 > TypesAt(i.call) PROVE Typed(i.call)'
        OBVIOUS
    <3>1. i.call.append
        BY <2>5, <2>6
    <3>2. Manifest(p) = i.call.manifest /\ DOMAIN i.call.manifest.loans \cap DOMAIN loans = {}
        BY <1>1, <1>4 DEF Manifest, Conflicts
    <3>3. ASSUME NEW id \in DOMAIN i.call.manifest.loans PROVE loans'[id] = ImportedLoan(p, id)
        BY <2>1, <3>2 DEF RowsAdded
    <3>4. \A id \in DOMAIN i.call.manifest.loans : ImportedLoan(p, id).type = i.call.manifest.loans[id]
      <4>1. Call(p).append
          BY <1>1, <3>1
      <4>2. \A id : ImportedLoan(p, id).type = Manifest(p).loans[id]
          BY <4>1, ImportedLoanIs
      <4> QED
          BY <3>2, <4>2
    <3> QED
        BY <3>3, <3>4 DEF Typed
  <2>16. n + 1 > ClassifiedAt(i.call) => schema' >= 15
      BY <2>1, <2>4, <2>5, <2>6 DEF StandsAt
  <2>17. StandsAt(i.call, i.run, i.people, n + 1)'
    <3>1. /\ n + 1 <= 2 <=> i.run = 0
          /\ 2 < n + 1 /\ n + 1 < EndAt(i.call) => runs'[i.run].status = "validating"
          /\ ~(n + 1 <= SeedAt(i.call)) /\ ~(i.call.append /\ n + 1 = 6)
        BY <2>1, <2>5, <2>6, <2>7
    <3> QED
        BY <2>13, <2>14, <2>15, <2>16, <3>1 DEF StandsAt
  <2>18. StandsAt(importers[p].call, importers[p].run, importers[p].people, n + 1)'
      BY <2>2, <2>17
  <2>19. /\ n < Len(Steps(Call(p))) /\ n > 2 /\ n + 1 < EndAt(Call(p)) /\ Call(p) \in Calls
         /\ importers'[p].todo = From(Call(p), n + 1) /\ n + 1 > SeedAt(Call(p))
    <3>1. n < Len(Steps(i.call)) /\ n > 2 /\ n + 1 < EndAt(i.call) /\ n + 1 > SeedAt(i.call)
        BY <2>5
    <3>2. j.todo = From(i.call, n + 1)
        BY <2>2, <2>4, <3>1
    <3> QED
        BY <1>1, <2>3, <3>1, <3>2
  <2>20. \A k \in DOMAIN runs' : k \in DOMAIN runs /\ (k # i.run => runs'[k].status = runs[k].status)
      BY <2>1
  <2> QED
      BY <1>1, <2>2, <2>11, <2>12, <2>18, <2>19, <2>20, ImportGoesOn
<1> QED
    BY <1>3, <1>4

-----------------------------------------------------------------------------
(***************************************************************************)
(* The theorems.                                                           *)
(***************************************************************************)
LEMMA SeedBegins == SeedInit => SeedInvariant
<1> SUFFICES ASSUME SeedInit PROVE SeedInvariant
    OBVIOUS
<1>1. PICK old \in Databases : schema = old.schema /\ members = old.members /\ users = old.users
    BY DEF SeedInit
<1>2. savings = << >> /\ loans = << >> /\ runs = << >> /\ importers = [p \in Importers |-> Idle]
    BY DEF SeedInit
<1>3. DOMAIN savings = {} /\ DOMAIN loans = {} /\ DOMAIN runs = {} /\ runs \in Seq(RunRecords)
    BY <1>2
<1>4. \A id \in DOMAIN users : users[id] = Own
    BY <1>1, SeedAssumption
<1>5. Writers = {}
    BY <1>3, <1>4 DEF Writers, Range
<1>6. Tables
  <2>1. schema \in Nat /\ \A id \in DOMAIN members : DOMAIN members[id] = {"no", "name", "status", "type"}
      BY <1>1, SeedAssumption
  <2>2. \A call \in Calls : \A m \in call.manifest.people :
            m.id \in DOMAIN members => members[m.id].no = m.no
      BY <1>1, SeedRowsAssumption
  <2> QED
      BY <1>3, <1>5, <2>1, <2>2 DEF Tables
<1>7. Fits(Idle)
  <2>1. /\ DOMAIN Idle = {"call", "todo", "run", "people", "made", "result"}
        /\ Idle.todo = << >> /\ Idle.run = 0
      BY DEF Idle
  <2> QED
      BY <1>5, <2>1 DEF Fits
<1>8. Idle.run = 0
    BY DEF Idle
<1>9. Successes
    BY <1>3 DEF Successes
<1> QED
    BY <1>2, <1>6, <1>7, <1>8, <1>9 DEF SeedInvariant

LEMMA SeedStepKeeps ==
    ASSUME SeedInvariant, NEW p \in Importers, SeedStep(p) PROVE SeedInvariant'
<1>1. CASE \E call \in Calls : begin(p, call)
    BY <1>1, SeedBeginKeeps
<1>2. CASE \E call \in Calls : backfill(p, call)
  <2>1. MigrateTo(21) /\ UNCHANGED <<members, users, savings, runs, importers>>
      BY <1>2 DEF backfill
  <2> QED
      BY <2>1, MigratesAlone
<1>3. CASE \E step \in {"prepare", "extend", "classify", "finish"} : migrate(p, step)
    BY <1>3, MigrateKeeps
<1>4. CASE seedFails(p)
    BY <1>4, FailsKeeps DEF seedFails
<1> QED
    BY <1>1, <1>2, <1>3, <1>4, SnapshotKeeps, OpenKeeps, ValidateKeeps, ReconcileKeeps, EmptyKeeps, SeedKeeps,
       ConfigsKeeps, LoanTypesKeep, MemberTypesKeep, SucceedKeeps, WriteKeeps, CrashKeeps DEF SeedStep

LEMMA SeedInvariantKept == SeedInvariant /\ [SeedNext]_vars => SeedInvariant'
<1> SUFFICES ASSUME SeedInvariant, [SeedNext]_vars PROVE SeedInvariant'
    OBVIOUS
<1>1. CASE serverStarts
  <2>1. MigrateTo(Latest) /\ UNCHANGED <<members, users, savings, runs, importers>>
      BY <1>1 DEF serverStarts
  <2> QED
      BY <2>1, MigratesAlone, SeedAssumption
<1>2. CASE \E p \in Importers : SeedStep(p)
    BY <1>2, SeedStepKeeps
<1>3. CASE UNCHANGED vars
    BY <1>3, NothingMoved
<1> QED
    BY <1>1, <1>2, <1>3 DEF SeedNext

LEMMA SeedInvariantHolds == SeedSpec => []SeedInvariant
BY SeedBegins, SeedInvariantKept, PTL DEF SeedSpec

LEMMA InvariantIsTrue == SeedInvariant => RunsAreTrue
<1> SUFFICES ASSUME SeedInvariant PROVE RunsAreTrue
    OBVIOUS
<1>1. ASSUME NEW p \in Importers, OwnRows(Call(p), importers[p].run), BroughtPeople(Call(p))
      PROVE  Brought(p)
    BY <1>1 DEF Brought, OwnRows, BroughtPeople, Manifest, SavingsOf
<1>2. ASSUME NEW p \in Importers, StatusOf(p) = "succeeded" PROVE Complete(p)
  <2>1. importers[p].run # 0 /\ runs[importers[p].run].status = "succeeded"
      BY <1>2 DEF StatusOf
  <2>2. OwnRows(Call(p), importers[p].run) /\ BroughtPeople(Call(p)) /\ Typed(Call(p))
      BY <2>1 DEF SeedInvariant, Fits, Call
  <2> QED
      BY <1>1, <2>2 DEF Complete, Typed, Manifest
<1>3. ASSUME NEW p \in Importers, importers[p].run \in Writers PROVE Brought(p)
  <2>1. OwnRows(Call(p), importers[p].run) /\ BroughtPeople(Call(p))
      BY <1>3 DEF SeedInvariant, Fits, Call
  <2> QED
      BY <1>1, <2>1
<1>4. \A r \in Writers : runs[r].status \in {"validating", "failed", "succeeded"}
    BY DEF SeedInvariant, Tables
<1> QED
    BY <1>2, <1>3, <1>4 DEF RunsAreTrue, SucceededIsComplete, RefusedLeavesNothing

LEMMA InvariantIsOne == SeedInvariant => OneSuccess
<1> SUFFICES ASSUME SeedInvariant, NEW snapshot PROVE Cardinality(Succeeded(snapshot)) <= 1
    BY DEF OneSuccess
<1>1. ASSUME NEW r \in Succeeded(snapshot), NEW s \in Succeeded(snapshot) PROVE r = s
  <2>1. PICK c \in Calls : c.manifest.snapshot = snapshot /\ OwnRows(c, r)
      BY DEF Succeeded, SeedInvariant, Successes
  <2>2. PICK d \in Calls : d.manifest.snapshot = snapshot /\ OwnRows(d, s)
      BY DEF Succeeded, SeedInvariant, Successes
  <2>3. \/ Replayed(c) \cap Replayed(d) # {}
        \/ DOMAIN c.manifest.loans \cap DOMAIN d.manifest.loans # {}
      BY <2>1, <2>2, SeedRowsAssumption
  <2> QED
      BY <2>1, <2>2, <2>3 DEF OwnRows
<1>2. CASE Succeeded(snapshot) = {}
    BY <1>2, FS_EmptySet
<1>3. CASE Succeeded(snapshot) # {}
  <2>1. PICK r : r \in Succeeded(snapshot)
      BY <1>3
  <2>2. Succeeded(snapshot) = {r}
      BY <1>1, <2>1
  <2> QED
      BY <2>2, FS_Singleton
<1> QED
    BY <1>2, <1>3

\* RunsAreTrue of every run: whatever imports run at the same time, crash or
\* fail, and whatever migrates, a run that says succeeded has brought all the
\* rows of its manifest, each loan with its type, a refused or a trial run has
\* written none, and a run with one row has them all (seed_import.go:139-306).
THEOREM RunsAreTrueHolds == SeedSpec => []RunsAreTrue
BY SeedInvariantHolds, InvariantIsTrue, PTL

\* OneSuccess of every run: two imports of one snapshot, which have a row in
\* common, never both succeed, though neither sees the run of the other
\* (seed_import.go:154-161, 191-194 and the keys of the rows).
THEOREM OneSuccessHolds == SeedSpec => []OneSuccess
BY SeedInvariantHolds, InvariantIsOne, PTL
=============================================================================
