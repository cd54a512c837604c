---------------------------- MODULE LedgerProofs ----------------------------
(***************************************************************************)
(* The books follow the records: for any transactions, rules, accounts and *)
(* amounts, in any order of bookings, corrections, removals, reversals by  *)
(* hand and backfills.                                                     *)
(*                                                                         *)
(* That at most one journal of a transaction stands is not inductive: a    *)
(* removal takes back the last row that booked the transaction, so it has  *)
(* to be the last one that stands (Ordered), and a journal that waits for  *)
(* an account is written anew, so nothing may have reversed it (Chained).  *)
(***************************************************************************)
EXTENDS Ledger, SumProofs, SequenceTheorems

IsLine(line) ==
    /\ line = [code |-> line.code, amount |-> line.amount]
    /\ line.amount \in Int

IsRow(row) ==
    /\ row = Journal(row.of, row.type, row.day, row.lines, row.status, row.reverses)
    /\ row.status \in {"pending_mapping", "posted", "deleted"}
    /\ row.reverses \in Nat
    /\ \A c \in DOMAIN row.lines : IsLine(row.lines[c])

Shape(js) ==
    /\ \E S : js \in Seq(S)
    /\ \A i \in 1 .. Len(js) : IsRow(js[i])

\* A row takes back an older one, which is posted, and only posted rows do.
Chained(js) ==
    \A i \in 1 .. Len(js) :
        /\ js[i].reverses \in 0 .. i - 1
        /\ js[i].status # "posted" => js[i].reverses = 0 /\ ~Reversed(js, i)

Good(js) == Shape(js) /\ Chained(js)

\* Of the rows that book t only the last may stand.
Ordered(js, t) ==
    \A i, k \in Bookings(js, t) : i < k => Reversed(js, i)

\* The lines of a row are of the amount of t; those of a loan are of several.
Says(row, t, amount) ==
    TypeOf[t] # "loan" => \A c \in DOMAIN row.lines : row.lines[c].amount \in {amount, -amount}

FollowsOne(js, t, rec) ==
    /\ Ordered(js, t)
    /\ \A i \in Standing(js, t) : rec # NoRecord /\ Says(js[i], t, rec.amount)

Follows(js, recs) == \A t \in Transactions : FollowsOne(js, t, recs[t])

KeysApart(rs) ==
    /\ \A r \in Rules : rs[r].active => rs[r].key \in RuleKeys
    /\ \A q, r \in Rules : q # r /\ rs[q].active /\ rs[r].active => ~Overlap(rs[q].key, rs[r].key)

RecordsTypeOK == records \in [Transactions -> NewRecords \cup {NoRecord}]

LedgerInvariant ==
    /\ RecordsTypeOK
    /\ rules = [r \in Rules |-> rules[r]]
    /\ Good(journals) /\ Follows(journals, records)
    /\ KeysApart(rules)

-----------------------------------------------------------------------------
(***************************************************************************)
(* Rows are added and changed.                                             *)
(***************************************************************************)
LEMMA ShapeFacts ==
    ASSUME NEW js, Shape(js)
    PROVE  Len(js) \in Nat /\ DOMAIN js = 1 .. Len(js)
BY LenProperties DEF Shape

Extends(new, js, row) ==
    /\ Shape(new) /\ Len(new) = Len(js) + 1
    /\ new[Len(js) + 1] = row /\ \A i \in 1 .. Len(js) : new[i] = js[i]

LEMMA Appended ==
    ASSUME NEW js, Shape(js), NEW row, IsRow(row), NEW new, new = Append(js, row)
    PROVE  Extends(new, js, row)
<1>1. PICK S : js \in Seq(S)
    BY DEF Shape
<1> DEFINE T == S \cup {row}
<1>2. js \in Seq(T) /\ row \in T
    BY <1>1
<1> HIDE DEF T
<1>3. /\ new \in Seq(T) /\ Len(new) = Len(js) + 1
      /\ new[Len(js) + 1] = row /\ \A i \in 1 .. Len(js) : new[i] = js[i]
    BY <1>2, AppendProperties
<1>4. \A i \in 1 .. Len(new) : IsRow(new[i])
    <2>1. Len(js) \in Nat
        BY ShapeFacts
    <2>2. ASSUME NEW i \in 1 .. Len(new) PROVE i \in 1 .. Len(js) \/ i = Len(js) + 1
        BY <1>3, <2>1
    <2>3. QED
        BY <1>3, <2>2 DEF Shape
<1>5. QED
    BY <1>3, <1>4 DEF Shape, Extends

LEMMA Changed ==
    ASSUME NEW js, Shape(js), NEW new, DOMAIN new = DOMAIN js,
           new = [i \in DOMAIN js |-> new[i]], \A i \in 1 .. Len(js) : IsRow(new[i])
    PROVE  Shape(new) /\ Len(new) = Len(js)
<1>1. Len(js) \in Nat /\ DOMAIN js = 1 .. Len(js)
    BY ShapeFacts
<1> DEFINE S == {new[i] : i \in 1 .. Len(js)}
<1>2. new \in [1 .. Len(js) -> S]
    BY <1>1
<1>3. new \in Seq(S) /\ Len(new) = Len(js)
    <2>1. new \in Seq(S)
        BY <1>1, <1>2, SeqDef
    <2>2. Len(new) \in Nat /\ 1 .. Len(new) = 1 .. Len(js)
        BY <1>1, <1>2, <2>1, LenProperties
    <2>3. QED
        BY <1>1, <2>1, <2>2
<1>4. QED
    BY <1>3 DEF Shape

LEMMA ReversedIs ==
    ASSUME NEW js, Shape(js), NEW i
    PROVE  Reversed(js, i) <=> \E j \in 1 .. Len(js) : js[j].reverses = i
BY ShapeFacts DEF Reversed

LEMMA BookingsAre ==
    ASSUME NEW js, Shape(js), NEW t, NEW i
    PROVE  /\ i \in Bookings(js, t) <=> /\ i \in 1 .. Len(js) /\ js[i].of = t
                                        /\ js[i].status # "deleted" /\ js[i].reverses = 0
           /\ i \in Standing(js, t) <=> i \in Bookings(js, t) /\ ~Reversed(js, i)
<1>1. DOMAIN js = 1 .. Len(js)
    BY ShapeFacts
<1>2. QED
    BY <1>1 DEF Bookings, Standing, RowsOf

\* A row is reversed in the longer journals as it was, or by the new row.
LEMMA ReversedAppended ==
    ASSUME NEW js, Shape(js), NEW row, NEW new, Extends(new, js, row), NEW i
    PROVE  Reversed(new, i) <=> Reversed(js, i) \/ row.reverses = i
<1>1. Len(js) \in Nat
    BY ShapeFacts
<1>2. /\ Shape(new) /\ Len(new) = Len(js) + 1
      /\ new[Len(js) + 1] = row /\ \A j \in 1 .. Len(js) : new[j] = js[j]
    BY DEF Extends
<1>3. Reversed(new, i) <=> \E j \in 1 .. Len(new) : new[j].reverses = i
    BY <1>2, ReversedIs
<1>4. Reversed(js, i) <=> \E j \in 1 .. Len(js) : js[j].reverses = i
    BY ReversedIs
<1>5. \A j : j \in 1 .. Len(new) <=> j \in 1 .. Len(js) \/ j = Len(js) + 1
    BY <1>1, <1>2
<1>6. QED
    BY <1>2, <1>3, <1>4, <1>5

\* The rows that book u are what they were, and the new row if it books u.
LEMMA BookingsAppended ==
    ASSUME NEW js, Shape(js), NEW row, NEW new, Extends(new, js, row), NEW u, NEW i
    PROVE  i \in Bookings(new, u) <=>
              \/ i \in Bookings(js, u)
              \/ i = Len(js) + 1 /\ row.of = u /\ row.status # "deleted" /\ row.reverses = 0
<1>1. Len(js) \in Nat
    BY ShapeFacts
<1>2. /\ Shape(new) /\ Len(new) = Len(js) + 1
      /\ new[Len(js) + 1] = row /\ \A j \in 1 .. Len(js) : new[j] = js[j]
    BY DEF Extends
<1>3. i \in Bookings(new, u) <=> /\ i \in 1 .. Len(new) /\ new[i].of = u
                                 /\ new[i].status # "deleted" /\ new[i].reverses = 0
    BY <1>2, BookingsAre
<1>4. i \in Bookings(js, u) <=> /\ i \in 1 .. Len(js) /\ js[i].of = u
                                /\ js[i].status # "deleted" /\ js[i].reverses = 0
    BY BookingsAre
<1>5. i \in 1 .. Len(new) <=> i \in 1 .. Len(js) \/ i = Len(js) + 1
    BY <1>1, <1>2
<1>6. Len(js) + 1 \notin 1 .. Len(js)
    BY <1>1
<1>7. QED
    BY <1>2, <1>3, <1>4, <1>5, <1>6

LEMMA ChainedAppended ==
    ASSUME NEW js, Good(js), NEW row, NEW new, Extends(new, js, row),
           row.reverses \in 0 .. Len(js),
           row.status # "posted" => row.reverses = 0,
           row.reverses # 0 => js[row.reverses].status = "posted"
    PROVE  Good(new)
<1>1. Shape(js) /\ Chained(js) /\ Len(js) \in Nat
    BY ShapeFacts DEF Good
<1>2. /\ Shape(new) /\ Len(new) = Len(js) + 1
      /\ new[Len(js) + 1] = row /\ \A i \in 1 .. Len(js) : new[i] = js[i]
    BY DEF Extends
<1>3. \A i : Reversed(new, i) <=> Reversed(js, i) \/ row.reverses = i
    BY <1>1, ReversedAppended
<1>4. ASSUME NEW i \in 1 .. Len(new)
      PROVE  /\ new[i].reverses \in 0 .. i - 1
             /\ new[i].status # "posted" => new[i].reverses = 0 /\ ~Reversed(new, i)
    <2>1. CASE i \in 1 .. Len(js)
        <3>1. /\ js[i].reverses \in 0 .. i - 1
              /\ js[i].status # "posted" => js[i].reverses = 0 /\ ~Reversed(js, i)
            BY <1>1, <2>1 DEF Chained
        <3>2. js[i].status # "posted" => row.reverses # i
            BY <2>1
        <3>3. QED
            BY <1>2, <1>3, <2>1, <3>1, <3>2
    <2>2. CASE i = Len(js) + 1
        <3>1. Reversed(js, i) <=> \E j \in 1 .. Len(js) : js[j].reverses = i
            BY <1>1, ReversedIs
        <3>2. \A j \in 1 .. Len(js) : js[j].reverses \in 0 .. j - 1
            BY <1>1 DEF Chained
        <3>3. ~Reversed(js, i) /\ row.reverses # i
            BY <1>1, <2>2, <3>1, <3>2
        <3>4. QED
            BY <1>1, <1>2, <1>3, <2>2, <3>3
    <2>3. QED
        BY <1>1, <1>2, <2>1, <2>2
<1>5. QED
    BY <1>2, <1>4 DEF Good, Chained

\* A transaction without a standing row is booked: then the new row stands.
LEMMA BookingAppended ==
    ASSUME NEW js, Good(js), NEW row, row.reverses = 0, row.status # "deleted",
           NEW new, Extends(new, js, row), Standing(js, row.of) = {},
           NEW t, NEW rec, row.of = t => rec # NoRecord /\ Says(row, t, rec.amount),
           NEW old, FollowsOne(js, t, old), row.of # t => rec = old
    PROVE  FollowsOne(new, t, rec)
<1>1. Shape(js) /\ Len(js) \in Nat
    BY ShapeFacts DEF Good
<1>2. new[Len(js) + 1] = row /\ \A i \in 1 .. Len(js) : new[i] = js[i]
    BY DEF Extends
<1>3. \A i : i \in Bookings(js, t) => i \in 1 .. Len(js)
    BY <1>1, BookingsAre
<1>4. \A i \in 1 .. Len(js) : Reversed(new, i) <=> Reversed(js, i)
    BY <1>1, ReversedAppended
<1>5. \A i : i \in Bookings(new, t) <=> i \in Bookings(js, t) \/ (i = Len(js) + 1 /\ row.of = t)
    BY <1>1, BookingsAppended
<1>6. Ordered(new, t)
    <2> SUFFICES ASSUME NEW i \in Bookings(new, t), NEW k \in Bookings(new, t), i < k
                 PROVE  Reversed(new, i)
        BY DEF Ordered
    <2>1. i \in Bookings(js, t) /\ i \in 1 .. Len(js)
        BY <1>1, <1>3, <1>5
    <2>2. CASE k \in Bookings(js, t)
        BY <1>4, <2>1, <2>2 DEF FollowsOne, Ordered
    <2>3. CASE row.of = t
        <3>1. Reversed(js, i)
            BY <1>1, <2>1, <2>3, BookingsAre
        <3>2. QED
            BY <1>4, <2>1, <3>1
    <2>4. QED
        BY <1>5, <2>2, <2>3
<1>7. ASSUME NEW i \in Standing(new, t) PROVE rec # NoRecord /\ Says(new[i], t, rec.amount)
    <2>1. i \in Bookings(new, t) /\ ~Reversed(new, i)
        BY BookingsAre DEF Extends
    <2>2. CASE i = Len(js) + 1 /\ row.of = t
        BY <1>2, <2>2
    <2>3. CASE i \in Bookings(js, t)
        <3>1. i \in Standing(js, t) /\ i \in 1 .. Len(js)
            BY <1>1, <1>3, <1>4, <2>1, <2>3, BookingsAre
        <3>2. row.of # t
            BY <3>1
        <3>3. QED
            BY <1>2, <3>1, <3>2 DEF FollowsOne
    <2>4. QED
        BY <1>5, <2>1, <2>2, <2>3
<1>8. QED
    BY <1>6, <1>7 DEF FollowsOne

\* A posted row is taken back: then it stands no more.
LEMMA ReversalAppended ==
    ASSUME NEW js, Good(js), NEW k \in 1 .. Len(js), js[k].status = "posted",
           NEW row, row.reverses = k, row.status = "posted",
           NEW new, Extends(new, js, row)
    PROVE  /\ Good(new)
           /\ \A u, i : /\ i \in Bookings(new, u) <=> i \in Bookings(js, u)
                        /\ i \in Standing(new, u) <=> i \in Standing(js, u) /\ i # k
           /\ \A i : Reversed(js, i) => Reversed(new, i)
           /\ \A i \in 1 .. Len(js) : new[i] = js[i]
<1>1. Shape(js) /\ Len(js) \in Nat
    BY ShapeFacts DEF Good
<1>2. k # 0 /\ row.reverses \in 0 .. Len(js)
    BY <1>1
<1>3. Good(new)
    BY <1>2, ChainedAppended
<1>4. \A i : Reversed(new, i) <=> Reversed(js, i) \/ k = i
    BY <1>1, ReversedAppended
<1>5. ASSUME NEW u, NEW i PROVE i \in Bookings(new, u) <=> i \in Bookings(js, u)
    BY <1>1, <1>2, BookingsAppended
<1>6. ASSUME NEW u, NEW i PROVE i \in Standing(new, u) <=> i \in Standing(js, u) /\ i # k
    <2>1. i \in Standing(new, u) <=> i \in Bookings(new, u) /\ ~Reversed(new, i)
        BY BookingsAre DEF Extends
    <2>2. i \in Standing(js, u) <=> i \in Bookings(js, u) /\ ~Reversed(js, i)
        BY <1>1, BookingsAre
    <2>3. QED
        BY <1>4, <1>5, <2>1, <2>2
<1>7. QED
    BY <1>3, <1>4, <1>5, <1>6 DEF Extends

\* Rows that wait are changed, or go; no other row is, and nobody's.
LEMMA WaitingChanged ==
    ASSUME NEW js, Good(js), NEW new, DOMAIN new = DOMAIN js,
           new = [i \in DOMAIN js |-> new[i]],
           \A i \in 1 .. Len(js) : /\ IsRow(new[i])
                                   /\ new[i].of = js[i].of /\ new[i].reverses = js[i].reverses
                                   /\ js[i].status # "pending_mapping" => new[i] = js[i]
    PROVE  /\ Good(new)
           /\ \A i : Reversed(new, i) <=> Reversed(js, i)
           /\ \A u : /\ Bookings(new, u) = Bookings(js, u) \ {i \in 1 .. Len(js) : new[i].status = "deleted"}
                     /\ Standing(new, u) = Standing(js, u) \ {i \in 1 .. Len(js) : new[i].status = "deleted"}
<1>1. Shape(js) /\ Chained(js) /\ Len(js) \in Nat
    BY ShapeFacts DEF Good
<1>2. Shape(new) /\ Len(new) = Len(js)
    BY <1>1, Changed
<1>3. ASSUME NEW i PROVE Reversed(new, i) <=> Reversed(js, i)
    <2>1. Reversed(new, i) <=> \E j \in 1 .. Len(new) : new[j].reverses = i
        BY <1>2, ReversedIs
    <2>2. Reversed(js, i) <=> \E j \in 1 .. Len(js) : js[j].reverses = i
        BY <1>1, ReversedIs
    <2>3. QED
        BY <1>2, <2>1, <2>2
<1>4. Chained(new)
    BY <1>1, <1>2, <1>3 DEF Chained
<1>5. ASSUME NEW u
      PROVE  /\ Bookings(new, u) = Bookings(js, u) \ {i \in 1 .. Len(js) : new[i].status = "deleted"}
             /\ Standing(new, u) = Standing(js, u) \ {i \in 1 .. Len(js) : new[i].status = "deleted"}
    <2> DEFINE Gone == {i \in 1 .. Len(js) : new[i].status = "deleted"}
    <2>1. ASSUME NEW i PROVE i \in Bookings(new, u) <=> i \in Bookings(js, u) /\ i \notin Gone
        <3>1. i \in Bookings(new, u) <=> /\ i \in 1 .. Len(new) /\ new[i].of = u
                                         /\ new[i].status # "deleted" /\ new[i].reverses = 0
            BY <1>2, BookingsAre
        <3>2. i \in Bookings(js, u) <=> /\ i \in 1 .. Len(js) /\ js[i].of = u
                                        /\ js[i].status # "deleted" /\ js[i].reverses = 0
            BY <1>1, BookingsAre
        <3>3. QED
            BY <1>2, <3>1, <3>2
    <2> HIDE DEF Gone
    <2>2. ASSUME NEW i PROVE i \in Standing(new, u) <=> i \in Standing(js, u) /\ i \notin Gone
        <3>1. i \in Standing(new, u) <=> i \in Bookings(new, u) /\ ~Reversed(new, i)
            BY <1>2, BookingsAre
        <3>2. i \in Standing(js, u) <=> i \in Bookings(js, u) /\ ~Reversed(js, i)
            BY <1>1, BookingsAre
        <3>3. QED
            BY <1>3, <2>1, <3>1, <3>2
    <2>3. Bookings(new, u) = Bookings(js, u) \ Gone /\ Standing(new, u) = Standing(js, u) \ Gone
        BY <2>1, <2>2
    <2>4. QED
        BY <2>3 DEF Gone
<1>6. QED
    BY <1>2, <1>3, <1>4, <1>5 DEF Good

-----------------------------------------------------------------------------
(***************************************************************************)
(* The first and the last row of a transaction.                            *)
(***************************************************************************)
LEMMA MinIs ==
    ASSUME NEW S, S \subseteq Nat, S # {}
    PROVE  Min(S) \in S /\ \A y \in S : Min(S) <= y
<1>1. \E x \in S : \A y \in S : x =< y
    BY LeastNumber
<1>2. QED
    BY <1>1 DEF Min

LEMMA MaxIs ==
    ASSUME NEW n \in Nat, NEW S, S \subseteq 1 .. n, S # {}
    PROVE  Max(S) \in S /\ \A y \in S : y <= Max(S)
<1> DEFINE Heights == {n - x : x \in S}
<1>1. Heights \subseteq Nat /\ Heights # {}
    <2>1. \A x \in S : n - x \in Nat
        OBVIOUS
    <2>2. PICK x \in S : TRUE
        OBVIOUS
    <2>3. n - x \in Heights
        BY <2>2
    <2>4. QED
        BY <2>1, <2>3
<1>2. PICK h \in Heights : \A k \in Heights : h <= k
    BY <1>1, LeastNumber
<1>3. PICK x \in S : h = n - x
    BY <1>2
<1>4. \A y \in S : x >= y
    <2>1. \A y \in S : n - x <= n - y
        BY <1>2, <1>3
    <2>2. QED
        BY <2>1
<1>5. Max(S) \in S /\ \A y \in S : Max(S) >= y
    BY <1>3, <1>4 DEF Max
<1>6. QED
    BY <1>5

-----------------------------------------------------------------------------
(***************************************************************************)
(* Lines.                                                                  *)
(***************************************************************************)
LinesOf(lines, t, amount) ==
    \A c \in DOMAIN lines :
        IsLine(lines[c]) /\ (TypeOf[t] # "loan" => lines[c].amount \in {amount, -amount})

LEMMA ComponentLines ==
    ASSUME NEW t \in Transactions, NEW amount \in Amounts
    PROVE  /\ LinesOf(Components(t, amount), t, amount)
           /\ LinesOf(HistoricalComponents(t, amount), t, amount)
<1>1. amount \in Int /\ Fee \in Int
    BY LedgerAssumption
<1>2. TypeOf[t] \in {"savings", "withdrawal", "loan", "repayment", "loan_suspension_fee"}
    BY LedgerAssumption
<1>3. LinesOf(Components(t, amount), t, amount)
    BY <1>1, <1>2 DEF LinesOf, Components, Line, IsLine
<1>4. LinesOf(HistoricalComponents(t, amount), t, amount)
    BY <1>1, <1>2, <1>3 DEF LinesOf, HistoricalComponents, Line, IsLine
<1>5. QED
    BY <1>3, <1>4

LEMMA CodedLines ==
    ASSUME NEW t, NEW amount, NEW lines, LinesOf(lines, t, amount), NEW rec, NEW rs
    PROVE  LinesOf(Coded(t, rec, lines, rs), t, amount)
<1> DEFINE coded == Coded(t, rec, lines, rs)
<1>1. DOMAIN coded = DOMAIN lines
    BY DEF Coded
<1>2. ASSUME NEW c \in DOMAIN lines
      PROVE  IsLine(coded[c]) /\ coded[c].amount = lines[c].amount
    <2> DEFINE code == CodeOf(t, rec, c, rs)
    <2>1. coded[c] = [lines[c] EXCEPT !.code = code]
        BY DEF Coded
    <2> HIDE DEF code, coded
    <2>2. lines[c] = [code |-> lines[c].code, amount |-> lines[c].amount] /\ lines[c].amount \in Int
        BY DEF LinesOf, IsLine
    <2>3. coded[c] = [code |-> code, amount |-> lines[c].amount]
        BY <2>1, <2>2
    <2>4. QED
        BY <2>2, <2>3 DEF IsLine
<1>3. QED
    BY <1>1, <1>2 DEF LinesOf

LEMMA JournalIsRow ==
    ASSUME NEW of, NEW type, NEW day, NEW lines, \A c \in DOMAIN lines : IsLine(lines[c]),
           NEW status \in {"pending_mapping", "posted", "deleted"}, NEW reverses \in Nat
    PROVE  IsRow(Journal(of, type, day, lines, status, reverses))
BY DEF Journal, IsRow

-----------------------------------------------------------------------------
(***************************************************************************)
(* A transaction is booked.                                                *)
(***************************************************************************)
Entry(t, rec, lines, rs) ==
    LET coded == Coded(t, rec, lines, rs)
    IN  Journal(t, TypeOf[t], rec.day, coded,
                IF Complete(coded) THEN "posted" ELSE "pending_mapping", 0)

LEMMA EntrySays ==
    ASSUME NEW t, NEW rec, NEW lines, LinesOf(lines, t, rec.amount), NEW rs
    PROVE  LET entry == Entry(t, rec, lines, rs) IN
           /\ IsRow(entry) /\ entry.of = t /\ entry.reverses = 0
           /\ entry.status \in {"posted", "pending_mapping"}
           /\ Says(entry, t, rec.amount)
<1> DEFINE coded == Coded(t, rec, lines, rs)
           status == IF Complete(coded) THEN "posted" ELSE "pending_mapping"
           entry == Entry(t, rec, lines, rs)
<1>1. LinesOf(coded, t, rec.amount)
    BY CodedLines
<1>2. status \in {"posted", "pending_mapping"}
    OBVIOUS
<1>3. entry = Journal(t, TypeOf[t], rec.day, coded, status, 0)
    BY DEF Entry
<1> HIDE DEF coded, status, entry
<1>4. IsRow(entry)
    BY <1>1, <1>2, <1>3, JournalIsRow DEF LinesOf
<1>5. /\ entry.of = t /\ entry.reverses = 0 /\ entry.status = status /\ entry.lines = coded
    BY <1>3 DEF Journal
<1>6. Says(entry, t, rec.amount)
    BY <1>1, <1>5 DEF Says, LinesOf
<1>7. QED
    BY <1>2, <1>4, <1>5, <1>6 DEF entry

LEMMA NoRowsNoBookings ==
    ASSUME NEW js, NEW t, RowsOf(js, t) = {}
    PROVE  Bookings(js, t) = {} /\ Standing(js, t) = {}
BY DEF Bookings, Standing

LEMMA Booked ==
    ASSUME NEW js, Good(js), NEW t \in Transactions, NEW rec, rec # NoRecord,
           NEW lines, LinesOf(lines, t, rec.amount), NEW rs,
           NEW old, Follows(js, old), NEW recs, recs[t] = rec,
           \A u \in Transactions : u # t => recs[u] = old[u],
           RowsOf(js, t) # {} => old[t] = rec
    PROVE  Good(Book(js, t, rec, lines, rs)) /\ Follows(Book(js, t, rec, lines, rs), recs)
<1> DEFINE new == Book(js, t, rec, lines, rs)
           entry == Entry(t, rec, lines, rs)
<1>1. /\ IsRow(entry) /\ entry.of = t /\ entry.reverses = 0
      /\ entry.status \in {"posted", "pending_mapping"}
      /\ Says(entry, t, rec.amount)
    BY EntrySays
<1>2. new = IF RowsOf(js, t) = {} THEN Append(js, entry)
            ELSE IF Posted(js, t) THEN js
            ELSE [js EXCEPT ![Min(RowsOf(js, t))] = entry]
    BY DEF Book, Entry
<1> HIDE DEF new, entry
<1>3. Shape(js) /\ Chained(js) /\ Len(js) \in Nat /\ DOMAIN js = 1 .. Len(js)
    BY ShapeFacts DEF Good
<1>4. CASE RowsOf(js, t) = {}
    <2>1. Extends(new, js, entry)
        BY <1>1, <1>2, <1>3, <1>4, Appended
    <2>2. Good(new)
        BY <1>1, <1>3, <2>1, ChainedAppended
    <2>3. Standing(js, entry.of) = {}
        BY <1>1, <1>4, NoRowsNoBookings
    <2>4. ASSUME NEW u \in Transactions PROVE FollowsOne(new, u, recs[u])
        <3>1. FollowsOne(js, u, old[u]) /\ (entry.of # u => recs[u] = old[u])
            BY <1>1 DEF Follows
        <3>2. entry.of = u => recs[u] # NoRecord /\ Says(entry, u, recs[u].amount)
            BY <1>1
        <3>3. entry.status # "deleted"
            BY <1>1
        <3>4. QED
            BY <1>1, <2>1, <2>3, <3>1, <3>2, <3>3, BookingAppended
    <2>5. QED
        BY <2>2, <2>4 DEF Follows, new
<1>5. CASE RowsOf(js, t) # {} /\ Posted(js, t)
    <2>1. new = js
        BY <1>2, <1>5
    <2>2. \A u \in Transactions : recs[u] = old[u]
        BY <1>5
    <2>3. QED
        BY <2>1, <2>2 DEF Follows, new
<1>6. CASE RowsOf(js, t) # {} /\ ~Posted(js, t)
    <2> DEFINE k == Min(RowsOf(js, t))
    <2>1. RowsOf(js, t) \subseteq Nat
        BY <1>3 DEF RowsOf
    <2>2. k \in RowsOf(js, t)
        BY <1>6, <2>1, MinIs
    <2>3. js[k].status # "posted"
        BY <1>6 DEF Posted
    <2>4. new = [js EXCEPT ![k] = entry]
        BY <1>2, <1>6
    <2> HIDE DEF k
    <2>5. k \in 1 .. Len(js) /\ js[k].of = t /\ js[k].status # "deleted"
        BY <1>3, <2>2 DEF RowsOf
    <2>6. js[k].status = "pending_mapping" /\ js[k].reverses = 0
        BY <1>3, <2>3, <2>5 DEF Shape, IsRow, Chained
    <2>7. /\ DOMAIN new = DOMAIN js /\ new = [i \in DOMAIN js |-> new[i]]
          /\ new[k] = entry /\ \A i \in 1 .. Len(js) : i # k => new[i] = js[i]
        BY <1>3, <2>4, <2>5
    <2>8. \A i \in 1 .. Len(js) : IsRow(js[i])
        BY <1>3 DEF Shape
    <2>9. \A i \in 1 .. Len(js) : /\ IsRow(new[i])
                                  /\ new[i].of = js[i].of /\ new[i].reverses = js[i].reverses
                                  /\ js[i].status # "pending_mapping" => new[i] = js[i]
        BY <1>1, <2>5, <2>6, <2>7, <2>8
    <2>10. \A i \in 1 .. Len(js) : new[i].status = "deleted" => js[i].status = "deleted"
        BY <1>1, <2>7
    <2>11. /\ Good(new) /\ \A i : Reversed(new, i) <=> Reversed(js, i)
           /\ \A u : /\ Bookings(new, u) \subseteq Bookings(js, u)
                     /\ Standing(new, u) \subseteq Standing(js, u)
        <3> DEFINE Gone == {i \in 1 .. Len(js) : new[i].status = "deleted"}
        <3>1. /\ Good(new)
              /\ \A i : Reversed(new, i) <=> Reversed(js, i)
              /\ \A u : /\ Bookings(new, u) = Bookings(js, u) \ Gone
                        /\ Standing(new, u) = Standing(js, u) \ Gone
            BY <2>7, <2>9, WaitingChanged
        <3> HIDE DEF Gone
        <3>2. QED
            BY <3>1
    <2>12. \A u, i : i \in Standing(js, u) => i \in 1 .. Len(js) /\ js[i].of = u
        BY <1>3, BookingsAre
    <2>13. ASSUME NEW u \in Transactions PROVE FollowsOne(new, u, recs[u])
        <3>1. recs[u] = old[u] /\ FollowsOne(js, u, recs[u])
            BY <1>6 DEF Follows
        <3>2. Ordered(new, u)
            BY <2>11, <3>1 DEF FollowsOne, Ordered
        <3>3. ASSUME NEW i \in Standing(new, u)
              PROVE  recs[u] # NoRecord /\ Says(new[i], u, recs[u].amount)
            <4>1. i \in Standing(js, u) /\ i \in 1 .. Len(js) /\ js[i].of = u
                BY <2>11, <2>12
            <4>2. CASE i = k
                BY <1>1, <2>5, <2>7, <4>1, <4>2
            <4>3. CASE i # k
                BY <2>7, <3>1, <4>1, <4>3 DEF FollowsOne
            <4>4. QED
                BY <4>2, <4>3
        <3>4. QED
            BY <3>2, <3>3 DEF FollowsOne
    <2>14. QED
        BY <2>11, <2>13 DEF Follows, new
<1>7. QED
    BY <1>4, <1>5, <1>6

-----------------------------------------------------------------------------
(***************************************************************************)
(* Rows are taken back.                                                    *)
(***************************************************************************)
LEMMA ReversalIsRow ==
    ASSUME NEW js, Good(js), NEW i \in 1 .. Len(js)
    PROVE  LET row == Reversal(js, i) IN
           IsRow(row) /\ row.reverses = i /\ row.status = "posted" /\ row.of = js[i].of
<1> DEFINE old == js[i].lines
           lines == Negated(old)
           row == Reversal(js, i)
<1>1. IsRow(js[i]) /\ i \in Nat
    BY ShapeFacts DEF Good, Shape
<1>2. \A c \in DOMAIN old : IsLine(old[c])
    BY <1>1 DEF IsRow
<1>3. row = Journal(js[i].of, js[i].type, 0, lines, "posted", i)
    BY DEF Reversal
<1>4. DOMAIN lines = DOMAIN old /\ \A c \in DOMAIN old : lines[c] = [old[c] EXCEPT !.amount = -@]
    BY DEF Negated
<1> HIDE DEF old, lines, row
<1>5. ASSUME NEW c \in DOMAIN lines PROVE IsLine(lines[c])
    <2>1. old[c] = [code |-> old[c].code, amount |-> old[c].amount] /\ old[c].amount \in Int
        BY <1>2, <1>4 DEF IsLine
    <2>2. lines[c] = [code |-> old[c].code, amount |-> -old[c].amount]
        BY <1>4, <2>1
    <2>3. QED
        BY <2>1, <2>2 DEF IsLine
<1>6. IsRow(row)
    BY <1>1, <1>3, <1>5, JournalIsRow
<1>7. row.reverses = i /\ row.status = "posted" /\ row.of = js[i].of
    BY <1>3 DEF Journal
<1>8. QED
    BY <1>6, <1>7 DEF row

\* What follows when fewer rows stand and none is reversed less.
LEMMA FollowsFewer ==
    ASSUME NEW js, NEW new, NEW u, NEW rec, FollowsOne(js, u, rec), Shape(js), Shape(new),
           \A i : i \in Bookings(new, u) => i \in Bookings(js, u),
           \A i : i \in Standing(new, u) => i \in Standing(js, u),
           \A i \in 1 .. Len(js) : Reversed(js, i) => Reversed(new, i),
           \A i \in Standing(new, u) : new[i].lines = js[i].lines
    PROVE  FollowsOne(new, u, rec)
<1>1. \A i : i \in Bookings(js, u) => i \in 1 .. Len(js)
    BY BookingsAre
<1>2. Ordered(new, u)
    <2> SUFFICES ASSUME NEW i \in Bookings(new, u), NEW k \in Bookings(new, u), i < k
                 PROVE  Reversed(new, i)
        BY DEF Ordered
    <2>1. i \in Bookings(js, u) /\ k \in Bookings(js, u) /\ i \in 1 .. Len(js)
        BY <1>1
    <2>2. Reversed(js, i)
        BY <2>1 DEF FollowsOne, Ordered
    <2>3. QED
        BY <2>1, <2>2
<1>3. QED
    BY <1>2 DEF FollowsOne, Says

\* One row is posted at most, and reversing it leaves none.
LEMMA Reversing ==
    ASSUME NEW js, Good(js), NEW recs, Follows(js, recs),
           NEW k \in 1 .. Len(js), js[k].status = "posted",
           NEW row, IsRow(row), row.reverses = k, row.status = "posted"
    PROVE  LET new == Append(js, row) IN
           /\ Good(new) /\ Follows(new, recs) /\ Extends(new, js, row)
           /\ \A u, i : /\ i \in Bookings(new, u) <=> i \in Bookings(js, u)
                        /\ i \in Standing(new, u) <=> i \in Standing(js, u) /\ i # k
<1> DEFINE new == Append(js, row)
<1>1. Shape(js)
    BY DEF Good
<1>2. Extends(new, js, row)
    BY <1>1, Appended
<1> HIDE DEF new
<1>3. /\ Good(new)
      /\ \A u, i : /\ i \in Bookings(new, u) <=> i \in Bookings(js, u)
                   /\ i \in Standing(new, u) <=> i \in Standing(js, u) /\ i # k
      /\ \A i : Reversed(js, i) => Reversed(new, i)
      /\ \A i \in 1 .. Len(js) : new[i] = js[i]
    BY <1>2, ReversalAppended
<1>4. ASSUME NEW u \in Transactions PROVE FollowsOne(new, u, recs[u])
    <2>1. FollowsOne(js, u, recs[u]) /\ Shape(new)
        BY <1>3 DEF Follows, Good
    <2>2. \A i : i \in Standing(js, u) => i \in 1 .. Len(js)
        BY <1>1, BookingsAre
    <2>3. \A i \in Standing(new, u) : new[i].lines = js[i].lines
        BY <1>3, <2>2
    <2>4. QED
        BY <1>1, <1>3, <2>1, <2>3, FollowsFewer
<1>5. QED
    BY <1>2, <1>3, <1>4 DEF Follows, new

\* The last row that books t goes, and with it the last that stands.
LEMMA TakingBack ==
    ASSUME NEW js, Good(js), NEW t \in Transactions, NEW old, Follows(js, old),
           NEW recs, \A u \in Transactions : u # t => recs[u] = old[u],
           NEW k \in Bookings(js, t), \A i \in Standing(js, t) : i = k, ~Reversed(js, k)
    PROVE  Good(TakenBack(js, k)) /\ Follows(TakenBack(js, k), recs)
<1> DEFINE new == TakenBack(js, k)
           row == Reversal(js, k)
<1>1. Shape(js) /\ Chained(js) /\ Len(js) \in Nat /\ DOMAIN js = 1 .. Len(js)
    BY ShapeFacts DEF Good
<1>2. k \in 1 .. Len(js) /\ js[k].of = t /\ js[k].status # "deleted" /\ js[k].reverses = 0
    BY <1>1, BookingsAre
<1>3. new = IF js[k].status = "pending_mapping" THEN [js EXCEPT ![k].status = "deleted"]
            ELSE Append(js, row)
    BY DEF TakenBack
<1>4. IsRow(row) /\ row.reverses = k /\ row.status = "posted"
    BY <1>2, ReversalIsRow
<1> HIDE DEF new, row
<1>5. CASE js[k].status = "posted"
    <2>1. new = Append(js, row)
        BY <1>3, <1>5
    <2>2. /\ Good(new) /\ Follows(new, old)
          /\ \A u, i : i \in Standing(new, u) <=> i \in Standing(js, u) /\ i # k
        BY <1>2, <1>4, <1>5, <2>1, Reversing
    <2>3. ASSUME NEW u \in Transactions PROVE FollowsOne(new, u, recs[u])
        <3>1. FollowsOne(new, u, old[u])
            BY <2>2 DEF Follows
        <3>2. CASE u = t
            <4>1. Standing(new, u) = {}
                BY <2>2, <3>2
            <4>2. QED
                BY <3>1, <4>1 DEF FollowsOne
        <3>3. QED
            BY <3>1, <3>2
    <2>4. QED
        BY <2>2, <2>3 DEF Follows, new
<1>6. CASE js[k].status = "pending_mapping"
    <2>1. new = [js EXCEPT ![k].status = "deleted"]
        BY <1>3, <1>6
    <2>2. \A i \in 1 .. Len(js) : IsRow(js[i])
        BY <1>1 DEF Shape
    <2>3. new[k] = Journal(js[k].of, js[k].type, js[k].day, js[k].lines, "deleted", js[k].reverses)
        <3> DEFINE r == js[k]
        <3>1. r = Journal(r.of, r.type, r.day, r.lines, r.status, r.reverses)
            BY <1>2, <2>2 DEF IsRow
        <3>2. new[k] = [r EXCEPT !.status = "deleted"]
            BY <1>1, <1>2, <2>1
        <3> HIDE DEF r
        <3>3. new[k] = Journal(r.of, r.type, r.day, r.lines, "deleted", r.reverses)
            BY <3>1, <3>2 DEF Journal
        <3>4. QED
            BY <3>3 DEF r
    <2>4. IsRow(new[k])
        <3>1. IsRow(js[k])
            BY <1>2, <2>2
        <3>2. js[k].reverses \in Nat /\ \A c \in DOMAIN js[k].lines : IsLine(js[k].lines[c])
            BY <3>1 DEF IsRow
        <3>3. QED
            BY <2>3, <3>2, JournalIsRow
    <2>5. /\ new[k].of = js[k].of /\ new[k].reverses = js[k].reverses
          /\ new[k].status = "deleted" /\ new[k].lines = js[k].lines
        BY <2>3 DEF Journal
    <2>6. /\ DOMAIN new = DOMAIN js /\ new = [i \in DOMAIN js |-> new[i]]
          /\ \A i \in 1 .. Len(js) : i # k => new[i] = js[i]
        BY <1>1, <2>1
    <2>7. \A i \in 1 .. Len(js) : /\ IsRow(new[i])
                                  /\ new[i].of = js[i].of /\ new[i].reverses = js[i].reverses
                                  /\ js[i].status # "pending_mapping" => new[i] = js[i]
        BY <1>6, <2>2, <2>4, <2>5, <2>6
    <2>8. /\ Good(new) /\ \A i : Reversed(new, i) <=> Reversed(js, i)
          /\ \A u : /\ Bookings(new, u) = Bookings(js, u) \ {i \in 1 .. Len(js) : new[i].status = "deleted"}
                    /\ Standing(new, u) = Standing(js, u) \ {i \in 1 .. Len(js) : new[i].status = "deleted"}
        BY <2>6, <2>7, WaitingChanged
    <2>9. ASSUME NEW u \in Transactions PROVE FollowsOne(new, u, recs[u])
        <3>1. FollowsOne(js, u, old[u]) /\ Shape(new)
            BY <2>8 DEF Follows, Good
        <3>2. \A i : i \in Standing(js, u) => i \in 1 .. Len(js)
            BY <1>1, BookingsAre
        <3>3. \A i \in Standing(new, u) : new[i].lines = js[i].lines
            BY <2>5, <2>6, <2>8, <3>2
        <3>4. FollowsOne(new, u, old[u])
            BY <1>1, <2>8, <3>1, <3>3, FollowsFewer
        <3>5. CASE u = t
            <4>1. Standing(new, u) = {}
                BY <1>2, <2>5, <2>8, <3>5
            <4>2. QED
                BY <3>4, <4>1 DEF FollowsOne
        <3>6. QED
            BY <3>4, <3>5
    <2>10. QED
        BY <2>8, <2>9 DEF Follows, new
<1>7. QED
    BY <1>1, <1>2, <1>5, <1>6 DEF Shape, IsRow

-----------------------------------------------------------------------------
(***************************************************************************)
(* Waiting journals are given accounts.                                    *)
(***************************************************************************)
LEMMA Resolving ==
    ASSUME NEW js, Good(js), NEW recs, Follows(js, recs), NEW rs
    PROVE  LET new == resolvePendingFinancialJournalsTx(js, rs)
           IN  Good(new) /\ Follows(new, recs)
<1> DEFINE new == resolvePendingFinancialJournalsTx(js, rs)
<1>1. Shape(js) /\ Chained(js) /\ Len(js) \in Nat /\ DOMAIN js = 1 .. Len(js)
    BY ShapeFacts DEF Good
<1>2. DOMAIN new = DOMAIN js /\ new = [i \in DOMAIN js |-> new[i]]
    BY DEF resolvePendingFinancialJournalsTx
<1>3. ASSUME NEW i \in 1 .. Len(js)
      PROVE  \/ new[i] = js[i]
             \/ /\ js[i].status = "pending_mapping"
                /\ \/ new[i] = [js[i] EXCEPT !.status = "posted"]
                   \/ new[i] = [js[i] EXCEPT !.lines = [c \in DOMAIN @ |->
                                    IF c \in Unmapped(js, i)
                                    THEN [@[c] EXCEPT !.code = Found(js, i, c, rs)] ELSE @[c]]]
    BY <1>1 DEF resolvePendingFinancialJournalsTx, Waiting
<1> HIDE DEF new
<1>4. ASSUME NEW i \in 1 .. Len(js)
      PROVE  /\ IsRow(new[i])
             /\ new[i].of = js[i].of /\ new[i].reverses = js[i].reverses
             /\ js[i].status # "pending_mapping" => new[i] = js[i]
             /\ new[i].status = "deleted" => js[i].status = "deleted"
             /\ DOMAIN new[i].lines = DOMAIN js[i].lines
             /\ \A c \in DOMAIN js[i].lines : new[i].lines[c].amount = js[i].lines[c].amount
    <2> DEFINE r == js[i]
               q == new[i]
               old == r.lines
               lines == [c \in DOMAIN old |->
                            IF c \in Unmapped(js, i)
                            THEN [old[c] EXCEPT !.code = Found(js, i, c, rs)] ELSE old[c]]
    <2>1. IsRow(r)
        BY <1>1 DEF Shape
    <2>2. r = Journal(r.of, r.type, r.day, old, r.status, r.reverses)
        BY <2>1 DEF IsRow
    <2>3. /\ r.status \in {"pending_mapping", "posted", "deleted"} /\ r.reverses \in Nat
          /\ \A c \in DOMAIN old : IsLine(old[c])
        BY <2>1 DEF IsRow
    <2>4. \/ q = r
          \/ r.status = "pending_mapping" /\ q = [r EXCEPT !.status = "posted"]
          \/ r.status = "pending_mapping" /\ q = [r EXCEPT !.lines = lines]
        BY <1>3
    <2>5. /\ DOMAIN lines = DOMAIN old
          /\ \A c \in DOMAIN old : IsLine(lines[c]) /\ lines[c].amount = old[c].amount
        <3>1. ASSUME NEW c \in DOMAIN old PROVE IsLine(lines[c]) /\ lines[c].amount = old[c].amount
            <4> DEFINE line == old[c]
                       code == Found(js, i, c, rs)
                       next == lines[c]
            <4>1. next = line \/ next = [line EXCEPT !.code = code]
                OBVIOUS
            <4>2. IsLine(line)
                BY <2>3
            <4> HIDE DEF line, code, next
            <4>3. line = [code |-> line.code, amount |-> line.amount] /\ line.amount \in Int
                BY <4>2 DEF IsLine
            <4>4. next = line \/ next = [code |-> code, amount |-> line.amount]
                BY <4>1, <4>3
            <4>5. IsLine(next) /\ next.amount = line.amount
                BY <4>2, <4>3, <4>4 DEF IsLine
            <4>6. QED
                BY <4>5 DEF next, line
        <3>2. QED
            BY <3>1
    <2> HIDE DEF lines
    <2>6. CASE q = r
        BY <2>1, <2>6
    <2>7. CASE r.status = "pending_mapping" /\ q = [r EXCEPT !.status = "posted"]
        <3> HIDE DEF r, q, old
        <3>1. q = Journal(r.of, r.type, r.day, old, "posted", r.reverses)
            BY <2>2, <2>7 DEF Journal
        <3>2. IsRow(q)
            BY <2>3, <3>1, JournalIsRow
        <3>3. q.of = r.of /\ q.reverses = r.reverses /\ q.status = "posted" /\ q.lines = old
            BY <3>1 DEF Journal
        <3>4. QED
            BY <2>7, <3>2, <3>3 DEF r, q, old
    <2>8. CASE r.status = "pending_mapping" /\ q = [r EXCEPT !.lines = lines]
        <3> HIDE DEF r, q, old
        <3>1. q = Journal(r.of, r.type, r.day, lines, r.status, r.reverses)
            BY <2>2, <2>8 DEF Journal
        <3>2. \A c \in DOMAIN lines : IsLine(lines[c])
            BY <2>5
        <3>3. IsRow(q)
            BY <2>3, <3>1, <3>2, JournalIsRow
        <3>4. q.of = r.of /\ q.reverses = r.reverses /\ q.status = r.status /\ q.lines = lines
            BY <3>1 DEF Journal
        <3>5. QED
            BY <2>5, <2>8, <3>3, <3>4 DEF r, q, old
    <2>9. QED
        BY <2>4, <2>6, <2>7, <2>8
<1>5. /\ Good(new) /\ \A i : Reversed(new, i) <=> Reversed(js, i)
      /\ \A u : /\ Bookings(new, u) \subseteq Bookings(js, u)
                /\ Standing(new, u) \subseteq Standing(js, u)
    <2>1. \A i \in 1 .. Len(js) : /\ IsRow(new[i])
                                  /\ new[i].of = js[i].of /\ new[i].reverses = js[i].reverses
                                  /\ js[i].status # "pending_mapping" => new[i] = js[i]
        BY <1>4
    <2>2. /\ Good(new) /\ \A i : Reversed(new, i) <=> Reversed(js, i)
          /\ \A u : /\ Bookings(new, u) = Bookings(js, u) \ {i \in 1 .. Len(js) : new[i].status = "deleted"}
                    /\ Standing(new, u) = Standing(js, u) \ {i \in 1 .. Len(js) : new[i].status = "deleted"}
        BY <1>2, <2>1, WaitingChanged
    <2>3. QED
        BY <2>2
<1>6. ASSUME NEW u \in Transactions PROVE FollowsOne(new, u, recs[u])
    <2>1. FollowsOne(js, u, recs[u])
        BY DEF Follows
    <2>2. \A i \in Standing(new, u) : i \in Standing(js, u) /\ i \in 1 .. Len(js)
        BY <1>1, <1>5, BookingsAre
    <2>3. Ordered(new, u)
        BY <1>5, <2>1 DEF FollowsOne, Ordered
    <2>4. ASSUME NEW i \in Standing(new, u)
          PROVE  recs[u] # NoRecord /\ Says(new[i], u, recs[u].amount)
        <3>1. recs[u] # NoRecord /\ Says(js[i], u, recs[u].amount)
            BY <2>1, <2>2 DEF FollowsOne
        <3>2. QED
            BY <1>4, <2>2, <3>1 DEF Says
    <2>5. QED
        BY <2>3, <2>4 DEF FollowsOne
<1>7. QED
    BY <1>5, <1>6 DEF Follows, new

-----------------------------------------------------------------------------
(***************************************************************************)
(* The backfill: a transaction at a time.                                  *)
(***************************************************************************)
LEMMA HistoricalOrder ==
    /\ Len(SetToSeq(Historical)) \in Nat
    /\ \A n \in 1 .. Len(SetToSeq(Historical)) : SetToSeq(Historical)[n] \in Historical
<1>1. IsFiniteSet(Historical)
    BY LedgerAssumption, FS_Subset DEF Historical
<1>2. Cardinality(Historical) \in Nat /\ ExistsBijection(1 .. Cardinality(Historical), Historical)
    BY <1>1, FS_CardinalityType
<1>3. \E f \in [1 .. Cardinality(Historical) -> Historical] : IsInjective(f)
    BY <1>2 DEF ExistsBijection, Bijection, Injection
<1> DEFINE order == SetToSeq(Historical)
<1>4. order \in [1 .. Cardinality(Historical) -> Historical]
    BY <1>3 DEF SetToSeq
<1> HIDE DEF order
<1>5. order \in Seq(Historical) /\ Len(order) = Cardinality(Historical)
    <2>1. order \in Seq(Historical)
        BY <1>2, <1>4, SeqDef
    <2>2. Len(order) \in Nat /\ 1 .. Len(order) = 1 .. Cardinality(Historical)
        BY <1>4, <2>1, LenProperties
    <2>3. QED
        BY <1>2, <2>1, <2>2
<1>6. QED
    BY <1>2, <1>4, <1>5 DEF order

LEMMA BookedOnce ==
    ASSUME RecordsTypeOK, NEW js, Good(js), Follows(js, records), NEW t \in Historical, NEW rs
    PROVE  LET new == Book(js, t, records[t], HistoricalComponents(t, records[t].amount), rs)
           IN  Good(new) /\ Follows(new, records)
<1>1. t \in Transactions /\ records[t] # NoRecord
    BY DEF Historical, Recorded
<1>2. records[t].amount \in Amounts
    BY <1>1 DEF RecordsTypeOK, NewRecords
<1>3. LinesOf(HistoricalComponents(t, records[t].amount), t, records[t].amount)
    BY <1>1, <1>2, ComponentLines
<1> DEFINE rec == records[t]
           lines == HistoricalComponents(t, rec.amount)
<1>4. LinesOf(lines, t, rec.amount) /\ rec # NoRecord /\ records[t] = rec
    BY <1>1, <1>3
<1> HIDE DEF rec, lines
<1>5. Good(Book(js, t, rec, lines, rs)) /\ Follows(Book(js, t, rec, lines, rs), records)
    BY <1>1, <1>4, Booked
<1>6. QED
    BY <1>5 DEF rec, lines

LEMMA Backfilling ==
    ASSUME RecordsTypeOK, NEW js, Good(js), Follows(js, records), NEW rs
    PROVE  LET new == backfillFinancialJournalsIfNeededTx(js, rs)
           IN  Good(new) /\ Follows(new, records)
<1> DEFINE order == SetToSeq(Historical)
           L == Len(order)
           With(all, t) == Book(all, t, records[t], HistoricalComponents(t, records[t].amount), rs)
           Fine(all) == Good(all) /\ Follows(all, records)
           Step(f, n) == IF n = 0 THEN js ELSE With(f[n - 1], order[n])
           Until(m) == \E f : f = [n \in 0 .. m |-> Step(f, n)]
           booked == CHOOSE f : f = [n \in 0 .. L |-> Step(f, n)]
<1>1. L \in Nat /\ \A n \in 1 .. L : order[n] \in Historical
    BY HistoricalOrder
<1>2. backfillFinancialJournalsTx(js, rs) = booked[L]
    BY DEF backfillFinancialJournalsTx
<1>3. \A all, t : t \in Historical /\ Fine(all) => Fine(With(all, t))
    BY BookedOnce
<1>4. Fine(js)
    OBVIOUS
<1> HIDE DEF order, L, With, Fine
<1>5. Until(0)
    <2> DEFINE f == [n \in 0 .. 0 |-> js]
    <2>1. f = [n \in 0 .. 0 |-> Step(f, n)]
        OBVIOUS
    <2>2. QED
        BY <2>1
<1>6. ASSUME NEW m \in Nat, m # 0, Until(m - 1) PROVE Until(m)
    <2>1. PICK f : f = [n \in 0 .. m - 1 |-> Step(f, n)]
        BY <1>6
    <2> DEFINE g == [n \in 0 .. m |-> IF n = m THEN With(f[m - 1], order[m]) ELSE f[n]]
    <2>2. ASSUME NEW n \in 0 .. m PROVE g[n] = Step(g, n)
        <3>1. CASE n = 0
            BY <2>1, <1>6, <3>1
        <3>2. CASE n # 0
            <4>1. n - 1 \in 0 .. m /\ n - 1 # m
                BY <3>2
            <4>2. g[n - 1] = f[n - 1]
                BY <4>1
            <4>3. CASE n = m
                BY <4>2, <3>2, <4>3
            <4>4. CASE n # m
                <5>1. n \in 0 .. m - 1
                    BY <4>4
                <5>2. f[n] = Step(f, n)
                    BY <2>1, <5>1
                <5>3. QED
                    BY <3>2, <4>2, <4>4, <5>2
            <4>5. QED
                BY <4>3, <4>4
        <3>3. QED
            BY <3>1, <3>2
    <2>3. g = [n \in 0 .. m |-> Step(g, n)]
        <3> DEFINE h == [n \in 0 .. m |-> Step(g, n)]
        <3>1. DOMAIN g = 0 .. m /\ DOMAIN h = 0 .. m /\ \A n \in 0 .. m : g[n] = h[n]
            BY <2>2
        <3>2. g = [n \in 0 .. m |-> g[n]] /\ h = [n \in 0 .. m |-> h[n]]
            OBVIOUS
        <3> HIDE DEF g, h
        <3>3. g = h
            BY <3>1, <3>2
        <3>4. QED
            BY <3>3 DEF h
    <2> HIDE DEF g
    <2>4. QED
        BY <2>3
<1>7. Until(L)
    <2> DEFINE Bad == {m \in Nat : ~Until(m)}
    <2>1. SUFFICES ASSUME L \in Bad PROVE FALSE
        BY <1>1
    <2>2. PICK m \in Bad : \A k \in Bad : m <= k
        <3>1. Bad \subseteq Nat /\ Bad # {}
            BY <2>1
        <3> HIDE DEF Bad
        <3>2. QED
            BY <3>1, LeastNumber
    <2>3. m \in Nat /\ ~Until(m)
        BY <2>2
    <2>4. m # 0
        BY <1>5, <2>3
    <2>5. m - 1 \in Nat /\ ~(m <= m - 1)
        BY <2>3, <2>4
    <2>6. m - 1 \notin Bad
        <3> HIDE DEF Bad
        <3>1. QED
            BY <2>2, <2>5
    <2>7. Until(m - 1)
        BY <2>5, <2>6
    <2>8. QED
        BY <1>6, <2>3, <2>4, <2>7
<1>8. booked = [n \in 0 .. L |-> Step(booked, n)]
    BY <1>7
<1> HIDE DEF booked
<1>9. /\ booked[0] = js
      /\ \A n \in 1 .. L : booked[n] = With(booked[n - 1], order[n])
    <2>1. \A n \in 0 .. L : booked[n] = Step(booked, n)
        BY <1>8
    <2>2. 0 \in 0 .. L /\ \A n \in 1 .. L : n \in 0 .. L /\ n # 0
        BY <1>1
    <2>3. QED
        BY <2>1, <2>2
<1>10. Fine(booked[L])
    <2> DEFINE Bad == {m \in 0 .. L : ~Fine(booked[m])}
    <2>1. SUFFICES ASSUME L \in Bad PROVE FALSE
        BY <1>1
    <2>2. PICK m \in Bad : \A k \in Bad : m <= k
        <3>1. Bad \subseteq Nat /\ Bad # {}
            BY <2>1
        <3> HIDE DEF Bad
        <3>2. QED
            BY <3>1, LeastNumber
    <2>3. m \in 0 .. L /\ ~Fine(booked[m])
        BY <2>2
    <2>4. m # 0
        BY <1>4, <1>9, <2>3
    <2>5. m \in 1 .. L /\ m - 1 \in 0 .. L /\ m - 1 \notin Bad
        BY <1>1, <2>2, <2>3, <2>4
    <2>6. QED
        BY <1>1, <1>3, <1>9, <2>3, <2>5
<1>11. QED
    BY <1>2, <1>4, <1>10 DEF backfillFinancialJournalsIfNeededTx, Fine

-----------------------------------------------------------------------------
(***************************************************************************)
(* A deposit or repayment is corrected.                                    *)
(***************************************************************************)
LEMMA LastStanding ==
    ASSUME NEW js, Good(js), NEW t, Ordered(js, t), Standing(js, t) # {}
    PROVE  LET k == Max(Standing(js, t)) IN
           /\ k \in Standing(js, t) /\ \A i \in Standing(js, t) : i = k
           /\ k \in Bookings(js, t) /\ ~Reversed(js, k)
           /\ k \in 1 .. Len(js) /\ js[k].of = t /\ js[k].reverses = 0
           /\ js[k].status \in {"posted", "pending_mapping"}
<1> DEFINE k == Max(Standing(js, t))
<1>1. Shape(js) /\ Len(js) \in Nat
    BY ShapeFacts DEF Good
<1>2. \A i \in Standing(js, t) :
        /\ i \in Bookings(js, t) /\ ~Reversed(js, i)
        /\ i \in 1 .. Len(js) /\ js[i].of = t /\ js[i].status # "deleted" /\ js[i].reverses = 0
    BY <1>1, BookingsAre
<1>3. Standing(js, t) \subseteq 1 .. Len(js)
    BY <1>2
<1>4. k \in Standing(js, t) /\ \A y \in Standing(js, t) : y <= k
    BY <1>1, <1>3, MaxIs
<1> HIDE DEF k
<1>5. ASSUME NEW i \in Standing(js, t) PROVE i = k
    <2>1. i \in 1 .. Len(js) /\ k \in 1 .. Len(js) /\ i <= k
        BY <1>2, <1>4
    <2>2. ~(i < k)
        BY <1>2, <1>4 DEF Ordered
    <2>3. QED
        BY <2>1, <2>2
<1>6. js[k].status \in {"pending_mapping", "posted", "deleted"}
    BY <1>1, <1>2, <1>4 DEF Shape, IsRow
<1>7. QED
    BY <1>2, <1>4, <1>5, <1>6 DEF k

LEMMA ResizedLines ==
    ASSUME NEW lines, \A c \in DOMAIN lines : IsLine(lines[c]), NEW amount \in Amounts, NEW t
    PROVE  LinesOf(Resized(lines, amount), t, amount)
<1> DEFINE new == Resized(lines, amount)
<1>1. DOMAIN new = DOMAIN lines
    BY DEF Resized
<1>2. ASSUME NEW c \in DOMAIN lines
      PROVE  IsLine(new[c]) /\ new[c].amount \in {amount, -amount}
    <2> DEFINE line == lines[c]
               sized == IF line.amount > 0 THEN amount ELSE -amount
               next == new[c]
    <2>1. next = [line EXCEPT !.amount = sized]
        BY DEF Resized
    <2>2. IsLine(line) /\ amount \in Int
        BY LedgerAssumption
    <2>3. sized \in {amount, -amount}
        OBVIOUS
    <2> HIDE DEF line, sized, next
    <2>4. line = [code |-> line.code, amount |-> line.amount]
        BY <2>2 DEF IsLine
    <2>5. next = [code |-> line.code, amount |-> sized]
        BY <2>1, <2>4
    <2>6. IsLine(next) /\ next.amount \in {amount, -amount}
        BY <2>2, <2>3, <2>5 DEF IsLine
    <2>7. QED
        BY <2>6 DEF next
<1>3. QED
    BY <1>1, <1>2 DEF LinesOf

\* The standing row waits: its lines are written with the new amount.
LEMMA CorrectingWaiting ==
    ASSUME NEW js, Good(js), NEW old, Follows(js, old), NEW t \in Transactions,
           NEW recs, \A u \in Transactions : u # t => recs[u] = old[u],
           recs[t] # NoRecord, recs[t].amount \in Amounts,
           NEW k \in Standing(js, t), \A i \in Standing(js, t) : i = k,
           js[k].status = "pending_mapping",
           NEW day, NEW new,
           new = [js EXCEPT ![k].day = day, ![k].lines = Resized(@, recs[t].amount)]
    PROVE  Good(new) /\ Follows(new, recs)
<1> DEFINE r == js[k]
           lines == Resized(r.lines, recs[t].amount)
           q == new[k]
<1>1. Shape(js) /\ Len(js) \in Nat /\ DOMAIN js = 1 .. Len(js)
    BY ShapeFacts DEF Good
<1>2. k \in 1 .. Len(js) /\ r.of = t
    BY <1>1, BookingsAre
<1>3. \A i \in 1 .. Len(js) : IsRow(js[i])
    BY <1>1 DEF Shape
<1>4. IsRow(r)
    BY <1>2, <1>3
<1>5. /\ r = Journal(r.of, r.type, r.day, r.lines, r.status, r.reverses) /\ r.reverses \in Nat
      /\ r.status = "pending_mapping" /\ \A c \in DOMAIN r.lines : IsLine(r.lines[c])
    BY <1>4 DEF IsRow
<1>6. LinesOf(lines, t, recs[t].amount)
    BY <1>5, ResizedLines
<1>7. /\ DOMAIN new = DOMAIN js /\ new = [i \in DOMAIN js |-> new[i]]
      /\ \A i \in 1 .. Len(js) : i # k => new[i] = js[i]
    BY <1>1
<1>8. q = [r EXCEPT !.day = day, !.lines = lines]
    BY <1>1, <1>2
<1> HIDE DEF r, lines, q
<1>9. q = Journal(r.of, r.type, day, lines, r.status, r.reverses)
    BY <1>5, <1>8 DEF Journal
<1>10. IsRow(q)
    BY <1>5, <1>6, <1>9, JournalIsRow DEF LinesOf
<1>11. /\ q.of = r.of /\ q.reverses = r.reverses /\ q.status = r.status /\ q.lines = lines
    BY <1>9 DEF Journal
<1>12. Says(q, t, recs[t].amount)
    BY <1>6, <1>11 DEF Says, LinesOf
<1>13. \A i \in 1 .. Len(js) : /\ IsRow(new[i])
                               /\ new[i].of = js[i].of /\ new[i].reverses = js[i].reverses
                               /\ js[i].status # "pending_mapping" => new[i] = js[i]
    BY <1>3, <1>7, <1>10, <1>11 DEF r, q
<1>14. /\ Good(new) /\ \A i : Reversed(new, i) <=> Reversed(js, i)
       /\ \A u : /\ Bookings(new, u) = Bookings(js, u) \ {i \in 1 .. Len(js) : new[i].status = "deleted"}
                 /\ Standing(new, u) = Standing(js, u) \ {i \in 1 .. Len(js) : new[i].status = "deleted"}
    <2> DEFINE next == new
    <2>1. /\ DOMAIN next = DOMAIN js /\ next = [i \in DOMAIN js |-> next[i]]
          /\ \A i \in 1 .. Len(js) : /\ IsRow(next[i])
                                     /\ next[i].of = js[i].of /\ next[i].reverses = js[i].reverses
                                     /\ js[i].status # "pending_mapping" => next[i] = js[i]
        BY <1>7, <1>13
    <2> HIDE DEF next
    <2>2. /\ Good(next) /\ \A i : Reversed(next, i) <=> Reversed(js, i)
          /\ \A u : /\ Bookings(next, u) = Bookings(js, u) \ {i \in 1 .. Len(js) : next[i].status = "deleted"}
                    /\ Standing(next, u) = Standing(js, u) \ {i \in 1 .. Len(js) : next[i].status = "deleted"}
        BY <2>1, WaitingChanged
    <2>3. QED
        BY <2>2 DEF next
<1>15. ASSUME NEW u \in Transactions PROVE FollowsOne(new, u, recs[u])
    <2>1. FollowsOne(js, u, old[u])
        BY DEF Follows
    <2>2. Ordered(new, u)
        BY <1>14, <2>1 DEF FollowsOne, Ordered
    <2>3. ASSUME NEW i \in Standing(new, u)
          PROVE  recs[u] # NoRecord /\ Says(new[i], u, recs[u].amount)
        <3>1. i \in Standing(js, u) /\ i \in 1 .. Len(js) /\ js[i].of = u
            <4>1. i \in Standing(js, u)
                BY <1>14
            <4>2. QED
                BY <1>1, <4>1, BookingsAre
        <3>2. CASE u = t
            <4>1. i = k
                BY <3>1, <3>2
            <4>2. QED
                BY <1>12, <3>2, <4>1 DEF q
        <3>3. CASE u # t
            <4>1. i # k
                BY <1>2, <3>1, <3>3 DEF r
            <4>2. new[i] = js[i] /\ recs[u] = old[u]
                BY <1>7, <3>1, <3>3, <4>1
            <4>3. QED
                BY <2>1, <3>1, <4>2 DEF FollowsOne
        <3>4. QED
            BY <3>2, <3>3
    <2>4. QED
        BY <2>2, <2>3 DEF FollowsOne
<1>16. QED
    BY <1>14, <1>15 DEF Follows

LEMMA TwoAppended ==
    ASSUME NEW T, NEW js \in Seq(T), NEW a \in T, NEW b \in T
    PROVE  js \o <<a, b>> = Append(Append(js, a), b)
OBVIOUS

\* The standing row is posted: it is taken back, and another follows.
LEMMA CorrectingPosted ==
    ASSUME NEW js, Good(js), NEW old, Follows(js, old), NEW t \in Transactions,
           NEW recs, \A u \in Transactions : u # t => recs[u] = old[u],
           recs[t] # NoRecord, recs[t].amount \in Amounts,
           NEW k \in Standing(js, t), \A i \in Standing(js, t) : i = k,
           js[k].status = "posted", NEW rec, rec = recs[t]
    PROVE  Good(Corrected(js, k, rec)) /\ Follows(Corrected(js, k, rec), recs)
<1> DEFINE r == js[k]
           back == Reversal(js, k)
           lines == Resized(r.lines, rec.amount)
           row == Journal(r.of, r.type, rec.day, lines, "posted", 0)
           mid == Append(js, back)
           new == Append(mid, row)
<1>1. Shape(js) /\ Len(js) \in Nat
    BY ShapeFacts DEF Good
<1>2. k \in 1 .. Len(js) /\ r.of = t
    BY <1>1, BookingsAre
<1>3. IsRow(back) /\ back.reverses = k /\ back.status = "posted"
    BY <1>2, ReversalIsRow
<1>4. \A c \in DOMAIN r.lines : IsLine(r.lines[c])
    BY <1>1, <1>2 DEF Shape, IsRow
<1>5. LinesOf(lines, t, rec.amount)
    BY <1>4, ResizedLines
<1>6. IsRow(row)
    <2> HIDE DEF r, lines
    <2>1. \A c \in DOMAIN lines : IsLine(lines[c])
        BY <1>5 DEF LinesOf
    <2>2. QED
        BY <2>1, JournalIsRow
<1>7. row.of = t /\ row.reverses = 0 /\ row.status = "posted" /\ row.lines = lines
    BY <1>2 DEF Journal
<1>8. Says(row, t, rec.amount)
    BY <1>5, <1>7 DEF Says, LinesOf
<1>9. Corrected(js, k, rec) = js \o <<back, row>>
    BY DEF Corrected
<1> HIDE DEF back, row, lines, r
<1>10. Corrected(js, k, rec) = new
    <2>1. PICK S : js \in Seq(S)
        BY <1>1 DEF Shape
    <2> DEFINE T == S \cup {back, row}
    <2>2. js \in Seq(T) /\ back \in T /\ row \in T
        BY <2>1
    <2> HIDE DEF T
    <2>3. js \o <<back, row>> = new
        BY <2>2, TwoAppended
    <2>4. QED
        BY <1>9, <2>3
<1>11. js[k].status = "posted"
    OBVIOUS
<1>12. /\ Good(mid) /\ Follows(mid, old)
       /\ \A u, i : i \in Standing(mid, u) <=> i \in Standing(js, u) /\ i # k
    BY <1>2, <1>3, <1>11, Reversing
<1> HIDE DEF mid
<1>13. Standing(mid, t) = {}
    BY <1>12
<1>14. Shape(mid) /\ Len(mid) \in Nat
    BY <1>12, ShapeFacts DEF Good
<1>15. Extends(new, mid, row)
    BY <1>6, <1>14, Appended
<1> HIDE DEF new
<1>16. Good(new)
    <2>1. row.reverses \in 0 .. Len(mid)
        BY <1>7, <1>14
    <2>2. QED
        BY <1>7, <1>12, <1>15, <2>1, ChainedAppended
<1>17. ASSUME NEW u \in Transactions PROVE FollowsOne(new, u, recs[u])
    <2>1. FollowsOne(mid, u, old[u])
        BY <1>12 DEF Follows
    <2>2. row.of = u => recs[u] # NoRecord /\ Says(row, u, recs[u].amount)
        BY <1>7, <1>8
    <2>3. row.of # u => recs[u] = old[u]
        BY <1>7
    <2>4. Standing(mid, row.of) = {} /\ row.status # "deleted"
        BY <1>7, <1>13
    <2>5. QED
        BY <1>7, <1>12, <1>15, <2>1, <2>2, <2>3, <2>4, BookingAppended
<1>18. QED
    BY <1>10, <1>16, <1>17 DEF Follows

-----------------------------------------------------------------------------
(***************************************************************************)
(* Every step keeps the invariant.                                         *)
(***************************************************************************)
LEMMA InitKeeps == LedgerInit(Transactions) => LedgerInvariant
<1> SUFFICES ASSUME LedgerInit(Transactions) PROVE LedgerInvariant
    OBVIOUS
<1>1. RecordsTypeOK
    BY DEF LedgerInit, RecordsTypeOK
<1>2. journals = << >>
    BY DEF LedgerInit
<1>3. Len(journals) = 0 /\ journals \in Seq({})
    BY <1>2
<1>4. Good(journals)
    BY <1>3 DEF Good, Shape, Chained
<1>5. \A t : Bookings(journals, t) = {} /\ Standing(journals, t) = {}
    <2>1. \A t, i : i \notin Bookings(journals, t) /\ i \notin Standing(journals, t)
        BY <1>3, <1>4, BookingsAre DEF Good
    <2>2. QED
        BY <2>1
<1>6. Follows(journals, records)
    BY <1>5 DEF Follows, FollowsOne, Ordered
<1>7. rules = [r \in Rules |-> rules[r]] /\ KeysApart(rules)
    BY DEF LedgerInit, KeysApart, NoRule
<1>8. QED
    BY <1>1, <1>4, <1>6, <1>7 DEF LedgerInvariant

\* What the variables are after a step.
LEMMA Kept ==
    ASSUME NEW js, NEW recs, NEW rs, journals' = js, records' = recs, rules' = rs,
           recs \in [Transactions -> NewRecords \cup {NoRecord}],
           Good(js), Follows(js, recs), rs = [r \in Rules |-> rs[r]], KeysApart(rs)
    PROVE  LedgerInvariant'
<1>1. Good(journals)' /\ Follows(journals, records)'
    BY DEF Good, Shape, Chained, Reversed, Follows, FollowsOne, Ordered, Bookings, Standing, RowsOf
<1>2. RecordsTypeOK'
    BY DEF RecordsTypeOK
<1>3. (rules = [r \in Rules |-> rules[r]])' /\ KeysApart(rules)'
    BY DEF KeysApart
<1>4. QED
    BY <1>1, <1>2, <1>3 DEF LedgerInvariant

\* The record of one transaction is replaced.
LEMMA RecordReplaced ==
    ASSUME RecordsTypeOK, NEW t \in Transactions, NEW rec \in NewRecords \cup {NoRecord}
    PROVE  LET after == [records EXCEPT ![t] = rec] IN
           /\ after \in [Transactions -> NewRecords \cup {NoRecord}]
           /\ after[t] = rec /\ \A u \in Transactions : u # t => after[u] = records[u]
BY DEF RecordsTypeOK

LEMMA RecordKeeps ==
    ASSUME LedgerInvariant, NEW t \in Transactions, NEW rec \in NewRecords, record(t, rec)
    PROVE  LedgerInvariant'
<1>1. RecordsTypeOK /\ Good(journals) /\ Follows(journals, records)
    BY DEF LedgerInvariant
<1>2. rec.amount \in Amounts /\ rec # NoRecord
    BY LedgerAssumption DEF NewRecords, NoRecord
<1> DEFINE lines == Components(t, rec.amount)
           after == [records EXCEPT ![t] = rec]
<1>3. LinesOf(lines, t, rec.amount)
    BY <1>2, ComponentLines
<1>4. /\ journals' = Book(journals, t, rec, lines, rules)
      /\ records' = after /\ rules' = rules
    BY DEF record
<1>5. RowsOf(journals, t) = {}
    BY DEF record, RowsOf
<1>6. /\ after \in [Transactions -> NewRecords \cup {NoRecord}]
      /\ after[t] = rec /\ \A u \in Transactions : u # t => after[u] = records[u]
    BY <1>1, RecordReplaced
<1> HIDE DEF lines, after
<1> DEFINE new == Book(journals, t, rec, lines, rules)
<1>7. Good(new) /\ Follows(new, after)
    BY <1>1, <1>2, <1>3, <1>5, <1>6, Booked
<1>8. rules = [r \in Rules |-> rules[r]] /\ KeysApart(rules)
    BY DEF LedgerInvariant
<1> HIDE DEF new
<1>9. journals' = new
    BY <1>4 DEF new
<1>10. QED
    BY <1>4, <1>6, <1>7, <1>8, <1>9, Kept

LEMMA SavedKeys ==
    ASSUME LedgerInvariant, NEW r \in Rules, NEW key \in RuleKeys, NEW code, NEW active \in BOOLEAN,
           active => \A q \in Rules \ {r} : rules[q].active => ~Overlap(key, rules[q].key)
    PROVE  LET rs == [rules EXCEPT ![r] = [key |-> key, code |-> code, active |-> active]]
           IN  rs = [q \in Rules |-> rs[q]] /\ KeysApart(rs)
<1> DEFINE rs == [rules EXCEPT ![r] = [key |-> key, code |-> code, active |-> active]]
<1>1. rules = [q \in Rules |-> rules[q]] /\ KeysApart(rules)
    BY DEF LedgerInvariant
<1>2. /\ rs = [q \in Rules |-> rs[q]]
      /\ rs[r] = [key |-> key, code |-> code, active |-> active]
      /\ \A q \in Rules \ {r} : rs[q] = rules[q]
    BY <1>1
<1> HIDE DEF rs
<1>3. rs[r].key = key /\ rs[r].active = active
    BY <1>2
<1>4. \A q \in Rules : rs[q].active => rs[q].key \in RuleKeys
    BY <1>1, <1>2, <1>3 DEF KeysApart
<1>5. ASSUME NEW p \in Rules, NEW q \in Rules, p # q, rs[p].active, rs[q].active
      PROVE  ~Overlap(rs[p].key, rs[q].key)
    <2>1. CASE p # r /\ q # r
        BY <1>1, <1>2, <1>5, <2>1 DEF KeysApart
    <2>2. CASE p = r
        <3>1. q \in Rules \ {r} /\ rules[q].active /\ rs[q].key = rules[q].key
            BY <1>2, <1>5, <2>2
        <3>2. QED
            BY <1>3, <1>5, <2>2, <3>1
    <2>3. CASE q = r
        <3>1. p \in Rules \ {r} /\ rules[p].active /\ rs[p].key = rules[p].key
            BY <1>2, <1>5, <2>3
        <3>2. ~Overlap(key, rules[p].key)
            BY <1>3, <1>5, <2>3, <3>1
        <3>3. QED
            BY <1>3, <2>3, <3>1, <3>2 DEF Overlap
    <2>4. QED
        BY <2>1, <2>2, <2>3
<1>6. QED
    BY <1>2, <1>4, <1>5 DEF KeysApart, rs

\* The journals of a page or of a saved rule: backfilled, then given accounts.
LEMMA ShownKeeps ==
    ASSUME LedgerInvariant, NEW rs,
           journals' = resolvePendingFinancialJournalsTx(
                           backfillFinancialJournalsIfNeededTx(journals, rs), rs),
           records' = records, rules' = rs, rs = [q \in Rules |-> rs[q]], KeysApart(rs)
    PROVE  LedgerInvariant'
<1>1. RecordsTypeOK /\ Good(journals) /\ Follows(journals, records)
    BY DEF LedgerInvariant
<1> DEFINE booked == backfillFinancialJournalsIfNeededTx(journals, rs)
<1>2. Good(booked) /\ Follows(booked, records)
    BY <1>1, Backfilling
<1> HIDE DEF booked
<1> DEFINE new == resolvePendingFinancialJournalsTx(booked, rs)
<1>3. Good(new) /\ Follows(new, records)
    BY <1>2, Resolving
<1>4. journals' = new
    BY DEF booked
<1>5. records \in [Transactions -> NewRecords \cup {NoRecord}]
    BY <1>1 DEF RecordsTypeOK
<1> HIDE DEF new
<1>6. QED
    BY <1>3, <1>4, <1>5, Kept

LEMMA SaveKeeps ==
    ASSUME LedgerInvariant, NEW r \in Rules, NEW key \in RuleKeys, NEW code \in Accounts,
           NEW active \in BOOLEAN, saveAccountingMapping(r, key, code, active)
    PROVE  LedgerInvariant'
<1> DEFINE rs == [rules EXCEPT ![r] = [key |-> key, code |-> code, active |-> active]]
<1>1. rs = [q \in Rules |-> rs[q]] /\ KeysApart(rs)
    BY SavedKeys DEF saveAccountingMapping
<1>2. /\ journals' = resolvePendingFinancialJournalsTx(
                         backfillFinancialJournalsIfNeededTx(journals, rs), rs)
      /\ records' = records /\ rules' = rs
    BY DEF saveAccountingMapping
<1> HIDE DEF rs
<1>3. QED
    BY <1>1, <1>2, ShownKeeps

LEMMA EnsureKeeps ==
    ASSUME LedgerInvariant, ensureFinancialJournalsBackfilled
    PROVE  LedgerInvariant'
<1>1. rules = [q \in Rules |-> rules[q]] /\ KeysApart(rules)
    BY DEF LedgerInvariant
<1>2. /\ journals' = resolvePendingFinancialJournalsTx(
                         backfillFinancialJournalsIfNeededTx(journals, rules), rules)
      /\ records' = records /\ rules' = rules
    BY DEF ensureFinancialJournalsBackfilled
<1>3. QED
    BY <1>1, <1>2, ShownKeeps

LEMMA CorrectKeeps ==
    ASSUME LedgerInvariant, NEW t \in Transactions, NEW amount \in Amounts, NEW day \in Days,
           correct(t, amount, day)
    PROVE  LedgerInvariant'
<1> DEFINE rec == [records[t] EXCEPT !.amount = amount, !.day = day]
           after == [records EXCEPT ![t] = rec]
           k == Max(Standing(journals, t))
<1>1. RecordsTypeOK /\ Good(journals) /\ Follows(journals, records)
    BY DEF LedgerInvariant
<1>2. /\ records[t] # NoRecord /\ records' = after /\ rules' = rules
      /\ syncCorrectionJournalTx(t, rec)
    BY DEF correct, Recorded
<1>3. rec \in NewRecords /\ rec.amount = amount /\ rec.amount \in Amounts
    BY <1>1, <1>2 DEF RecordsTypeOK, NewRecords
<1>4. rec # NoRecord
    BY <1>3, LedgerAssumption DEF NoRecord
<1> HIDE DEF rec
<1>5. /\ after \in [Transactions -> NewRecords \cup {NoRecord}]
      /\ after[t] = rec /\ \A u \in Transactions : u # t => after[u] = records[u]
    BY <1>1, <1>3, RecordReplaced
<1> HIDE DEF after
<1>6. \/ /\ RowsOf(journals, t) = {}
         /\ journals' = Book(journals, t, rec, Components(t, rec.amount), rules)
      \/ /\ Standing(journals, t) # {} /\ journals[k].status = "pending_mapping"
         /\ journals' = [journals EXCEPT ![k].day = rec.day, ![k].lines = Resized(@, rec.amount)]
      \/ /\ Standing(journals, t) # {} /\ journals[k].status = "posted"
         /\ journals' = Corrected(journals, k, rec)
    BY <1>2 DEF syncCorrectionJournalTx
<1> HIDE DEF k
<1>7. Ordered(journals, t)
    BY <1>1 DEF Follows, FollowsOne
<1>8. Standing(journals, t) # {} =>
        k \in Standing(journals, t) /\ \A i \in Standing(journals, t) : i = k
    BY <1>1, <1>7, LastStanding DEF k
<1>9. \E new : journals' = new /\ Good(new) /\ Follows(new, after)
    <2>1. CASE /\ RowsOf(journals, t) = {}
               /\ journals' = Book(journals, t, rec, Components(t, rec.amount), rules)
        <3> DEFINE lines == Components(t, rec.amount)
        <3>1. LinesOf(lines, t, rec.amount)
            BY <1>3, ComponentLines
        <3> HIDE DEF lines
        <3>2. Good(Book(journals, t, rec, lines, rules)) /\ Follows(Book(journals, t, rec, lines, rules), after)
            BY <1>1, <1>4, <1>5, <2>1, <3>1, Booked
        <3>3. QED
            BY <2>1, <3>2 DEF lines
    <2>2. CASE /\ Standing(journals, t) # {} /\ journals[k].status = "pending_mapping"
               /\ journals' = [journals EXCEPT ![k].day = rec.day,
                                               ![k].lines = Resized(@, rec.amount)]
        <3> DEFINE new == [journals EXCEPT ![k].day = rec.day,
                                           ![k].lines = Resized(@, after[t].amount)]
        <3>1. after[t] # NoRecord /\ after[t].amount \in Amounts
            BY <1>3, <1>4, <1>5
        <3>2. Good(new) /\ Follows(new, after)
            BY <1>1, <1>5, <1>8, <2>2, <3>1, CorrectingWaiting
        <3>3. journals' = new
            BY <1>5, <2>2
        <3> HIDE DEF new
        <3>4. QED
            BY <3>2, <3>3
    <2>3. CASE /\ Standing(journals, t) # {} /\ journals[k].status = "posted"
               /\ journals' = Corrected(journals, k, rec)
        <3>1. after[t] # NoRecord /\ after[t].amount \in Amounts
            BY <1>3, <1>4, <1>5
        <3>2. Good(Corrected(journals, k, rec)) /\ Follows(Corrected(journals, k, rec), after)
            BY <1>1, <1>5, <1>8, <2>3, <3>1, CorrectingPosted
        <3>3. QED
            BY <2>3, <3>2
    <2>4. QED
        BY <1>6, <2>1, <2>2, <2>3
<1>10. rules = [q \in Rules |-> rules[q]] /\ KeysApart(rules)
    BY DEF LedgerInvariant
<1>11. QED
    BY <1>2, <1>5, <1>9, <1>10, Kept

\* The record of t goes with the last row that stands for it.
LEMMA RemovedKeeps ==
    ASSUME LedgerInvariant, NEW t \in Transactions, NEW new, Good(new),
           Follows(new, [records EXCEPT ![t] = NoRecord]), journals' = new,
           records' = [records EXCEPT ![t] = NoRecord], rules' = rules
    PROVE  LedgerInvariant'
<1> DEFINE after == [records EXCEPT ![t] = NoRecord]
<1>1. after \in [Transactions -> NewRecords \cup {NoRecord}]
    BY DEF LedgerInvariant, RecordsTypeOK
<1>2. Follows(new, after) /\ records' = after
    OBVIOUS
<1>3. rules = [q \in Rules |-> rules[q]] /\ KeysApart(rules)
    BY DEF LedgerInvariant
<1> HIDE DEF after
<1>4. QED
    BY <1>1, <1>2, <1>3, Kept

LEMMA RemoveSavingKeeps ==
    ASSUME LedgerInvariant, NEW t \in Transactions, removeSavingByID(t)
    PROVE  LedgerInvariant'
<1> DEFINE rec == records[t]
           lines == Components(t, rec.amount)
           none == RowsOf(journals, t) = {}
           booked == IF none THEN Book(journals, t, rec, lines, rules) ELSE journals
           after == [records EXCEPT ![t] = NoRecord]
           k == Max(Bookings(booked, t))
<1>1. RecordsTypeOK /\ Good(journals) /\ Follows(journals, records)
    BY DEF LedgerInvariant
<1>2. /\ rec # NoRecord /\ Bookings(booked, t) # {}
      /\ journals' = prepareSavingJournalForRemovalTx(t, booked)
      /\ records' = after /\ rules' = rules
    BY DEF removeSavingByID, Recorded
<1>3. rec.amount \in Amounts
    BY <1>1, <1>2 DEF RecordsTypeOK, NewRecords
<1>4. LinesOf(lines, t, rec.amount)
    BY <1>3, ComponentLines
<1>5. records[t] = rec
    OBVIOUS
<1>6. after[t] = NoRecord /\ \A u \in Transactions : u # t => after[u] = records[u]
    BY <1>1 DEF RecordsTypeOK
<1>7. journals' = IF Reversed(booked, k) THEN booked ELSE TakenBack(booked, k)
    BY <1>2 DEF prepareSavingJournalForRemovalTx
<1> HIDE DEF rec, lines, after, k
<1>8. Good(booked) /\ Follows(booked, records)
    <2> DEFINE new == Book(journals, t, rec, lines, rules)
    <2>1. Good(new) /\ Follows(new, records)
        BY <1>1, <1>2, <1>4, <1>5, Booked
    <2> HIDE DEF new
    <2>2. booked = new \/ booked = journals
        BY DEF new
    <2>3. QED
        BY <1>1, <2>1, <2>2
<1> HIDE DEF booked
<1>9. Shape(booked) /\ Len(booked) \in Nat
    BY <1>8, ShapeFacts DEF Good
<1>10. /\ k \in Bookings(booked, t)
       /\ \A i \in Bookings(booked, t) : i \in 1 .. Len(booked) /\ i <= k
    <2>1. \A i \in Bookings(booked, t) : i \in 1 .. Len(booked)
        BY <1>9, BookingsAre
    <2>2. Bookings(booked, t) \subseteq 1 .. Len(booked)
        BY <2>1
    <2>3. k \in Bookings(booked, t) /\ \A i \in Bookings(booked, t) : i <= k
        BY <1>2, <1>9, <2>2, MaxIs DEF k
    <2>4. QED
        BY <2>1, <2>3
<1>11. \A i \in Standing(booked, t) : i = k
    <2> SUFFICES ASSUME NEW i \in Standing(booked, t) PROVE i = k
        OBVIOUS
    <2>1. i \in Bookings(booked, t) /\ ~Reversed(booked, i)
        BY <1>9, BookingsAre
    <2>2. FollowsOne(booked, t, records[t])
        BY <1>8 DEF Follows
    <2>3. i \in 1 .. Len(booked) /\ k \in 1 .. Len(booked) /\ i <= k
        BY <1>10, <2>1
    <2>4. ~(i < k)
        BY <1>10, <2>1, <2>2 DEF FollowsOne, Ordered
    <2>5. QED
        BY <2>3, <2>4
<1>12. \E new : journals' = new /\ Good(new) /\ Follows(new, after)
    <2>1. CASE Reversed(booked, k)
        <3>1. ASSUME NEW i \in Standing(booked, t) PROVE FALSE
            <4>1. i = k /\ ~Reversed(booked, i)
                BY <1>9, <1>11, BookingsAre
            <4>2. QED
                BY <2>1, <4>1
        <3>2. ASSUME NEW u \in Transactions PROVE FollowsOne(booked, u, after[u])
            BY <1>6, <1>8, <3>1 DEF Follows, FollowsOne
        <3>3. QED
            BY <1>7, <1>8, <2>1, <3>2 DEF Follows
    <2>2. CASE ~Reversed(booked, k)
        <3>1. Good(TakenBack(booked, k)) /\ Follows(TakenBack(booked, k), after)
            BY <1>6, <1>8, <1>10, <1>11, <2>2, TakingBack
        <3>2. QED
            BY <1>7, <2>2, <3>1
    <2>3. QED
        BY <2>1, <2>2
<1>13. QED
    BY <1>2, <1>12, RemovedKeeps DEF after

LEMMA RemoveRepaymentKeeps ==
    ASSUME LedgerInvariant, NEW t \in Transactions, removeRepaymentByID(t)
    PROVE  LedgerInvariant'
<1> DEFINE after == [records EXCEPT ![t] = NoRecord]
           k == Max(Standing(journals, t))
<1>1. RecordsTypeOK /\ Good(journals) /\ Follows(journals, records)
    BY DEF LedgerInvariant
<1>2. /\ \/ RowsOf(journals, t) = {} /\ journals' = journals
         \/ Standing(journals, t) # {} /\ journals' = TakenBack(journals, k)
      /\ records' = after /\ rules' = rules
    BY DEF removeRepaymentByID
<1>3. after[t] = NoRecord /\ \A u \in Transactions : u # t => after[u] = records[u]
    BY <1>1 DEF RecordsTypeOK
<1>4. Ordered(journals, t)
    BY <1>1 DEF Follows, FollowsOne
<1>5. Standing(journals, t) # {} =>
        /\ k \in Bookings(journals, t) /\ ~Reversed(journals, k)
        /\ \A i \in Standing(journals, t) : i = k
    BY <1>1, <1>4, LastStanding
<1> HIDE DEF after, k
<1>6. \E new : journals' = new /\ Good(new) /\ Follows(new, after)
    <2>1. CASE RowsOf(journals, t) = {} /\ journals' = journals
        <3>1. Standing(journals, t) = {}
            BY <2>1, NoRowsNoBookings
        <3>2. ASSUME NEW u \in Transactions PROVE FollowsOne(journals, u, after[u])
            BY <1>1, <1>3, <3>1 DEF Follows, FollowsOne
        <3>3. QED
            BY <1>1, <2>1, <3>2 DEF Follows
    <2>2. CASE Standing(journals, t) # {} /\ journals' = TakenBack(journals, k)
        <3>1. Good(TakenBack(journals, k)) /\ Follows(TakenBack(journals, k), after)
            BY <1>1, <1>3, <1>5, <2>2, TakingBack
        <3>2. QED
            BY <2>2, <3>1
    <2>3. QED
        BY <1>2, <2>1, <2>2
<1>7. QED
    BY <1>2, <1>6, RemovedKeeps DEF after

LEMMA ReverseKeeps ==
    ASSUME LedgerInvariant, NEW i \in DOMAIN journals, reverseFinancialJournal(i)
    PROVE  LedgerInvariant'
<1> DEFINE back == Reversal(journals, i)
           row == [back EXCEPT !.of = NoTransaction, !.type = "manual"]
           new == Append(journals, row)
<1>1. RecordsTypeOK /\ Good(journals) /\ Follows(journals, records)
    BY DEF LedgerInvariant
<1>2. i \in 1 .. Len(journals)
    BY <1>1, ShapeFacts DEF Good
<1>3. /\ journals[i].status = "posted" /\ journals' = new
      /\ records' = records /\ rules' = rules
    BY DEF reverseFinancialJournal, MayReverse
<1>4. IsRow(back) /\ back.reverses = i /\ back.status = "posted"
    BY <1>1, <1>2, ReversalIsRow
<1> HIDE DEF back
<1>5. back = Journal(back.of, back.type, back.day, back.lines, back.status, back.reverses)
    BY <1>4 DEF IsRow
<1>6. row = Journal(NoTransaction, "manual", back.day, back.lines, back.status, back.reverses)
    <2>1. row = [back EXCEPT !.of = NoTransaction, !.type = "manual"]
        OBVIOUS
    <2> HIDE DEF row
    <2>2. QED
        BY <1>5, <2>1 DEF Journal
<1>7. \A c \in DOMAIN back.lines : IsLine(back.lines[c])
    BY <1>4 DEF IsRow
<1>8. IsRow(row) /\ row.reverses = i /\ row.status = "posted"
    <2> HIDE DEF row
    <2>1. i \in Nat
        BY <1>1, <1>2, ShapeFacts DEF Good
    <2>2. row = Journal(NoTransaction, "manual", back.day, back.lines, "posted", i)
        BY <1>4, <1>6
    <2>3. IsRow(Journal(NoTransaction, "manual", back.day, back.lines, "posted", i))
        BY <1>7, <2>1, JournalIsRow
    <2>4. IsRow(row)
        BY <2>2, <2>3
    <2>5. QED
        BY <2>2, <2>4 DEF Journal
<1> HIDE DEF row
<1>9. Good(new) /\ Follows(new, records)
    BY <1>1, <1>2, <1>3, <1>8, Reversing
<1>10. records \in [Transactions -> NewRecords \cup {NoRecord}]
    BY <1>1 DEF RecordsTypeOK
<1>11. rules = [q \in Rules |-> rules[q]] /\ KeysApart(rules)
    BY DEF LedgerInvariant
<1> HIDE DEF new
<1>12. QED
    BY <1>3, <1>9, <1>10, <1>11, Kept

LEMMA UnchangedKeeps ==
    ASSUME LedgerInvariant, UNCHANGED <<records, journals, rules>>
    PROVE  LedgerInvariant'
<1>1. /\ records \in [Transactions -> NewRecords \cup {NoRecord}]
      /\ Good(journals) /\ Follows(journals, records)
      /\ rules = [q \in Rules |-> rules[q]] /\ KeysApart(rules)
    BY DEF LedgerInvariant, RecordsTypeOK
<1>2. QED
    BY <1>1, Kept

LEMMA StepKeeps ==
    ASSUME LedgerInvariant, [LedgerNext]_ledgerVars
    PROVE  LedgerInvariant'
<1>1. CASE UNCHANGED ledgerVars
    BY <1>1, UnchangedKeeps DEF ledgerVars
<1>2. ASSUME NEW t \in Transactions, NEW rec \in NewRecords, record(t, rec)
      PROVE  LedgerInvariant'
    BY <1>2, RecordKeeps
<1>3. ASSUME NEW r \in Rules, NEW key \in RuleKeys, NEW code \in Accounts, NEW active \in BOOLEAN,
             saveAccountingMapping(r, key, code, active)
      PROVE  LedgerInvariant'
    BY <1>3, SaveKeeps
<1>4. CASE ensureFinancialJournalsBackfilled
    BY <1>4, EnsureKeeps
<1>5. ASSUME NEW t \in Transactions, NEW amount \in Amounts, NEW day \in Days,
             correctSavingByID(t, amount, day) \/ correctRepaymentByID(t, amount, day)
      PROVE  LedgerInvariant'
    BY <1>5, CorrectKeeps DEF correctSavingByID, correctRepaymentByID
<1>6. ASSUME NEW t \in Transactions, removeSavingByID(t) \/ removeRepaymentByID(t)
      PROVE  LedgerInvariant'
    BY <1>6, RemoveSavingKeeps, RemoveRepaymentKeeps
<1>7. ASSUME NEW i \in DOMAIN journals, reverseFinancialJournal(i)
      PROVE  LedgerInvariant'
    BY <1>7, ReverseKeeps
<1>8. ASSUME NEW a \in Accounts, switchAccount(a) PROVE LedgerInvariant'
    BY <1>8, UnchangedKeeps DEF switchAccount
<1>9. QED
    BY <1>1, <1>2, <1>3, <1>4, <1>5, <1>6, <1>7, <1>8 DEF LedgerNext

\* The invariant above holds in every state of the ledger.
THEOREM LedgerInvariantHolds == LedgerSpec => []LedgerInvariant
<1>1. LedgerInit(Transactions) => LedgerInvariant
    BY InitKeeps
<1>2. LedgerInvariant /\ [LedgerNext]_ledgerVars => LedgerInvariant'
    BY StepKeeps
<1>3. QED
    BY <1>1, <1>2, PTL DEF LedgerSpec

LEMMA FollowingIsEnough == LedgerInvariant => JournalsFollowRecords
<1> SUFFICES ASSUME LedgerInvariant, NEW t \in Transactions
             PROVE  /\ Cardinality(Standing(journals, t)) <= 1
                    /\ \A i \in Standing(journals, t) :
                        /\ Recorded(t)
                        /\ \A c \in DOMAIN journals[i].lines :
                            LET same == records[t].amount IN
                            TypeOf[t] # "loan" => journals[i].lines[c].amount \in {same, -same}
    BY DEF JournalsFollowRecords
<1>1. Good(journals) /\ FollowsOne(journals, t, records[t])
    BY DEF LedgerInvariant, Follows
<1>2. Cardinality(Standing(journals, t)) <= 1
    <2>1. CASE Standing(journals, t) = {}
        BY <2>1, FS_EmptySet
    <2>2. CASE Standing(journals, t) # {}
        <3>1. PICK k : k \in Standing(journals, t) /\ \A i \in Standing(journals, t) : i = k
            BY <1>1, <2>2, LastStanding DEF FollowsOne
        <3>2. Standing(journals, t) = {k}
            BY <3>1
        <3>3. QED
            BY <3>2, FS_Singleton
    <2>3. QED
        BY <2>1, <2>2
<1>3. QED
    BY <1>1, <1>2 DEF FollowsOne, Says, Recorded

\* Of every deposit, repayment, withdrawal, loan and fee at most one journal
\* stands, with the amount of its row, and none when the row is removed, however
\* many corrections, removals, reversals by hand and backfills went before
\* (accounting.go:522, saving_corrections.go:339, repayment_corrections.go:557).
THEOREM JournalsFollowRecordsHolds == LedgerSpec => []JournalsFollowRecords
BY LedgerInvariantHolds, FollowingIsEnough, PTL

\* For any rules and dates: no two active rules of one detail apply to a line
\* on one day (accounting_mappings.go:164).
THEOREM RulesDisjointHolds == LedgerSpec => []RulesDisjoint
<1>1. LedgerInvariant => RulesDisjoint
    <2> SUFFICES ASSUME LedgerInvariant, NEW q \in Rules, NEW r \in Rules, NEW k \in RuleKeys,
                        NEW day \in {l.from : l \in RuleKeys},
                        Applies(rules[q], k.type, k.component, k.detail, day),
                        Applies(rules[r], k.type, k.component, k.detail, day),
                        rules[q].key.detail = rules[r].key.detail, q # r
                 PROVE  FALSE
        BY DEF RulesDisjoint
    <2>1. /\ rules[q].active /\ rules[r].active
          /\ rules[q].key.type = rules[r].key.type
          /\ rules[q].key.component = rules[r].key.component
          /\ rules[q].key.from <= day /\ day <= rules[q].key.to
          /\ rules[r].key.from <= day /\ day <= rules[r].key.to
        BY DEF Applies
    <2>2. rules[q].key \in RuleKeys /\ rules[r].key \in RuleKeys
        BY <2>1 DEF LedgerInvariant, KeysApart
    <2>3. /\ day \in Nat
          /\ rules[q].key.from \in Nat /\ rules[q].key.to \in Nat
          /\ rules[r].key.from \in Nat /\ rules[r].key.to \in Nat
        BY <2>2, LedgerAssumption
    <2>4. Overlap(rules[q].key, rules[r].key)
        BY <2>1, <2>3 DEF Overlap
    <2>5. QED
        BY <2>1, <2>4 DEF LedgerInvariant, KeysApart
<1>2. QED
    BY <1>1, LedgerInvariantHolds, PTL

=============================================================================
