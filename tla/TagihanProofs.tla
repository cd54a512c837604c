--------------------------- MODULE TagihanProofs ----------------------------
(***************************************************************************)
(* Monthly deductions from the payroll, for any members, loans, files,     *)
(* tokens and months: the statement, the sheet and the review bill the     *)
(* same, what is confirmed is what was shown, and it is collected once     *)
(* and when it is due.                                                     *)
(*                                                                         *)
(* What a token shows is a function of its file, of the fingerprint of the *)
(* state it was made from, and of what never changes of members and loans  *)
(* (ShownFrom); with that the rest is about one confirmation.              *)
(***************************************************************************)
EXTENDS Tagihan, LoanProofs

\* The rows of a finite set in some order: each once.
LEMMA SeqOfSet ==
    ASSUME NEW S, IsFiniteSet(S), NEW q, q = SetToSeq(S)
    PROVE  /\ Cardinality(S) \in Nat /\ Len(q) = Cardinality(S)
           /\ q \in [1 .. Len(q) -> S]
           /\ \A x, y \in 1 .. Len(q) : q[x] = q[y] => x = y
           /\ \A s \in S : \E k \in 1 .. Len(q) : q[k] = s
<1> DEFINE n   == Cardinality(S)
           dom == 1 .. n
<1>1. n \in Nat /\ ExistsBijection(dom, S)
    BY FS_CardinalityType
<1>2. PICK h : h \in [dom -> S] /\ IsInjective(h)
    BY <1>1 DEF ExistsBijection, Bijection, Injection
<1>3. q \in [dom -> S] /\ IsInjective(q)
    BY <1>2 DEF SetToSeq
<1>4. IsFiniteSet(dom) /\ Cardinality(dom) = n
    <2> HIDE DEF n
    <2>1. QED
        BY <1>1, FS_Interval
<1> HIDE DEF n
<1>5. Len(q) = n
    <2>1. q \in Seq(S) /\ DOMAIN q = 1 .. n
        BY <1>1, <1>3, FunctionIsSequence
    <2>2. DOMAIN q = 1 .. Len(q) /\ Len(q) \in Nat
        BY <2>1, LenProperties
    <2>3. QED
        BY <1>1, <2>1, <2>2
<1>6. q \in Injection(dom, S)
    <2> HIDE DEF dom
    <2>1. QED
        BY <1>3 DEF Injection
<1>7. q \in Surjection(dom, S)
    <2> HIDE DEF dom
    <2>1. Cardinality(dom) = Cardinality(S)
        BY <1>4 DEF n
    <2>2. QED
        BY <1>4, <1>6, <2>1, FS_Injection
<1>8. \A x, y \in dom : q[x] = q[y] => x = y
    BY <1>3 DEF IsInjective
<1>9. \A s \in S : \E k \in dom : q[k] = s
    BY <1>7 DEF Surjection
<1>10. QED
    BY <1>1, <1>3, <1>5, <1>8, <1>9 DEF n

\* Items are filed one by one in rows that were free.
Filing(into, S, items, free) ==
    /\ \A x, y \in S : into[x] = into[y] => x = y
    /\ {free[k] : k \in 1 .. Len(items)} = {into[x] : x \in S}
    /\ \A x \in S :
          LET k == CHOOSE k \in 1 .. Len(items) : free[k] = into[x] IN
          k \in 1 .. Len(items) /\ items[k] = x

\* Rows that are written one after the other into free places: each into a place of its
\* own.
LEMMA Filed ==
    ASSUME NEW S, IsFiniteSet(S), NEW T, IsFiniteSet(T),
           NEW items, items = SetToSeq(S), NEW free, free = SetToSeq(T),
           Len(items) <= Len(free)
    PROVE  \E into \in [S -> T] : Filing(into, S, items, free)
<1>1. /\ Len(items) \in Nat /\ items \in [1 .. Len(items) -> S]
      /\ \A x, y \in 1 .. Len(items) : items[x] = items[y] => x = y
      /\ \A s \in S : \E k \in 1 .. Len(items) : items[k] = s
    BY SeqOfSet
<1>2. /\ Len(free) \in Nat /\ free \in [1 .. Len(free) -> T]
      /\ \A x, y \in 1 .. Len(free) : free[x] = free[y] => x = y
    BY SeqOfSet
<1> DEFINE n     == Len(items)
           At(x) == CHOOSE k \in 1 .. n : items[k] = x
           into  == [x \in S |-> free[At(x)]]
<1>3. 1 .. n \subseteq 1 .. Len(free)
    BY <1>1, <1>2
<1>4. \A x \in S : At(x) \in 1 .. n /\ items[At(x)] = x
    BY <1>1
<1> HIDE DEF At, n
<1>5. \A x \in S : free[At(x)] \in T /\ At(x) \in 1 .. Len(free)
    BY <1>2, <1>3, <1>4
<1>6. into \in [S -> T]
    BY <1>5
<1>7. \A k \in 1 .. n : items[k] \in S /\ At(items[k]) = k
    <2>1. \A k \in 1 .. n : items[k] \in S
        BY <1>1 DEF n
    <2>2. QED
        BY <1>1, <1>4, <2>1 DEF n
<1>8. \A x, y \in S : into[x] = into[y] => x = y
    BY <1>2, <1>4, <1>5
<1>9. {free[k] : k \in 1 .. n} = {into[x] : x \in S}
    BY <1>4, <1>7
<1>10. ASSUME NEW x \in S
       PROVE  (CHOOSE k \in 1 .. n : free[k] = into[x]) = At(x)
    <2>1. At(x) \in 1 .. n /\ free[At(x)] = into[x]
        BY <1>4
    <2>2. \A k \in 1 .. n : free[k] = into[x] => k = At(x)
        BY <1>2, <1>3, <2>1
    <2>3. QED
        BY <2>1, <2>2
<1> HIDE DEF into
<1>11. Filing(into, S, items, free)
    BY <1>4, <1>8, <1>9, <1>10 DEF Filing, n
<1>12. QED
    BY <1>6, <1>11

-----------------------------------------------------------------------------
(***************************************************************************)
(* The loans of a confirmed file: what it collects and what it suspends.   *)
(***************************************************************************)
\* Amounts for some of the loans.
Collects(payments) ==
    /\ DOMAIN payments \subseteq LoanIds
    /\ \A l \in DOMAIN payments : payments[l] \in Nat \ {0}

\* Each loan that pays has a repayment of its own, in a row that was free.
PaidInto(into, f, payments) ==
    /\ \A k, l \in DOMAIN payments : into[k] = into[l] => k = l
    /\ \A l \in DOMAIN payments :
          /\ into[l] \in RepaymentIds
          /\ repayments[into[l]].status = "none"
          /\ repayments'[into[l]] = [status |-> "recorded", loan |-> l, amount |-> payments[l]]
          /\ references'[into[l]] = f.month
    /\ \A r \in RepaymentIds : (\A l \in DOMAIN payments : into[l] # r) =>
          repayments'[r] = repayments[r] /\ references'[r] = references[r]
    /\ repayments' = [r \in RepaymentIds |-> repayments'[r]]
    /\ references' = [r \in RepaymentIds |-> references'[r]]

\* recordPayments writes one new repayment for each payment, and no other one.
LEMMA PaymentRows ==
    ASSUME NEW f, NEW payments, Collects(payments), NEW new, recordPayments(f, payments, new)
    PROVE  \E into : PaidInto(into, f, payments)
<1> DEFINE S     == DOMAIN payments
           T     == {r \in RepaymentIds : repayments[r].status = "none"}
           items == SetToSeq(S)
           free  == FreeRepayments
           ids   == {free[k] : k \in 1 .. Len(items)}
           Nth(r) == CHOOSE k \in 1 .. Len(items) : free[k] = r
<1>1. IsFiniteSet(S) /\ IsFiniteSet(T)
    <2>1. S \subseteq LoanIds /\ T \subseteq RepaymentIds
        BY DEF Collects
    <2>2. QED
        BY <2>1, LoansAssumption, FS_Subset
<1>2. /\ Len(items) <= Len(free) /\ free = SetToSeq(T)
      /\ repayments' = [r \in RepaymentIds |->
            IF r \notin ids THEN repayments[r]
            ELSE [status |-> "recorded", loan |-> items[Nth(r)], amount |-> payments[items[Nth(r)]]]]
      /\ references' = [r \in RepaymentIds |-> IF r \in ids THEN f.month ELSE references[r]]
    BY DEF recordPayments, FreeRepayments
<1> HIDE DEF free, T, items, S
<1>3. PICK into \in [S -> T] : Filing(into, S, items, free)
    BY <1>1, <1>2, Filed DEF items
<1>4. /\ \A x, y \in S : into[x] = into[y] => x = y
      /\ ids = {into[x] : x \in S}
      /\ \A x \in S : items[Nth(into[x])] = x
    BY <1>3 DEF Filing
<1> HIDE DEF ids, Nth
<1>5. \A x \in S : into[x] \in RepaymentIds /\ repayments[into[x]].status = "none" /\ into[x] \in ids
    BY <1>3, <1>4 DEF T
<1>6. \A x \in S :
          /\ repayments'[into[x]] = [status |-> "recorded", loan |-> x, amount |-> payments[x]]
          /\ references'[into[x]] = f.month
    BY <1>2, <1>4, <1>5
<1>7. \A r \in RepaymentIds : (\A x \in S : into[x] # r) =>
          repayments'[r] = repayments[r] /\ references'[r] = references[r]
    BY <1>2, <1>4
<1>8. /\ repayments' = [r \in RepaymentIds |-> repayments'[r]]
      /\ references' = [r \in RepaymentIds |-> references'[r]]
    BY <1>2
<1>9. PaidInto(into, f, payments)
    BY <1>4, <1>5, <1>6, <1>7, <1>8 DEF PaidInto, S
<1>10. QED
    BY <1>9

\* What was paid on each loan grows by its payment in the file.
LEMMA CollectedTotals ==
    ASSUME HistoryInvariant, NEW f, NEW payments, Collects(payments),
           NEW into, PaidInto(into, f, payments)
    PROVE  /\ repayments' \in RepaymentTables
           /\ \A l \in LoanIds :
                 TotalFor(repayments', l) = TotalFor(repayments, l)
                     + (IF l \in DOMAIN payments THEN payments[l] ELSE 0)
<1> DEFINE rows == repayments'
           paid == DOMAIN payments
<1>1. repayments \in RepaymentTables /\ paid \subseteq LoanIds
    BY DEF HistoryInvariant, HistoryOK, Collects
<1>2. /\ \A k \in paid :
            /\ payments[k] \in Nat
            /\ into[k] \in RepaymentIds /\ repayments[into[k]].status = "none"
            /\ rows[into[k]] = [status |-> "recorded", loan |-> k, amount |-> payments[k]]
      /\ \A r \in RepaymentIds : (\A k \in paid : into[k] # r) => rows[r] = repayments[r]
      /\ rows = [r \in RepaymentIds |-> rows[r]]
      /\ \A k, l \in paid : into[k] = into[l] => k = l
    BY DEF PaidInto, Collects
<1> HIDE DEF rows, paid
<1>3. \A k \in paid : /\ rows[into[k]] \in RepaymentRows /\ rows[into[k]].status = "recorded"
                      /\ rows[into[k]].loan = k /\ rows[into[k]].amount = payments[k]
    <2>1. ASSUME NEW k \in paid
          PROVE  /\ rows[into[k]] \in RepaymentRows /\ rows[into[k]].status = "recorded"
                 /\ rows[into[k]].loan = k /\ rows[into[k]].amount = payments[k]
        <3> DEFINE new == [status |-> "recorded", loan |-> k, amount |-> payments[k]]
        <3>1. k \in LoanIds /\ payments[k] \in Nat /\ rows[into[k]] = new
            BY <1>1, <1>2
        <3>2. new \in RepaymentRows
            BY <3>1 DEF RepaymentRows
        <3>3. new.status = "recorded" /\ new.loan = k /\ new.amount = payments[k]
            OBVIOUS
        <3> HIDE DEF new
        <3>4. QED
            BY <3>1, <3>2, <3>3
    <2>2. QED
        BY <2>1
<1>4. rows \in RepaymentTables
    <2>1. ASSUME NEW r \in RepaymentIds PROVE rows[r] \in RepaymentRows \cup {NoRepayment}
        <3>1. CASE \E k \in paid : into[k] = r
            BY <1>3, <3>1
        <3>2. CASE \A k \in paid : into[k] # r
            BY <1>1, <1>2, <3>2 DEF RepaymentTables
        <3>3. QED
            BY <3>1, <3>2
    <2>2. QED
        BY <1>2, <2>1 DEF RepaymentTables
<1>5. ASSUME NEW l \in LoanIds, l \notin paid
      PROVE  TotalFor(rows, l) = TotalFor(repayments, l)
    <2>1. ASSUME NEW r \in RepaymentIds PROVE Counted(rows[r], l) = Counted(repayments[r], l)
        <3>1. CASE \E k \in paid : into[k] = r
            <4>1. PICK k \in paid : into[k] = r
                BY <3>1
            <4>2. repayments[r].status = "none" /\ rows[r].loan = k /\ k # l
                BY <1>2, <1>3, <1>5, <4>1
            <4>3. QED
                BY <4>2 DEF Counted
        <3>2. CASE \A k \in paid : into[k] # r
            BY <1>2, <3>2
        <3>3. QED
            BY <3>1, <3>2
    <2>2. QED
        BY <2>1, TotalSame
<1>6. ASSUME NEW l \in paid
      PROVE  TotalFor(rows, l) = TotalFor(repayments, l) + payments[l]
    <2> DEFINE own == into[l]
    <2>1. own \in RepaymentIds
        BY <1>2
    <2>2. Counted(rows[own], l) = payments[l] /\ Counted(repayments[own], l) = 0
        BY <1>2, <1>3 DEF Counted
    <2>3. ASSUME NEW r \in RepaymentIds \ {own} PROVE Counted(rows[r], l) = Counted(repayments[r], l)
        <3>1. CASE \E k \in paid : into[k] = r
            <4>1. PICK k \in paid : into[k] = r
                BY <3>1
            <4>2. k # l
                BY <4>1
            <4>3. QED
                BY <1>2, <1>3, <4>1, <4>2 DEF Counted
        <3>2. CASE \A k \in paid : into[k] # r
            BY <1>2, <3>2
        <3>3. QED
            BY <3>1, <3>2
    <2> HIDE DEF own
    <2>4. /\ TotalFor(repayments, l) \in Nat
          /\ TotalFor(rows, l) = TotalFor(repayments, l)
                 + (Counted(rows[own], l) - Counted(repayments[own], l))
        BY <1>1, <1>4, <2>1, <2>3, TotalMoves
    <2>5. payments[l] \in Nat
        BY <1>2
    <2>6. QED
        BY <2>2, <2>4, <2>5
<1>7. \A l \in LoanIds : TotalFor(repayments, l) \in Nat
    BY <1>1, TotalIsNat
<1>8. QED
    BY <1>4, <1>5, <1>6, <1>7 DEF rows, paid

\* A month is skipped once more.
LEMMA SuspendedLoan ==
    ASSUME NEW row, NEW total, NEW skipped, IsFiniteSet(skipped), LoanOK(row, total, skipped),
           row.status = "active", row.remaining > 0, NEW month, MaySuspend(row, month),
           NEW e, e \notin skipped, NEW new, new = Suspended(row, month)
    PROVE  LoanOK(new, total, skipped \cup {e}) /\ new.status # "none" /\ SameTerms(new, row)
<1>1. /\ RowOK(row) /\ row.remaining = row.obligation - total
      /\ row.finalDue = loanDueDate(row.start, Len(row.installments)) + 100 * Cardinality(skipped)
    BY DEF LoanOK
<1>2. /\ RowOK(new) /\ SameTerms(new, row) /\ new.start = row.start
      /\ new.remaining = row.remaining /\ new.finalDue = row.finalDue + 100
    BY <1>1, SuspendedRow
<1>3. /\ Cardinality(skipped \cup {e}) = Cardinality(skipped) + 1
      /\ Cardinality(skipped) \in Nat
    BY FS_AddElement, FS_CardinalityType
<1>4. loanDueDate(row.start, Len(row.installments)) \in Int
    <2>1. row.start \in Nat /\ Len(row.installments) \in Nat \ {0}
        BY <1>1, RowFacts DEF RowOK, Balanced
    <2>2. loanDueDate(row.start, Len(row.installments)) \in Nat
        BY <2>1, DueDates DEF Twentieth
    <2>3. QED
        BY <2>2
<1>5. Len(new.installments) = Len(row.installments) /\ new.obligation = row.obligation
    BY <1>2 DEF SameTerms
<1>6. new.finalDue = loanDueDate(new.start, Len(new.installments))
                     + 100 * Cardinality(skipped \cup {e})
    <2> DEFINE due == loanDueDate(row.start, Len(row.installments))
               card == Cardinality(skipped)
    <2>1. /\ new.finalDue = row.finalDue + 100 /\ row.finalDue = due + 100 * card
          /\ Cardinality(skipped \cup {e}) = card + 1
          /\ loanDueDate(new.start, Len(new.installments)) = due
        BY <1>1, <1>2, <1>3, <1>5
    <2>2. due \in Int /\ card \in Nat
        BY <1>3, <1>4
    <2> HIDE DEF due, card
    <2>3. QED
        BY <2>1, <2>2
<1>7. new.status # "none"
    BY <1>2 DEF RowOK
<1>8. QED
    BY <1>1, <1>2, <1>5, <1>6, <1>7 DEF LoanOK

\* A loan that was lent stays, with its member and on its terms.
TermsStay ==
    \A l \in LoanIds :
        loans[l].status # "none" =>
            loans'[l].status # "none" /\ SameTerms(loans'[l], loans[l])

\* What a confirmation suspends and collects from, the rows of the loans allow.
Confirmable(month, payments, new) ==
    /\ month \in StatementMonths /\ Collects(payments)
    /\ new \subseteq LoanIds /\ new \cap DOMAIN payments = {}
    /\ \A l \in new : Suspendable(l, month) /\ <<l, month>> \notin suspensions

\* A loan that is paid by a file is again what its history says.
LEMMA CollectedLoan ==
    ASSUME HistoryInvariant, NEW f, NEW payments, NEW new,
           Confirmable(f.month, payments, new), recordPayments(f, payments, new),
           NEW into, PaidInto(into, f, payments), NEW l \in DOMAIN payments
    PROVE  /\ loans[l].status # "none" /\ payments[l] <= loans[l].remaining
           /\ LoanOK(loans'[l], TotalFor(repayments', l), Skipped(suspensions, l))
           /\ loans'[l].status # "none" /\ SameTerms(loans'[l], loans[l])
           /\ PaidRow(loans'[l], loans[l], loans[l].remaining - payments[l])
<1> DEFINE row    == loans[l]
           next   == loans'[l]
           amount == payments[l]
           before == TotalFor(repayments, l)
           total  == TotalFor(repayments', l)
           skipped == Skipped(suspensions, l)
<1>1. l \in LoanIds /\ l \notin new /\ amount \in Nat /\ amount > 0
    BY DEF Confirmable, Collects
<1>2. Collectable(row) /\ amount <= row.remaining
    BY DEF recordPayments, MayRepay
<1>3. next = Repaid(row, amount)
    BY <1>1 DEF recordPayments, recordTagihanRepaymentTx
<1>4. LoanOK(row, before, skipped) /\ before \in Nat
    BY <1>1, TotalIsNat DEF HistoryInvariant, HistoryOK
<1>5. total = before + amount
    BY <1>1, CollectedTotals DEF Confirmable
<1> HIDE DEF row, next, amount, before, total, skipped
<1>6. row.status # "none"
    BY <1>2 DEF Collectable
<1>7. RowOK(row) /\ row.remaining = row.obligation - before
    BY <1>4, <1>6 DEF LoanOK
<1>8. row.remaining \in Nat /\ row.obligation \in Nat
    BY <1>7, RowFacts DEF RowOK
<1>9. row.remaining # 0
    BY <1>1, <1>2, <1>8
<1>10. PaidRow(next, row, row.remaining - amount)
    BY <1>1, <1>2, <1>3, <1>7, <1>9, RepaidRow
<1>11. row.remaining - amount = row.obligation - total
    BY <1>1, <1>4, <1>5, <1>7, <1>8
<1>12. LoanOK(next, total, skipped) /\ next.status # "none" /\ SameTerms(next, row)
    BY <1>4, <1>6, <1>10, <1>11, PaidLoan
<1>13. QED
    BY <1>2, <1>6, <1>10, <1>12 DEF row, next, amount, total, skipped

\* A confirmed file keeps loans, repayments and suspensions explained by each other.
LEMMA ConfirmedHistory ==
    ASSUME HistoryInvariant, NEW f, NEW payments, NEW new,
           Confirmable(f.month, payments, new), recordPayments(f, payments, new)
    PROVE  HistoryInvariant' /\ TermsStay
<1> DEFINE skips == suspensions \cup (new \X {f.month})
<1>1. PICK into : PaidInto(into, f, payments)
    BY PaymentRows DEF Confirmable
<1>2. /\ repayments' \in RepaymentTables
      /\ \A l \in LoanIds :
            TotalFor(repayments', l) = TotalFor(repayments, l)
                + (IF l \in DOMAIN payments THEN payments[l] ELSE 0)
    BY <1>1, CollectedTotals DEF Confirmable
<1>3. /\ repayments \in RepaymentTables
      /\ suspensions \subseteq LoanIds \X StatementMonths /\ IsFiniteSet(suspensions)
      /\ \A l \in LoanIds : LoanOK(loans[l], TotalFor(repayments, l), Skipped(suspensions, l))
      /\ new \subseteq LoanIds /\ f.month \in StatementMonths
    BY DEF HistoryInvariant, HistoryOK, Confirmable
<1>4. suspensions' = skips /\ loans' = [l \in LoanIds |-> loans'[l]]
    BY DEF recordPayments
<1>5. skips \subseteq LoanIds \X StatementMonths /\ IsFiniteSet(skips)
    <2> DEFINE added == new \X {f.month}
    <2>1. skips \subseteq LoanIds \X StatementMonths
        BY <1>3
    <2>2. IsFiniteSet(new) /\ IsFiniteSet({f.month})
        BY <1>3, LoansAssumption, FS_Subset, FS_Singleton
    <2>3. IsFiniteSet(added)
        BY <2>2, FS_Product
    <2> HIDE DEF added
    <2>4. IsFiniteSet(suspensions \cup added)
        BY <1>3, <2>3, FS_Union
    <2>5. QED
        BY <2>1, <2>4 DEF added
<1>6. \A l \in LoanIds : Skipped(skips, l) = IF l \in new THEN Skipped(suspensions, l) \cup {<<l, f.month>>}
                                             ELSE Skipped(suspensions, l)
    BY DEF Skipped
<1> HIDE DEF skips
<1>7. ASSUME NEW l \in DOMAIN payments
      PROVE  /\ LoanOK(loans'[l], TotalFor(repayments', l), Skipped(skips, l))
             /\ loans'[l].status # "none" /\ SameTerms(loans'[l], loans[l])
    <2>1. l \in LoanIds /\ l \notin new
        BY DEF Confirmable, Collects
    <2>2. Skipped(skips, l) = Skipped(suspensions, l)
        BY <1>6, <2>1
    <2>3. QED
        BY <1>1, <2>2, CollectedLoan
<1>8. ASSUME NEW l \in new
      PROVE  /\ LoanOK(loans'[l], TotalFor(repayments', l), Skipped(skips, l))
             /\ loans'[l].status # "none" /\ SameTerms(loans'[l], loans[l])
    <2> DEFINE row     == loans[l]
               next    == loans'[l]
               total   == TotalFor(repayments, l)
               skipped == Skipped(suspensions, l)
    <2>1. l \in LoanIds /\ l \notin DOMAIN payments
        BY <1>3 DEF Confirmable
    <2>2. /\ row.status = "active" /\ row.remaining > 0 /\ MaySuspend(row, f.month)
          /\ <<l, f.month>> \notin skipped
        BY DEF Confirmable, Suspendable, Skipped
    <2>3. next = Suspended(row, f.month)
        BY <2>1 DEF recordPayments
    <2>4. LoanOK(row, total, skipped) /\ total \in Nat
        BY <1>3, <2>1, TotalIsNat
    <2>5. IsFiniteSet(skipped)
        <3>1. skipped \subseteq suspensions
            BY DEF Skipped
        <3>2. QED
            BY <1>3, <3>1, FS_Subset
    <2>6. TotalFor(repayments', l) = total
        BY <1>2, <2>1, <2>4
    <2>7. Skipped(skips, l) = skipped \cup {<<l, f.month>>}
        BY <1>6, <2>1
    <2> HIDE DEF row, next, total, skipped
    <2>8. /\ LoanOK(next, total, skipped \cup {<<l, f.month>>})
          /\ next.status # "none" /\ SameTerms(next, row)
        BY <2>2, <2>3, <2>4, <2>5, SuspendedLoan
    <2>9. LoanOK(next, TotalFor(repayments', l), Skipped(skips, l))
        BY <2>6, <2>7, <2>8
    <2>10. QED
        BY <2>8, <2>9 DEF row, next
<1>9. ASSUME NEW l \in LoanIds, l \notin new, l \notin DOMAIN payments
      PROVE  LoanOK(loans'[l], TotalFor(repayments', l), Skipped(skips, l)) /\ loans'[l] = loans[l]
    <2>1. loans'[l] = loans[l]
        BY <1>9 DEF recordPayments
    <2>2. TotalFor(repayments', l) = TotalFor(repayments, l)
        BY <1>2, <1>3, <1>9, TotalIsNat
    <2>3. Skipped(skips, l) = Skipped(suspensions, l)
        BY <1>6, <1>9
    <2>4. QED
        BY <1>3, <2>1, <2>2, <2>3
<1>10. TermsStay
    BY <1>7, <1>8, <1>9 DEF TermsStay, SameTerms
<1>11. ASSUME NEW r \in RepaymentIds, repayments'[r].status = "recorded"
       PROVE  loans'[repayments'[r].loan].status # "none"
    <2>1. CASE \E k \in DOMAIN payments : into[k] = r
        <3>1. PICK k \in DOMAIN payments : into[k] = r
            BY <2>1
        <3>2. repayments'[into[k]] = [status |-> "recorded", loan |-> k, amount |-> payments[k]]
            BY <1>1 DEF PaidInto
        <3>3. repayments'[r].loan = k
            BY <3>1, <3>2
        <3>4. QED
            BY <1>7, <3>3
    <2>2. CASE \A k \in DOMAIN payments : into[k] # r
        <3>1. repayments'[r] = repayments[r]
            BY <1>1, <2>2 DEF PaidInto
        <3>2. repayments[r].loan \in LoanIds
            BY <1>3, <1>11, <3>1, CountedFacts DEF RepaymentTables
        <3>3. loans[repayments[r].loan].status # "none"
            BY <1>11, <3>1 DEF HistoryInvariant, HistoryOK
        <3>4. QED
            BY <1>10, <3>1, <3>2, <3>3 DEF TermsStay
    <2>3. QED
        BY <2>1, <2>2
<1>12. \A l \in LoanIds : LoanOK(loans'[l], TotalFor(repayments', l), Skipped(skips, l))
    BY <1>7, <1>8, <1>9
<1>13. HistoryOK(loans', repayments', skips)
    BY <1>2, <1>4, <1>5, <1>11, <1>12 DEF HistoryOK
<1>14. HistoryInvariant'
    BY <1>4, <1>13 DEF HistoryInvariant
<1>15. QED
    BY <1>10, <1>14

-----------------------------------------------------------------------------
(***************************************************************************)
(* What is due of a loan.                                                  *)
(***************************************************************************)
LEMMA LentFacts ==
    ASSUME HistoryInvariant, NEW l \in LoanIds, loans[l].status # "none"
    PROVE  /\ RowOK(loans[l]) /\ loans[l] \in LoanRows
           /\ loans[l].installments \in Items
           /\ \E total \in Nat : PaidUp(loans[l].installments, total)
<1>1. RowOK(loans[l])
    BY DEF HistoryInvariant, HistoryOK, LoanOK
<1>2. /\ loans[l] \in LoanRows /\ loans[l].installments \in Items
      /\ loans[l].obligation \in Nat /\ loans[l].remaining \in Nat
    BY <1>1, RowFacts DEF RowOK
<1>3. /\ PaidUp(loans[l].installments, loans[l].obligation - loans[l].remaining)
      /\ loans[l].obligation - loans[l].remaining \in Nat
    BY <1>1, <1>2 DEF RowOK, Balanced
<1>4. QED
    BY <1>1, <1>2, <1>3

Lacking(items) == [n \in DOMAIN items |-> Unpaid(items[n])]

\* What is unpaid on some instalments is a sum of natural numbers.
LEMMA UnpaidOnFacts ==
    ASSUME NEW items \in Items, NEW total \in Nat, PaidUp(items, total),
           NEW numbers \in SUBSET DOMAIN items
    PROVE  /\ IsFiniteSet(numbers) /\ UnpaidOn(items, numbers) \in Nat
           /\ UnpaidOn(items, numbers) = SumFunctionOnSet(Lacking(items), numbers)
           /\ \A n \in DOMAIN items : Lacking(items)[n] \in Nat /\ Lacking(items)[n] = Unpaid(items[n])
<1> DEFINE f == Lacking(items)
           g == [n \in numbers |-> Unpaid(items[n])]
<1>1. \A n \in DOMAIN items : f[n] = Unpaid(items[n]) /\ f[n] \in Nat
    BY PaidOldestFirst DEF Lacking
<1>2. IsFiniteSet(numbers)
    <2> DEFINE n == Len(items)
    <2>1. DOMAIN items = 1 .. n /\ n \in Nat
        BY ItemFacts
    <2> HIDE DEF n
    <2>2. IsFiniteSet(1 .. n)
        BY <2>1, FS_Interval
    <2>3. QED
        BY <2>1, <2>2, FS_Subset
<1>3. \A n \in numbers : g[n] = f[n] /\ g[n] \in Nat
    BY <1>1
<1>4. UnpaidOn(items, numbers) = SumFunctionOnSet(g, numbers)
    BY DEF UnpaidOn, SumFunction
<1> HIDE DEF f, g
<1>5. SumFunctionOnSet(g, numbers) = SumFunctionOnSet(f, numbers)
    BY <1>2, <1>3, SumSame
<1>6. SumFunctionOnSet(g, numbers) \in Nat
    BY <1>2, <1>3, SumNat
<1>7. QED
    BY <1>1, <1>2, <1>4, <1>5, <1>6 DEF f

\* What is due and what is billed are amounts, zero on a loan that owes nothing.
LEMMA DueFacts ==
    ASSUME HistoryInvariant, NEW l \in LoanIds, loans[l].status # "none", NEW month
    PROVE  /\ Due(l, month) \in Nat /\ Bill(l, month) \in Nat
<1> DEFINE items == loans[l].installments
<1>1. items \in Items /\ \E total \in Nat : PaidUp(items, total)
    BY LentFacts
<1>2. PICK total \in Nat : PaidUp(items, total)
    BY <1>1
<1>3. Due(l, month) = IF Collectable(loans[l]) THEN UnpaidOn(items, DueBy(items, month)) ELSE 0
    BY DEF Due
<1> DEFINE arrears == {n \in DOMAIN items : MonthOf(items[n].due) < month}
<1>4. Bill(l, month) = UnpaidOn(items, arrears) + UnpaidOn(items, DueIn(items, month))
    BY DEF Bill
<1> HIDE DEF items
<1>5. /\ DueBy(items, month) \in SUBSET DOMAIN items /\ DueIn(items, month) \in SUBSET DOMAIN items
      /\ arrears \in SUBSET DOMAIN items
    BY DEF DueBy, DueIn
<1> HIDE DEF arrears
<1>6. /\ UnpaidOn(items, DueBy(items, month)) \in Nat /\ UnpaidOn(items, arrears) \in Nat
      /\ UnpaidOn(items, DueIn(items, month)) \in Nat
    BY <1>1, <1>2, <1>5, UnpaidOnFacts
<1>7. QED
    BY <1>3, <1>4, <1>6

\* The workbook that is exported is one that can be read.
LEMMA ExportedFile ==
    ASSUME HistoryInvariant, NEW month \in StatementMonths
    PROVE  FileOK(exportTagihanXLSX(month))
<1> DEFINE f == exportTagihanXLSX(month)
           sheet == [l \in BilledLoans(month) |-> Detail(loans[l].member, "payment", Bill(l, month))]
<1>1. /\ f.month = month /\ f.date = month /\ f.form = "detailed"
      /\ f.members = tagihanRows(month) \cap employees /\ f.details = sheet
    BY DEF exportTagihanXLSX
<1>2. f.members \subseteq Members
    BY <1>1 DEF tagihanRows
<1>3. DOMAIN sheet \subseteq LoanIds
    BY DEF BilledLoans
<1>4. ASSUME NEW l \in DOMAIN sheet PROVE sheet[l] \in Details
    <2>1. l \in LoanIds /\ loans[l].status # "none"
        BY DEF BilledLoans
    <2>2. loans[l].member \in Members
        BY <2>1, LentFacts, RowFacts
    <2>3. Bill(l, month) \in Nat
        BY <2>1, DueFacts
    <2>4. sheet[l] = [member |-> loans[l].member, action |-> "payment", actual |-> Bill(l, month)]
        BY DEF Detail
    <2> HIDE DEF sheet
    <2>5. QED
        BY <2>2, <2>3, <2>4 DEF Details
<1>5. month \in Nat
    BY LoansAssumption
<1> HIDE DEF f, sheet
<1>6. FileOK(f)
    BY <1>1, <1>2, <1>3, <1>4, <1>5 DEF FileOK, Forms
<1>7. QED
    BY <1>6 DEF f

-----------------------------------------------------------------------------
(***************************************************************************)
(* The three ways to compute a bill.                                       *)
(***************************************************************************)
LEMMA SumAtLeast ==
    ASSUME NEW f, NEW S, IsFiniteSet(S), \A x \in S : f[x] \in Nat, NEW x \in S
    PROVE  SumFunctionOnSet(f, S) \in Nat /\ SumFunctionOnSet(f, S) >= f[x]
<1>1. IsFiniteSet(S \ {x})
    BY FS_Subset
<1>2. SumFunctionOnSet(f, S \ {x}) \in Nat
    BY <1>1, SumNat
<1>3. \A y \in S : f[y] \in Int
    OBVIOUS
<1>4. SumFunctionOnSet(f, S) = f[x] + SumFunctionOnSet(f, S \ {x})
    BY <1>3, SumRemove
<1>5. QED
    BY <1>2, <1>4

\* Arrears and the month are what is due by the end of the month.
LEMMA BillIsDue ==
    ASSUME HistoryInvariant, NEW l \in LoanIds, Collectable(loans[l]), NEW month \in Nat
    PROVE  Bill(l, month) = Due(l, month)
<1> DEFINE items   == loans[l].installments
           arrears == {n \in DOMAIN items : MonthOf(items[n].due) < month}
           current == DueIn(items, month)
           f       == Lacking(items)
<1>1. items \in Items /\ \E total \in Nat : PaidUp(items, total)
    BY LentFacts DEF Collectable
<1>2. PICK total \in Nat : PaidUp(items, total)
    BY <1>1
<1>3. /\ Due(l, month) = UnpaidOn(items, DueBy(items, month))
      /\ Bill(l, month) = UnpaidOn(items, arrears) + UnpaidOn(items, current)
    BY DEF Due, Bill
<1> HIDE DEF items
<1>4. \A n \in DOMAIN items : MonthOf(items[n].due) \in Nat
    BY <1>1, ItemFacts DEF MonthOf
<1>5. /\ arrears \in SUBSET DOMAIN items /\ current \in SUBSET DOMAIN items
      /\ arrears \cap current = {} /\ DueBy(items, month) = arrears \cup current
    BY <1>4 DEF DueBy, DueIn
<1> HIDE DEF arrears, current, f
<1>6. /\ IsFiniteSet(arrears) /\ UnpaidOn(items, arrears) = SumFunctionOnSet(f, arrears)
      /\ IsFiniteSet(current) /\ UnpaidOn(items, current) = SumFunctionOnSet(f, current)
      /\ UnpaidOn(items, arrears \cup current) = SumFunctionOnSet(f, arrears \cup current)
      /\ \A n \in DOMAIN items : f[n] \in Nat
    BY <1>1, <1>2, <1>5, UnpaidOnFacts DEF f
<1>7. \A n \in arrears \cup current : f[n] \in Int
    BY <1>5, <1>6
<1>8. SumFunctionOnSet(f, arrears \cup current)
          = SumFunctionOnSet(f, arrears) + SumFunctionOnSet(f, current)
    BY <1>5, <1>6, <1>7, SumUnion
<1>9. QED
    BY <1>3, <1>5, <1>6, <1>8

\* Something is due of a loan when an instalment lacks something.
LEMMA DueWhenLacking ==
    ASSUME HistoryInvariant, NEW l \in LoanIds, Collectable(loans[l]), NEW month
    PROVE  /\ loans[l].remaining > 0
           /\ Due(l, month) > 0 <=>
                 \E n \in DueBy(loans[l].installments, month) : Unpaid(loans[l].installments[n]) > 0
<1> DEFINE items == loans[l].installments
           due   == DueBy(items, month)
           f     == Lacking(items)
<1>1. /\ items \in Items /\ RowOK(loans[l]) /\ loans[l] \in LoanRows
      /\ \E total \in Nat : PaidUp(items, total)
    BY LentFacts DEF Collectable
<1>2. PICK total \in Nat : PaidUp(items, total)
    BY <1>1
<1>3. loans[l].remaining > 0
    <2>1. loans[l].remaining \in Nat /\ loans[l].remaining # 0
        BY <1>1, RowFacts DEF RowOK, Collectable
    <2>2. QED
        BY <2>1
<1>4. Due(l, month) = UnpaidOn(items, due)
    BY DEF Due
<1> HIDE DEF items
<1>5. due \in SUBSET DOMAIN items
    BY DEF DueBy
<1> HIDE DEF due, f
<1>6. /\ IsFiniteSet(due) /\ UnpaidOn(items, due) = SumFunctionOnSet(f, due)
      /\ \A n \in due : f[n] \in Nat /\ f[n] = Unpaid(items[n])
    BY <1>1, <1>2, <1>5, UnpaidOnFacts DEF f
<1>7. ASSUME NEW n \in due, Unpaid(items[n]) > 0 PROVE Due(l, month) > 0
    <2>1. SumFunctionOnSet(f, due) \in Nat /\ SumFunctionOnSet(f, due) >= f[n]
        BY <1>6, SumAtLeast
    <2>2. f[n] \in Nat /\ f[n] > 0
        BY <1>6, <1>7
    <2>3. QED
        BY <1>4, <1>6, <2>1, <2>2
<1>8. ASSUME \A n \in due : ~(Unpaid(items[n]) > 0) PROVE Due(l, month) = 0
    <2>1. \A n \in due : f[n] = 0
        BY <1>6, <1>8
    <2>2. SumFunctionOnSet(f, due) = 0
        BY <1>6, <2>1, SumZero
    <2>3. QED
        BY <1>4, <1>6, <2>2
<1>9. QED
    BY <1>3, <1>7, <1>8 DEF items, due

\* The instalments of which something is due, by loan.
DueRows(m, type, month) ==
    {row \in UNION {{l} \X DueBy(loans[l].installments, month) : l \in LoansOf(m)} :
        /\ loans[row[1]].type = type
        /\ Collectable(loans[row[1]]) /\ loans[row[1]].remaining > 0
        /\ Unpaid(loans[row[1]].installments[row[2]]) > 0}

\* The join of a member's loans with their instalments has finitely many rows.
LEMMA DueRowsFinite ==
    ASSUME HistoryInvariant, NEW m, NEW type, NEW month
    PROVE  IsFiniteSet(DueRows(m, type, month))
<1> DEFINE lent  == LoansOf(m)
           Part(l) == {l} \X DueBy(loans[l].installments, month)
           parts == {Part(l) : l \in lent}
           h     == [l \in lent |-> Part(l)]
<1>1. lent \subseteq LoanIds /\ \A l \in lent : loans[l].status # "none"
    BY DEF LoansOf
<1>2. IsFiniteSet(lent)
    BY <1>1, LoansAssumption, FS_Subset
<1>3. ASSUME NEW l \in lent PROVE IsFiniteSet(Part(l))
    <2> DEFINE items == loans[l].installments
               due   == DueBy(items, month)
    <2>1. items \in Items /\ \E total \in Nat : PaidUp(items, total)
        BY <1>1, LentFacts
    <2> HIDE DEF items
    <2>2. due \in SUBSET DOMAIN items
        BY DEF DueBy
    <2>3. IsFiniteSet(due)
        BY <2>1, <2>2, UnpaidOnFacts
    <2> HIDE DEF due
    <2>4. IsFiniteSet({l})
        BY FS_Singleton
    <2>5. IsFiniteSet({l} \X due)
        BY <2>3, <2>4, FS_Product
    <2>6. QED
        BY <2>5 DEF due, items
<1>4. h \in Surjection(lent, parts)
    BY DEF Surjection
<1> HIDE DEF h
<1>5. IsFiniteSet(parts)
    <2> HIDE DEF lent, parts
    <2>1. QED
        BY <1>2, <1>4, FS_Surjection
<1>6. \A part \in parts : IsFiniteSet(part)
    BY <1>3
<1> HIDE DEF parts
<1>7. IsFiniteSet(UNION parts)
    BY <1>5, <1>6, FS_UNION
<1>8. DueRows(m, type, month) \subseteq UNION parts
    BY DEF DueRows, parts
<1>9. QED
    BY <1>7, <1>8, FS_Subset

DebtsOf(m, type) == {l \in LoansOf(m) : loans[l].type = type}

\* What is due of a loan, as the sum of its rows.
LEMMA RowsOfLoan ==
    ASSUME HistoryInvariant, NEW m, NEW type, NEW month, NEW l \in DebtsOf(m, type),
           NEW rows, rows = DueRows(m, type, month),
           NEW f, \A row \in rows : f[row] = Unpaid(loans[row[1]].installments[row[2]]),
           NEW part, part = {row \in rows : row[1] = l}
    PROVE  Due(l, month) = SumFunctionOnSet(f, part)
<1>1. l \in LoansOf(m) /\ l \in LoanIds /\ loans[l].status # "none" /\ loans[l].type = type
    BY DEF DebtsOf, LoansOf
<1>2. CASE ~Collectable(loans[l])
    <2>1. part = {}
        BY <1>2 DEF DueRows
    <2>2. QED
        BY <1>2, <2>1, SumEmpty DEF Due
<1>3. CASE Collectable(loans[l])
    <2> DEFINE items   == loans[l].installments
               due     == DueBy(items, month)
               lacking == {n \in due : Unpaid(items[n]) > 0}
               g       == Lacking(items)
               ids     == [n \in lacking |-> <<l, n>>]
    <2>1. loans[l].remaining > 0
        BY <1>1, <1>3, DueWhenLacking
    <2>2. items \in Items /\ \E total \in Nat : PaidUp(items, total)
        BY <1>1, LentFacts
    <2>3. Due(l, month) = UnpaidOn(items, due)
        BY <1>3 DEF Due
    <2>4. part = {<<l, n>> : n \in lacking}
        <3>1. ASSUME NEW n \in lacking PROVE <<l, n>> \in part
            <4>1. <<l, n>> \in {l} \X due
                OBVIOUS
            <4>2. <<l, n>> \in UNION {{k} \X DueBy(loans[k].installments, month) : k \in LoansOf(m)}
                BY <1>1, <4>1
            <4>3. <<l, n>>[1] = l /\ <<l, n>>[2] = n
                OBVIOUS
            <4>4. QED
                BY <1>1, <1>3, <2>1, <4>2, <4>3 DEF DueRows
        <3>2. ASSUME NEW row \in part PROVE row \in {<<l, n>> : n \in lacking}
            <4>1. row \in rows /\ row[1] = l
                OBVIOUS
            <4>2. PICK k \in LoansOf(m) : row \in {k} \X DueBy(loans[k].installments, month)
                BY <4>1 DEF DueRows
            <4>3. k = l /\ row = <<l, row[2]>> /\ row[2] \in due
                BY <4>1, <4>2
            <4>4. Unpaid(items[row[2]]) > 0
                BY <4>1 DEF DueRows
            <4>5. QED
                BY <4>3, <4>4
        <3>3. QED
            BY <3>1, <3>2
    <2>5. \A n \in lacking : <<l, n>> \in rows /\ f[<<l, n>>] = Unpaid(items[n])
        <3>1. ASSUME NEW n \in lacking PROVE <<l, n>> \in rows /\ f[<<l, n>>] = Unpaid(items[n])
            <4>1. <<l, n>> \in rows
                BY <2>4
            <4>2. <<l, n>>[1] = l /\ <<l, n>>[2] = n
                OBVIOUS
            <4>3. f[<<l, n>>] = Unpaid(loans[<<l, n>>[1]].installments[<<l, n>>[2]])
                BY <4>1
            <4>4. QED
                BY <4>1, <4>2, <4>3
        <3>2. QED
            BY <3>1
    <2> HIDE DEF items
    <2>6. due \in SUBSET DOMAIN items /\ lacking \in SUBSET DOMAIN items /\ lacking \in SUBSET due
        BY DEF DueBy
    <2> HIDE DEF due, g
    <2>7. /\ IsFiniteSet(due) /\ UnpaidOn(items, due) = SumFunctionOnSet(g, due)
          /\ IsFiniteSet(lacking)
          /\ \A n \in due : g[n] \in Nat /\ g[n] = Unpaid(items[n])
        BY <2>2, <2>6, UnpaidOnFacts DEF g
    <2>8. SumFunctionOnSet(g, lacking) = SumFunctionOnSet(g, due)
        <3>1. \A n \in lacking : g[n] \in Int /\ g[n] = g[n]
            BY <2>7
        <3>2. \A n \in due \ lacking : g[n] = 0
            BY <2>7
        <3> HIDE DEF lacking
        <3>3. QED
            BY <2>6, <2>7, <3>1, <3>2, SumFilter
    <2>9. SumFunctionOnSet(g, lacking) = SumFunctionOnSet(f, {ids[n] : n \in lacking})
        <3>1. ids \in [lacking -> rows] /\ \A n \in lacking : ids[n] = <<l, n>>
            BY <2>5
        <3>2. \A n, k \in lacking : ids[n] = ids[k] => n = k
            BY <3>1
        <3>3. \A n \in lacking : g[n] \in Int /\ g[n] = f[ids[n]]
            BY <2>5, <2>7
        <3>4. IsFiniteSet(rows)
            BY DueRowsFinite
        <3> HIDE DEF lacking, ids
        <3>5. QED
            BY <2>7, <3>1, <3>2, <3>3, <3>4, SumReindexed
    <2>10. {ids[n] : n \in lacking} = part
        BY <2>4
    <2> HIDE DEF lacking, ids
    <2>11. QED
        BY <2>3, <2>7, <2>8, <2>9, <2>10
<1>4. QED
    BY <1>2, <1>3

\* The statement adds up the rows of the join; by loan it comes to the same sum.
LEMMA ByTypeIsByLoan ==
    ASSUME HistoryInvariant, NEW m, NEW type, NEW month
    PROVE  /\ IsFiniteSet(DebtsOf(m, type))
           /\ \A l \in DebtsOf(m, type) : l \in LoanIds /\ Due(l, month) \in Nat
           /\ tagihanLoanDueTotalForType(m, type, month)
                  = SumFunction([l \in DebtsOf(m, type) |-> Due(l, month)])
<1> DEFINE rows  == DueRows(m, type, month)
           debts == DebtsOf(m, type)
           f     == [row \in rows |-> Unpaid(loans[row[1]].installments[row[2]])]
           g     == [l \in debts |-> Due(l, month)]
           class == [row \in rows |-> row[1]]
           of    == [l \in debts |-> {row \in rows : row[1] = l}]
<1>1. debts \subseteq LoanIds /\ \A l \in debts : loans[l].status # "none"
    BY DEF DebtsOf, LoansOf
<1>2. IsFiniteSet(rows) /\ IsFiniteSet(debts)
    BY <1>1, DueRowsFinite, LoansAssumption, FS_Subset
<1>3. \A l \in debts : l \in LoanIds /\ Due(l, month) \in Nat
    BY <1>1, DueFacts
<1>4. tagihanLoanDueTotalForType(m, type, month) = SumFunctionOnSet(f, rows)
    BY DEF tagihanLoanDueTotalForType, DueRows, SumFunction
<1>5. SumFunction([l \in debts |-> Due(l, month)]) = SumFunctionOnSet(g, debts)
    BY DEF SumFunction
<1>6. ASSUME NEW row \in rows PROVE row[1] \in debts /\ f[row] \in Int
    <2>1. PICK l \in LoansOf(m) : row \in {l} \X DueBy(loans[l].installments, month)
        BY DEF DueRows
    <2>2. row[1] = l /\ loans[l].type = type /\ row[2] \in DueBy(loans[l].installments, month)
        BY <2>1 DEF DueRows
    <2> DEFINE items == loans[l].installments
    <2>3. items \in Items
        BY <2>1, LentFacts DEF LoansOf
    <2>4. row[2] \in 1 .. Len(items)
        BY <2>2, <2>3, ItemFacts DEF DueBy
    <2>5. items[row[2]].scheduled \in Nat /\ items[row[2]].paid \in Nat
        BY <2>3, <2>4, ItemFacts
    <2>6. f[row] = items[row[2]].scheduled - items[row[2]].paid
        BY <2>2 DEF Unpaid
    <2>7. QED
        BY <2>1, <2>2, <2>5, <2>6 DEF DebtsOf
<1>7. /\ class \in [rows -> debts] /\ of \in [debts -> SUBSET rows]
      /\ \A l \in debts : \A row \in rows : row \in of[l] <=> class[row] = l
    BY <1>6
<1>8. \A l \in debts : g[l] = SumFunctionOnSet(f, of[l])
    <2>1. ASSUME NEW l \in debts PROVE Due(l, month) = SumFunctionOnSet(f, of[l])
        <3> DEFINE part == of[l]
        <3>1. part = {row \in rows : row[1] = l}
            OBVIOUS
        <3>2. \A row \in rows : f[row] = Unpaid(loans[row[1]].installments[row[2]])
            OBVIOUS
        <3> HIDE DEF f, rows, part
        <3>3. QED
            BY <3>1, <3>2, RowsOfLoan DEF rows, part
    <2>2. QED
        BY <2>1
<1> HIDE DEF rows, debts, f, g, class, of
<1>9. SumFunctionOnSet(g, debts) = SumFunctionOnSet(f, rows)
    BY <1>2, <1>6, <1>7, <1>8, SumGrouped
<1>10. QED
    BY <1>2, <1>3, <1>4, <1>5, <1>9 DEF debts

ConfigsFit == configs \in [Members -> {NoConfig} \cup [Deducted -> Nat]]

\* Types of loans and deducted categories are few.
LEMMA TypesFinite == IsFiniteSet(LoanTypes) /\ IsFiniteSet(Deducted)
<1>1. IsFiniteSet({"regular"})
    BY FS_Singleton
<1>2. IsFiniteSet({"regular"} \cup {"secondary_goods"})
    BY <1>1, FS_AddElement
<1>3. IsFiniteSet(({"regular"} \cup {"secondary_goods"}) \cup {"goods_purchase_paylater"})
    BY <1>2, FS_AddElement
<1>4. IsFiniteSet((({"regular"} \cup {"secondary_goods"}) \cup {"goods_purchase_paylater"}) \cup {"voucher"})
    BY <1>3, FS_AddElement
<1>5. LoanTypes = (({"regular"} \cup {"secondary_goods"}) \cup {"goods_purchase_paylater"}) \cup {"voucher"}
    BY DEF LoanTypes
<1>6. IsFiniteSet({"wajib"})
    BY FS_Singleton
<1>7. IsFiniteSet({"wajib"} \cup {"sukarela"})
    BY <1>6, FS_AddElement
<1>8. Deducted = {"wajib"} \cup {"sukarela"}
    BY DEF Deducted
<1>9. QED
    BY <1>4, <1>5, <1>7, <1>8

\* A configured amount is an amount, also when nothing is configured.
LEMMA ConfiguredIsNat ==
    ASSUME ConfigsFit, NEW m \in Members, NEW c \in Deducted
    PROVE  Configured(m, c) \in Nat
<1>1. configs[m] = NoConfig \/ configs[m] \in [Deducted -> Nat]
    BY DEF ConfigsFit
<1>2. QED
    BY <1>1 DEF Configured

\* Who has a bill is on the statement of the month.
LEMMA BilledAreListed ==
    ASSUME HistoryInvariant, ConfigsFit, NEW l \in LoanIds, Collectable(loans[l]), NEW month,
           Due(l, month) > 0
    PROVE  StatementTotal(loans[l].member, month) > 0
<1> DEFINE m    == loans[l].member
           type == loans[l].type
           f    == [c \in Deducted |-> tagihanSavingAmounts(m, c, month)]
           g    == [t \in LoanTypes |-> tagihanLoanDueTotalForType(m, t, month)]
<1>1. loans[l].status # "none"
    BY DEF Collectable
<1>2. m \in Members /\ type \in LoanTypes
    BY <1>1, LentFacts, RowFacts
<1>3. \A c \in Deducted : f[c] \in Nat
    BY <1>2, ConfiguredIsNat DEF tagihanSavingAmounts
<1>4. StatementTotal(m, month) = SumFunctionOnSet(f, Deducted) + SumFunctionOnSet(g, LoanTypes)
    BY DEF StatementTotal, SumFunction
<1>5. ASSUME NEW t \in LoanTypes
      PROVE  g[t] \in Nat /\ \A k \in DebtsOf(m, t) : g[t] >= Due(k, month)
    <2> DEFINE debts == DebtsOf(m, t)
               due   == [k \in debts |-> Due(k, month)]
    <2>1. /\ IsFiniteSet(debts) /\ \A k \in debts : Due(k, month) \in Nat
          /\ tagihanLoanDueTotalForType(m, t, month) = SumFunction(due)
        BY ByTypeIsByLoan
    <2>2. g[t] = SumFunctionOnSet(due, debts)
        BY <2>1 DEF SumFunction
    <2>3. \A k \in debts : due[k] \in Nat /\ due[k] = Due(k, month)
        BY <2>1
    <2> HIDE DEF debts, due, g
    <2>4. g[t] \in Nat
        BY <2>1, <2>2, <2>3, SumNat
    <2>5. \A k \in debts : g[t] >= due[k]
        BY <2>1, <2>2, <2>3, SumAtLeast
    <2>6. QED
        BY <2>3, <2>4, <2>5 DEF debts
<1>6. l \in DebtsOf(m, type)
    BY <1>1 DEF DebtsOf, LoansOf
<1> HIDE DEF f, g
<1>7. SumFunctionOnSet(f, Deducted) \in Nat
    BY <1>3, TypesFinite, SumNat
<1>8. SumFunctionOnSet(g, LoanTypes) \in Nat /\ SumFunctionOnSet(g, LoanTypes) >= g[type]
    BY <1>2, <1>5, TypesFinite, SumAtLeast
<1>9. g[type] \in Nat /\ g[type] >= Due(l, month) /\ Due(l, month) \in Nat
    BY <1>1, <1>2, <1>5, <1>6, DueFacts
<1>10. QED
    BY <1>4, <1>7, <1>8, <1>9

\* The three computations agree wherever loans are what their history says.
LEMMA BillsFollow ==
    ASSUME HistoryInvariant, ConfigsFit
    PROVE  BillsAgree
<1> SUFFICES ASSUME NEW month \in StatementMonths
             PROVE  LET sheet == exportTagihanXLSX(month).details IN
                    /\ \A l \in LoanIds : loans[l].status # "none" =>
                        IF l \in DOMAIN sheet THEN sheet[l].actual = Due(l, month)
                        ELSE Due(l, month) = 0 \/ memberStatus[loans[l].member] # "active"
                             \/ loans[l].member \notin employees
                    /\ \A m \in Members, type \in LoanTypes :
                        tagihanLoanDueTotalForType(m, type, month)
                          = SumFunction([l \in {l \in LoansOf(m) : loans[l].type = type} |-> Due(l, month)])
                    /\ \A l \in DOMAIN sheet : loans[l].member \in exportTagihanXLSX(month).members
    BY DEF BillsAgree
<1> DEFINE sheet == exportTagihanXLSX(month).details
<1>1. month \in Nat
    BY LoansAssumption
<1>2. sheet = [l \in BilledLoans(month) |-> Detail(loans[l].member, "payment", Bill(l, month))]
      /\ exportTagihanXLSX(month).members = tagihanRows(month) \cap employees
    BY DEF exportTagihanXLSX
<1>3. DOMAIN sheet = BilledLoans(month) /\ \A l \in BilledLoans(month) : sheet[l].actual = Bill(l, month)
    BY <1>2 DEF Detail
<1>4. \A l \in BilledLoans(month) :
          /\ l \in LoanIds /\ loans[l].status # "none" /\ Collectable(loans[l])
          /\ memberStatus[loans[l].member] = "active" /\ loans[l].member \in employees
          /\ \E n \in DueBy(loans[l].installments, month) : Unpaid(loans[l].installments[n]) > 0
    BY DEF BilledLoans
<1>5. ASSUME NEW l \in BilledLoans(month)
      PROVE  /\ sheet[l].actual = Due(l, month)
             /\ loans[l].member \in exportTagihanXLSX(month).members
    <2>1. Bill(l, month) = Due(l, month) /\ Due(l, month) > 0
        BY <1>1, <1>4, BillIsDue, DueWhenLacking
    <2>2. StatementTotal(loans[l].member, month) > 0
        BY <1>4, <2>1, BilledAreListed
    <2>3. loans[l].member \in Members
        BY <1>4, LentFacts, RowFacts
    <2>4. loans[l].member \in tagihanRows(month)
        BY <1>4, <2>2, <2>3 DEF tagihanRows
    <2>5. QED
        BY <1>2, <1>3, <1>4, <2>1, <2>4
<1>6. ASSUME NEW l \in LoanIds, loans[l].status # "none", l \notin BilledLoans(month)
      PROVE  Due(l, month) = 0 \/ memberStatus[loans[l].member] # "active"
             \/ loans[l].member \notin employees
    <2>1. CASE ~Collectable(loans[l])
        BY <2>1 DEF Due
    <2>2. CASE Collectable(loans[l]) /\ memberStatus[loans[l].member] = "active"
               /\ loans[l].member \in employees
        <3>1. loans[l].remaining > 0
            BY <2>2, DueWhenLacking
        <3>2. ~\E n \in DueBy(loans[l].installments, month) : Unpaid(loans[l].installments[n]) > 0
            BY <1>6, <2>2, <3>1 DEF BilledLoans
        <3>3. ~(Due(l, month) > 0) /\ Due(l, month) \in Nat
            BY <1>6, <2>2, <3>2, DueWhenLacking, DueFacts
        <3>4. QED
            BY <3>3
    <2>3. QED
        BY <2>1, <2>2
<1>7. ASSUME NEW m \in Members, NEW type \in LoanTypes
      PROVE  tagihanLoanDueTotalForType(m, type, month)
                 = SumFunction([l \in {l \in LoansOf(m) : loans[l].type = type} |-> Due(l, month)])
    <2>1. tagihanLoanDueTotalForType(m, type, month)
              = SumFunction([l \in DebtsOf(m, type) |-> Due(l, month)])
        BY ByTypeIsByLoan
    <2>2. DebtsOf(m, type) = {k \in LoansOf(m) : loans[k].type = type}
        BY DEF DebtsOf
    <2>3. QED
        BY <2>1, <2>2
<1> HIDE DEF sheet
<1>8. \A l \in LoanIds : loans[l].status # "none" =>
          IF l \in DOMAIN sheet THEN sheet[l].actual = Due(l, month)
          ELSE Due(l, month) = 0 \/ memberStatus[loans[l].member] # "active"
               \/ loans[l].member \notin employees
    BY <1>3, <1>5, <1>6
<1>9. \A l \in DOMAIN sheet : loans[l].member \in exportTagihanXLSX(month).members
    BY <1>3, <1>5
<1>10. QED
    BY <1>7, <1>8, <1>9 DEF sheet

-----------------------------------------------------------------------------
(***************************************************************************)
(* What a file records is decided by its token: by the file, the           *)
(* fingerprint, and the members and types of the loans in it, which never  *)
(* change.                                                                 *)
(***************************************************************************)
Held(st, m)    == DOMAIN st.rows[m].loans
Seen(st, m, l) == st.rows[m].loans[l]

DueSeen(seen, month) ==
    IF seen[1] \in {"active", "adjustment_due"} THEN UnpaidOn(seen[4], DueBy(seen[4], month)) ELSE 0

SeenOfType(f, st, ls, m, type) == {l \in Held(st, m) \ Suspends(f) : ls[l].type = type}

RecordedSeen(f, st, ls, m, type) ==
    SumFunction([l \in SeenOfType(f, st, ls, m, type) |-> Seen(st, m, l)[5]])
ExpectedSeen(f, st, ls, m, type) ==
    SumFunction([l \in SeenOfType(f, st, ls, m, type) |->
                    DueSeen(Seen(st, m, l), f.month) + Seen(st, m, l)[5]])

ActualSeen(f, st, ls, m, type) ==
    IF m \in f.unpaid THEN 0
    ELSE IF f.form = "amounts" THEN f.actual[m][type] ELSE ExpectedSeen(f, st, ls, m, type)

DepositsSeen(f, st) ==
    [mc \in {mc \in f.members \X Deducted : /\ st.rows[mc[1]].savings[mc[2]][1] > 0
                                            /\ st.rows[mc[1]].savings[mc[2]][2] = 0} |->
        st.rows[mc[1]].savings[mc[2]][1]]

DetailsSeen(f, st) ==
    [l \in {l \in DOMAIN f.details : f.details[l].action = "payment" /\ f.details[l].actual > 0
                                     /\ Seen(st, f.details[l].member, l)[5] = 0} |->
        f.details[l].actual]

PaysByType(f, st, ls, l) ==
    LET m == ls[l].member IN
    /\ m \in f.members \ f.unpaid /\ l \in Held(st, m)
    /\ DueSeen(Seen(st, m, l), f.month) > 0
    /\ RecordedSeen(f, st, ls, m, ls[l].type) = 0
    /\ ActualSeen(f, st, ls, m, ls[l].type) > 0

TypesSeen(f, st, ls) ==
    [l \in {l \in LoanIds \ Suspends(f) : PaysByType(f, st, ls, l)} |->
        ActualSeen(f, st, ls, ls[l].member, ls[l].type)]

ShownFrom(f, st, ls) ==
    [deposits  |-> DepositsSeen(f, st),
     payments  |-> IF f.form = "detailed" THEN DetailsSeen(f, st) ELSE TypesSeen(f, st, ls),
     suspended |-> Suspends(f) \ st.skipped]

\* The loans of a fingerprint are those of its members.
Known(f, st, ls) ==
    \A m \in f.members : \A l \in Held(st, m) :
        l \in LoanIds /\ ls[l].status # "none" /\ ls[l].member = m

\* The fingerprint holds what the review reads of a member, loans included.
LEMMA SeenIs ==
    ASSUME NEW f, NEW st, st = Fingerprint(f), NEW m \in f.members
    PROVE  /\ Held(st, m) = LoansOf(m)
           /\ \A c \in Deducted : /\ st.rows[m].savings[c][1] = Configured(m, c)
                                  /\ st.rows[m].savings[c][2] = RecordedSaving(m, c, f.month)
           /\ \A l \in LoansOf(m) : /\ DueSeen(Seen(st, m, l), f.month) = Due(l, f.month)
                                    /\ Seen(st, m, l)[5] = RecordedPaid(l, f.month)
           /\ st.skipped = Suspends(f) \ NewSuspensions(f)
<1> DEFINE row == st.rows[m]
<1>1. /\ row.savings = [c \in Deducted |-> <<Configured(m, c), RecordedSaving(m, c, f.month)>>]
      /\ row.loans = [l \in LoansOf(m) |->
                         <<loans[l].status, loans[l].remaining, loans[l].finalDue,
                           loans[l].installments, RecordedPaid(l, f.month)>>]
      /\ st.skipped = Suspends(f) \ NewSuspensions(f)
    BY DEF Fingerprint
<1> HIDE DEF row
<1>2. \A c \in Deducted : /\ row.savings[c][1] = Configured(m, c)
                          /\ row.savings[c][2] = RecordedSaving(m, c, f.month)
    BY <1>1
<1>3. DOMAIN row.loans = LoansOf(m)
    BY <1>1
<1>4. ASSUME NEW l \in LoansOf(m)
      PROVE  /\ DueSeen(row.loans[l], f.month) = Due(l, f.month)
             /\ row.loans[l][5] = RecordedPaid(l, f.month)
    <2> DEFINE seen == row.loans[l]
    <2>1. seen = <<loans[l].status, loans[l].remaining, loans[l].finalDue,
                   loans[l].installments, RecordedPaid(l, f.month)>>
        BY <1>1
    <2>2. seen[1] = loans[l].status /\ seen[4] = loans[l].installments
          /\ seen[5] = RecordedPaid(l, f.month)
        BY <2>1
    <2> HIDE DEF seen
    <2>3. DueSeen(seen, f.month) = Due(l, f.month)
        BY <2>2 DEF DueSeen, Due, Collectable
    <2>4. QED
        BY <2>2, <2>3 DEF seen
<1>5. QED
    BY <1>1, <1>2, <1>3, <1>4 DEF Held, Seen, row

\* So it determines what is recorded and what is paid of one type of loan.
LEMMA TypeSeenIs ==
    ASSUME NEW f, NEW st, st = Fingerprint(f), NEW m \in f.members, NEW type
    PROVE  /\ RecordedSeen(f, st, loans, m, type) = RecordedOfType(f, m, type)
           /\ ActualSeen(f, st, loans, m, type) = ActualOfType(f, m, type)
<1>1. Held(st, m) = LoansOf(m)
      /\ \A l \in LoansOf(m) : /\ DueSeen(Seen(st, m, l), f.month) = Due(l, f.month)
                               /\ Seen(st, m, l)[5] = RecordedPaid(l, f.month)
    BY SeenIs
<1> DEFINE S == SeenOfType(f, st, loans, m, type)
           T == OfType(f, m, type)
<1>2. S = T /\ S \subseteq LoansOf(m)
    BY <1>1 DEF SeenOfType, OfType
<1> HIDE DEF S, T
<1>3. [l \in S |-> Seen(st, m, l)[5]] = [l \in T |-> RecordedPaid(l, f.month)]
    BY <1>1, <1>2
<1>4. [l \in S |-> DueSeen(Seen(st, m, l), f.month) + Seen(st, m, l)[5]]
          = [l \in T |-> Due(l, f.month) + RecordedPaid(l, f.month)]
    BY <1>1, <1>2
<1>5. RecordedSeen(f, st, loans, m, type) = RecordedOfType(f, m, type)
    BY <1>3 DEF RecordedSeen, RecordedOfType, S, T
<1>6. ExpectedSeen(f, st, loans, m, type) = ExpectedOfType(f, m, type)
    BY <1>4 DEF ExpectedSeen, ExpectedOfType, S, T
<1>7. QED
    BY <1>5, <1>6 DEF ActualSeen, ActualOfType

\* What is shown is a function of the file, the fingerprint, and members and types of
\* loans.
LEMMA ShownIs ==
    ASSUME NEW f, FileOK(f), Accepted(f), NEW st, st = Fingerprint(f)
    PROVE  Shown(f) = ShownFrom(f, st, loans) /\ Known(f, st, loans)
<1>1. Deposits(f) = DepositsSeen(f, st)
    <2>1. \A mc \in f.members \X Deducted :
              /\ st.rows[mc[1]].savings[mc[2]][1] = Configured(mc[1], mc[2])
              /\ st.rows[mc[1]].savings[mc[2]][2] = RecordedSaving(mc[1], mc[2], f.month)
        BY SeenIs
    <2>2. QED
        BY <2>1 DEF Deposits, DepositsSeen
<1>2. ASSUME f.form = "detailed" PROVE DetailPayments(f) = DetailsSeen(f, st)
    <2>1. ASSUME NEW l \in DOMAIN f.details
          PROVE  Seen(st, f.details[l].member, l)[5] = RecordedPaid(l, f.month)
        <3> DEFINE m == f.details[l].member
        <3>1. DetailAccepted(f, l)
            BY <1>2 DEF Accepted
        <3>2. m \in f.members /\ loans[l].status # "none" /\ m = loans[l].member
            BY <3>1 DEF DetailAccepted
        <3>3. l \in LoansOf(m)
            BY <3>2 DEF LoansOf, FileOK
        <3> HIDE DEF m
        <3>4. Seen(st, m, l)[5] = RecordedPaid(l, f.month)
            BY <3>2, <3>3, SeenIs
        <3> QED
            BY <3>4 DEF m
    <2>2. QED
        BY <2>1 DEF DetailPayments, DetailsSeen
<1>3. TypePayments(f) = TypesSeen(f, st, loans)
    <2> DEFINE may(l) == /\ loans[l].status # "none" /\ loans[l].member \in f.members \ f.unpaid
                         /\ Due(l, f.month) > 0
                         /\ RecordedOfType(f, loans[l].member, loans[l].type) = 0
                         /\ ActualOfType(f, loans[l].member, loans[l].type) > 0
    <2>1. ASSUME NEW l \in LoanIds, loans[l].member \in f.members
          PROVE  /\ PaysByType(f, st, loans, l) <=> may(l)
                 /\ ActualSeen(f, st, loans, loans[l].member, loans[l].type)
                        = ActualOfType(f, loans[l].member, loans[l].type)
        <3> DEFINE m == loans[l].member
        <3>1. /\ RecordedSeen(f, st, loans, m, loans[l].type) = RecordedOfType(f, m, loans[l].type)
              /\ ActualSeen(f, st, loans, m, loans[l].type) = ActualOfType(f, m, loans[l].type)
            BY <2>1, TypeSeenIs
        <3>2. /\ Held(st, m) = LoansOf(m)
              /\ l \in LoansOf(m) => DueSeen(Seen(st, m, l), f.month) = Due(l, f.month)
            BY <2>1, SeenIs
        <3>3. l \in LoansOf(m) <=> loans[l].status # "none"
            BY DEF LoansOf
        <3>4. PaysByType(f, st, loans, l)
                <=> /\ m \in f.members \ f.unpaid /\ l \in Held(st, m)
                    /\ DueSeen(Seen(st, m, l), f.month) > 0
                    /\ RecordedSeen(f, st, loans, m, loans[l].type) = 0
                    /\ ActualSeen(f, st, loans, m, loans[l].type) > 0
            BY DEF PaysByType
        <3>5. QED
            BY <3>1, <3>2, <3>3, <3>4
    <2>2. \A l \in LoanIds : loans[l].member \notin f.members => ~PaysByType(f, st, loans, l)
        BY DEF PaysByType
    <2>3. TypePayments(f) = [l \in {l \in LoanIds \ Suspends(f) : may(l)} |->
                                ActualOfType(f, loans[l].member, loans[l].type)]
        BY DEF TypePayments
    <2> DEFINE S == {l \in LoanIds \ Suspends(f) : may(l)}
               T == {l \in LoanIds \ Suspends(f) : PaysByType(f, st, loans, l)}
    <2>4. S = T /\ \A l \in S : l \in LoanIds /\ loans[l].member \in f.members
        BY <2>1, <2>2
    <2> HIDE DEF S, T
    <2>5. [l \in S |-> ActualOfType(f, loans[l].member, loans[l].type)]
              = [l \in T |-> ActualSeen(f, st, loans, loans[l].member, loans[l].type)]
        BY <2>1, <2>4
    <2>6. QED
        BY <2>3, <2>5 DEF TypesSeen, S, T
<1>4. Known(f, st, loans)
    BY SeenIs DEF Known, LoansOf
<1>5. Suspends(f) \ st.skipped = NewSuspensions(f)
    <2>1. st.skipped = Suspends(f) \ NewSuspensions(f)
        BY DEF Fingerprint
    <2>2. NewSuspensions(f) \subseteq Suspends(f)
        BY DEF NewSuspensions
    <2>3. QED
        BY <2>1, <2>2
<1>6. Payments(f) = (IF f.form = "detailed" THEN DetailsSeen(f, st) ELSE TypesSeen(f, st, loans))
    BY <1>2, <1>3 DEF Payments
<1>7. QED
    BY <1>1, <1>4, <1>5, <1>6 DEF Shown, ShownFrom

\* Nothing that may happen to the loans later changes what a token records.
LEMMA ShownStays ==
    ASSUME NEW f, NEW st, NEW ls, Known(f, st, ls), NEW new,
           \A l \in LoanIds : ls[l].status # "none" =>
               new[l].status # "none" /\ new[l].member = ls[l].member /\ new[l].type = ls[l].type
    PROVE  ShownFrom(f, st, new) = ShownFrom(f, st, ls) /\ Known(f, st, new)
<1>1. ASSUME NEW m \in f.members, NEW l \in Held(st, m)
      PROVE  /\ l \in LoanIds /\ ls[l].status # "none" /\ ls[l].member = m
             /\ new[l].status # "none" /\ new[l].member = m /\ new[l].type = ls[l].type
    BY DEF Known
<1>2. Known(f, st, new)
    BY <1>1 DEF Known
<1>3. ASSUME NEW m \in f.members, NEW type
      PROVE  /\ RecordedSeen(f, st, new, m, type) = RecordedSeen(f, st, ls, m, type)
             /\ ActualSeen(f, st, new, m, type) = ActualSeen(f, st, ls, m, type)
    <2>1. SeenOfType(f, st, new, m, type) = SeenOfType(f, st, ls, m, type)
        BY <1>1 DEF SeenOfType
    <2>2. QED
        BY <2>1 DEF RecordedSeen, ActualSeen, ExpectedSeen
<1> DEFINE S == {l \in LoanIds \ Suspends(f) : PaysByType(f, st, ls, l)}
           T == {l \in LoanIds \ Suspends(f) : PaysByType(f, st, new, l)}
<1>4. ASSUME NEW l \in LoanIds
      PROVE  /\ PaysByType(f, st, ls, l) <=> PaysByType(f, st, new, l)
             /\ PaysByType(f, st, ls, l) =>
                    ActualSeen(f, st, new, new[l].member, new[l].type)
                        = ActualSeen(f, st, ls, ls[l].member, ls[l].type)
    <2>1. CASE ls[l].member \in f.members /\ l \in Held(st, ls[l].member)
        <3>1. new[l].member = ls[l].member /\ new[l].type = ls[l].type
            BY <1>1, <2>1
        <3>2. /\ RecordedSeen(f, st, new, new[l].member, new[l].type)
                     = RecordedSeen(f, st, ls, ls[l].member, ls[l].type)
              /\ ActualSeen(f, st, new, new[l].member, new[l].type)
                     = ActualSeen(f, st, ls, ls[l].member, ls[l].type)
            BY <1>3, <2>1, <3>1
        <3>3. QED
            BY <3>1, <3>2 DEF PaysByType
    <2>2. CASE new[l].member \in f.members /\ l \in Held(st, new[l].member)
        <3>1. new[l].member = ls[l].member
            BY <1>1, <2>2
        <3>2. QED
            BY <2>1, <2>2, <3>1
    <2>3. CASE /\ ~(ls[l].member \in f.members /\ l \in Held(st, ls[l].member))
               /\ ~(new[l].member \in f.members /\ l \in Held(st, new[l].member))
        BY <2>3 DEF PaysByType
    <2>4. QED
        BY <2>1, <2>2, <2>3
<1>5. S = T
    BY <1>4
<1>6. \A l \in S : ActualSeen(f, st, new, new[l].member, new[l].type)
                       = ActualSeen(f, st, ls, ls[l].member, ls[l].type)
    BY <1>4
<1> HIDE DEF S, T
<1>7. [l \in S |-> ActualSeen(f, st, ls, ls[l].member, ls[l].type)]
          = [l \in T |-> ActualSeen(f, st, new, new[l].member, new[l].type)]
    BY <1>5, <1>6
<1>8. TypesSeen(f, st, ls) = TypesSeen(f, st, new)
    BY <1>7 DEF TypesSeen, S, T
<1>9. QED
    BY <1>2, <1>8 DEF ShownFrom

-----------------------------------------------------------------------------
(***************************************************************************)
(* The deposits of a confirmed file.                                       *)
(***************************************************************************)
\* Amounts for some of the savings of members.
Saves(deposits) ==
    /\ DOMAIN deposits \subseteq Members \X Deducted
    /\ \A mc \in DOMAIN deposits : deposits[mc] \in Nat \ {0}

SavedRow(mc, amount) ==
    [type |-> "deposit", member |-> mc[1], category |-> mc[2], amount |-> amount]

\* Each of them has a record of its own, in a row that was free.
SavedInto(into, f, deposits) ==
    /\ \A x, y \in DOMAIN deposits : into[x] = into[y] => x = y
    /\ \A x \in DOMAIN deposits :
          /\ into[x] \in SavingIds /\ savings[into[x]].type = "none"
          /\ savings'[into[x]] = SavedRow(x, deposits[x])
          /\ marks'[into[x]].reference = f.month /\ marks'[into[x]].month = f.date
          /\ marks'[into[x]].at \in Nat
    /\ \A s \in SavingIds : (\A x \in DOMAIN deposits : into[x] # s) =>
          savings'[s] = savings[s] /\ marks'[s] = marks[s]
    /\ savings' = [s \in SavingIds |-> savings'[s]]
    /\ marks' = [s \in SavingIds |-> marks'[s]]

\* recordDeposits writes one new saving record for each deposit, and no other one.
LEMMA DepositRows ==
    ASSUME NEW f, NEW deposits, Saves(deposits), recordDeposits(f, deposits)
    PROVE  \E into : SavedInto(into, f, deposits)
<1> DEFINE S     == DOMAIN deposits
           T     == {s \in SavingIds : savings[s].type = "none"}
           items == SetToSeq(S)
           free  == FreeSavings
           ids   == {free[k] : k \in 1 .. Len(items)}
           Nth(s) == CHOOSE k \in 1 .. Len(items) : free[k] = s
<1>1. IsFiniteSet(S) /\ IsFiniteSet(T)
    <2>1. IsFiniteSet(Members \X Deducted)
        BY TagihanAssumption, TypesFinite, FS_Product
    <2>2. S \subseteq Members \X Deducted /\ T \subseteq SavingIds
        BY DEF Saves
    <2> HIDE DEF S, T
    <2>3. QED
        BY <2>1, <2>2, SavingsAssumption, FS_Subset
<1>2. /\ Len(items) <= Len(free) /\ free = SetToSeq(T)
      /\ savings' = [s \in SavingIds |->
            IF s \notin ids THEN savings[s]
            ELSE [type |-> "deposit", member |-> items[Nth(s)][1], category |-> items[Nth(s)][2],
                  amount |-> deposits[items[Nth(s)]]]]
      /\ marks' = [s \in SavingIds |->
            IF s \notin ids THEN marks[s]
            ELSE [reference |-> f.month, month |-> f.date, at |-> CreatedSavings + Nth(s)]]
    BY DEF recordDeposits, FreeSavings
<1> HIDE DEF free, T, items, S
<1>3. PICK into \in [S -> T] : Filing(into, S, items, free)
    BY <1>1, <1>2, Filed DEF items
<1>4. /\ \A x, y \in S : into[x] = into[y] => x = y
      /\ ids = {into[x] : x \in S}
      /\ \A x \in S : Nth(into[x]) \in 1 .. Len(items) /\ items[Nth(into[x])] = x
    BY <1>3 DEF Filing
<1>5. CreatedSavings \in Nat
    <2>1. IsFiniteSet({s \in SavingIds : savings[s].type # "none"})
        BY SavingsAssumption, FS_Subset
    <2>2. QED
        BY <2>1, FS_CardinalityType DEF CreatedSavings
<1>6. Len(items) \in Nat
    BY <1>1, SeqOfSet DEF items
<1> HIDE DEF ids, Nth
<1>7. \A x \in S : into[x] \in SavingIds /\ savings[into[x]].type = "none" /\ into[x] \in ids
    BY <1>3, <1>4 DEF T
<1>8. ASSUME NEW x \in S
      PROVE  /\ savings'[into[x]] = SavedRow(x, deposits[x])
             /\ marks'[into[x]].reference = f.month /\ marks'[into[x]].month = f.date
             /\ marks'[into[x]].at \in Nat
    <2>1. items[Nth(into[x])] = x /\ Nth(into[x]) \in Nat
        BY <1>4, <1>6
    <2>2. /\ savings'[into[x]] = [type |-> "deposit", member |-> x[1], category |-> x[2],
                                  amount |-> deposits[x]]
          /\ marks'[into[x]] = [reference |-> f.month, month |-> f.date,
                                at |-> CreatedSavings + Nth(into[x])]
        BY <1>2, <1>7, <2>1
    <2>3. /\ marks'[into[x]].reference = f.month /\ marks'[into[x]].month = f.date
          /\ marks'[into[x]].at = CreatedSavings + Nth(into[x])
        BY <2>2
    <2>4. QED
        BY <1>5, <2>1, <2>2, <2>3 DEF SavedRow
<1>9. \A s \in SavingIds : (\A x \in S : into[x] # s) =>
          savings'[s] = savings[s] /\ marks'[s] = marks[s]
    BY <1>2, <1>4
<1>10. /\ savings' = [s \in SavingIds |-> savings'[s]]
       /\ marks' = [s \in SavingIds |-> marks'[s]]
    BY <1>2
<1>11. SavedInto(into, f, deposits)
    BY <1>4, <1>7, <1>8, <1>9, <1>10 DEF SavedInto, S
<1>12. QED
    BY <1>11

-----------------------------------------------------------------------------
(***************************************************************************)
(* The inductive invariant.  A token promises what its fingerprint says of *)
(* the loans as they are.                                                  *)
(***************************************************************************)
SavingsFit ==
    /\ savings \in [SavingIds -> SavingRows]
    /\ \A s \in SavingIds : savings[s].type = "deposit" => savings[s].amount > 0
    /\ marks = [s \in SavingIds |-> marks[s]]
    /\ \A s \in SavingIds : marks[s].month \in Nat /\ marks[s].at \in Nat

ReferencesFit ==
    /\ references = [r \in RepaymentIds |-> references[r]]
    /\ \A r \in RepaymentIds : repayments[r].status = "recorded" => repayments[r].amount > 0

ClaimFits(claim) ==
    claim # NoClaim =>
        /\ FileOK(claim.file) /\ Known(claim.file, claim.state, loans)
        /\ claim.shown = ShownFrom(claim.file, claim.state, loans)

ClaimsFit ==
    /\ claims = [p \in ClaimIds |-> claims[p]]
    /\ \A p \in ClaimIds : ClaimFits(claims[p])

TagihanInvariant ==
    HistoryInvariant /\ SavingsFit /\ ReferencesFit /\ ConfigsFit /\ ClaimsFit

\* What a file has collected on a loan is an amount; zero means that there is no row of it.
LEMMA RecordedPaidFacts ==
    ASSUME HistoryInvariant, NEW l, NEW month
    PROVE  /\ IsFiniteSet(RepaymentsOf(l, month)) /\ RecordedPaid(l, month) \in Nat
           /\ ReferencesFit /\ RecordedPaid(l, month) = 0 => RepaymentsOf(l, month) = {}
<1> DEFINE S == RepaymentsOf(l, month)
           f == [r \in S |-> repayments[r].amount]
<1>1. /\ S \subseteq RepaymentIds
      /\ \A r \in S : repayments[r].status = "recorded"
    BY DEF RepaymentsOf, RecordedFor
<1>2. RecordedPaid(l, month) = SumFunctionOnSet(f, S)
    BY DEF RecordedPaid, SumFunction
<1> HIDE DEF S
<1>3. IsFiniteSet(S)
    BY <1>1, LoansAssumption, FS_Subset
<1>4. \A r \in S : f[r] \in Nat /\ f[r] = repayments[r].amount
    <2>1. repayments \in RepaymentTables
        BY DEF HistoryInvariant, HistoryOK
    <2>2. \A r \in S : repayments[r].amount \in Nat
        BY <1>1, <2>1, CountedFacts DEF RepaymentTables
    <2>3. QED
        BY <2>2
<1> HIDE DEF f
<1>5. SumFunctionOnSet(f, S) \in Nat /\ \A r \in S : SumFunctionOnSet(f, S) >= f[r]
    BY <1>3, <1>4, SumAtLeast, SumNat
<1>6. ASSUME ReferencesFit, RecordedPaid(l, month) = 0 PROVE S = {}
    <2>1. \A r \in S : f[r] > 0
        BY <1>1, <1>4, <1>6 DEF ReferencesFit
    <2>2. QED
        BY <1>2, <1>4, <1>5, <1>6, <2>1
<1>7. QED
    BY <1>2, <1>3, <1>5, <1>6 DEF S

\* Likewise of what a file has deposited.
LEMMA RecordedSavingFacts ==
    ASSUME SavingsFit, NEW m, NEW c, NEW month
    PROVE  /\ RecordedSaving(m, c, month) \in Nat
           /\ RecordedSaving(m, c, month) = 0 => DepositsOf(m, c, month) = {}
<1> DEFINE S == DepositsOf(m, c, month)
           f == [s \in SavingIds |-> savings[s].amount]
<1>1. S \subseteq SavingIds /\ \A s \in S : savings[s].type = "deposit"
    BY DEF DepositsOf, RowsOf
<1>2. RecordedSaving(m, c, month) = SumFunctionOnSet(f, S)
    BY DEF RecordedSaving, AmountOf
<1> HIDE DEF S
<1>3. IsFiniteSet(S)
    BY <1>1, SavingsAssumption, FS_Subset
<1>4. \A s \in S : f[s] \in Nat /\ f[s] > 0
    <2>1. \A s \in SavingIds : savings[s].amount \in Nat
        BY DEF SavingsFit, SavingRows
    <2>2. QED
        BY <1>1, <2>1 DEF SavingsFit
<1> HIDE DEF f
<1>5. SumFunctionOnSet(f, S) \in Nat /\ \A s \in S : SumFunctionOnSet(f, S) >= f[s]
    BY <1>3, <1>4, SumAtLeast, SumNat
<1>6. QED
    BY <1>2, <1>4, <1>5 DEF S

\* What is recorded and expected of one type of loan are amounts.
LEMMA TypeFacts ==
    ASSUME HistoryInvariant, NEW f, FileOK(f), NEW m \in f.members, NEW type \in LoanTypes
    PROVE  /\ IsFiniteSet(OfType(f, m, type))
           /\ RecordedOfType(f, m, type) \in Nat /\ ExpectedOfType(f, m, type) \in Nat
           /\ ActualOfType(f, m, type) \in Nat
<1> DEFINE S == OfType(f, m, type)
           g == [l \in S |-> RecordedPaid(l, f.month)]
           h == [l \in S |-> Due(l, f.month) + RecordedPaid(l, f.month)]
<1>1. S \subseteq LoanIds /\ \A l \in S : loans[l].status # "none"
    BY DEF OfType, LoansOf
<1>2. /\ RecordedOfType(f, m, type) = SumFunctionOnSet(g, S)
      /\ ExpectedOfType(f, m, type) = SumFunctionOnSet(h, S)
    BY DEF RecordedOfType, ExpectedOfType, SumFunction
<1> HIDE DEF S
<1>3. IsFiniteSet(S)
    BY <1>1, LoansAssumption, FS_Subset
<1>4. \A l \in S : g[l] \in Nat /\ h[l] \in Nat
    <2>1. \A l \in S : Due(l, f.month) \in Nat /\ RecordedPaid(l, f.month) \in Nat
        BY <1>1, DueFacts, RecordedPaidFacts
    <2>2. QED
        BY <2>1
<1> HIDE DEF g, h
<1>5. SumFunctionOnSet(g, S) \in Nat /\ SumFunctionOnSet(h, S) \in Nat
    BY <1>3, <1>4, SumNat
<1>6. f.form = "amounts" => f.actual[m][type] \in Nat
    BY DEF FileOK
<1>7. ActualOfType(f, m, type) \in Nat
    BY <1>2, <1>5, <1>6 DEF ActualOfType
<1>8. QED
    BY <1>2, <1>3, <1>5, <1>7 DEF S

\* What is accepted can be recorded.
LEMMA AcceptedFacts ==
    ASSUME HistoryInvariant, ConfigsFit, NEW f, FileOK(f), Accepted(f)
    PROVE  Confirmable(f.month, Payments(f), NewSuspensions(f)) /\ Saves(Deposits(f))
<1>1. f.month \in StatementMonths /\ f.members \subseteq Members /\ DOMAIN f.details \subseteq LoanIds
    BY DEF FileOK
<1>2. ASSUME f.form = "detailed"
      PROVE  Collects(Payments(f)) /\ DOMAIN Payments(f) \cap Suspends(f) = {}
    <2>1. Payments(f) = DetailPayments(f)
        BY <1>2 DEF Payments
    <2>2. \A l \in DOMAIN f.details : f.details[l].actual \in Nat
        BY DEF FileOK, Details
    <2>3. Collects(DetailPayments(f))
        BY <1>1, <2>2 DEF DetailPayments, Collects
    <2>4. DOMAIN DetailPayments(f) \cap Suspends(f) = {}
        BY DEF DetailPayments, Suspends
    <2>5. QED
        BY <2>1, <2>3, <2>4
<1>3. ASSUME f.form # "detailed"
      PROVE  Collects(Payments(f)) /\ DOMAIN Payments(f) \cap Suspends(f) = {}
    <2> DEFINE S == {l \in LoanIds \ Suspends(f) :
                        /\ loans[l].status # "none" /\ loans[l].member \in f.members \ f.unpaid
                        /\ Due(l, f.month) > 0
                        /\ RecordedOfType(f, loans[l].member, loans[l].type) = 0
                        /\ ActualOfType(f, loans[l].member, loans[l].type) > 0}
    <2>1. Payments(f) = [l \in S |-> ActualOfType(f, loans[l].member, loans[l].type)]
        BY <1>3 DEF Payments, TypePayments
    <2>2. ASSUME NEW l \in S
          PROVE  /\ l \in LoanIds \ Suspends(f)
                 /\ ActualOfType(f, loans[l].member, loans[l].type) \in Nat \ {0}
        <3>1. /\ l \in LoanIds \ Suspends(f) /\ loans[l].status # "none"
              /\ loans[l].member \in f.members
              /\ ActualOfType(f, loans[l].member, loans[l].type) > 0
            OBVIOUS
        <3>2. loans[l].type \in LoanTypes
            BY <3>1, LentFacts, RowFacts
        <3>3. ActualOfType(f, loans[l].member, loans[l].type) \in Nat
            BY <3>1, <3>2, TypeFacts
        <3>4. QED
            BY <3>1, <3>3
    <2> HIDE DEF S
    <2>3. QED
        BY <2>1, <2>2 DEF Collects
<1>4. NewSuspensions(f) \subseteq Suspends(f) /\ Suspends(f) \subseteq LoanIds
    BY <1>1 DEF NewSuspensions, Suspends
<1>5. \A l \in NewSuspensions(f) : Suspendable(l, f.month) /\ <<l, f.month>> \notin suspensions
    <2>1. \A l \in Suspends(f) : SuspensionAccepted(f, l)
        BY DEF Accepted
    <2>2. \A l \in NewSuspensions(f) : Suspendable(l, f.month)
        BY <1>4, <2>1 DEF SuspensionAccepted
    <2>3. QED
        BY <2>2 DEF NewSuspensions
<1>6. Confirmable(f.month, Payments(f), NewSuspensions(f))
    BY <1>1, <1>2, <1>3, <1>4, <1>5 DEF Confirmable
<1>7. Saves(Deposits(f))
    <2>1. \A m \in Members, c \in Deducted : Configured(m, c) \in Nat
        BY ConfiguredIsNat
    <2>2. QED
        BY <1>1, <2>1 DEF Deposits, Saves
<1>8. QED
    BY <1>6, <1>7

-----------------------------------------------------------------------------
(***************************************************************************)
(* Every step keeps it.                                                    *)
(***************************************************************************)
LEMMA ClaimsStay ==
    ASSUME ClaimsFit, TermsStay, claims' = claims
    PROVE  ClaimsFit'
<1>1. ASSUME NEW p \in ClaimIds, claims[p] # NoClaim
      PROVE  /\ FileOK(claims[p].file) /\ Known(claims[p].file, claims[p].state, loans')
             /\ claims[p].shown = ShownFrom(claims[p].file, claims[p].state, loans')
    <2> DEFINE f == claims[p].file
               st == claims[p].state
               old == loans
               new == loans'
    <2>1. FileOK(f) /\ Known(f, st, old) /\ claims[p].shown = ShownFrom(f, st, old)
        BY <1>1 DEF ClaimsFit, ClaimFits
    <2>2. \A l \in LoanIds : old[l].status # "none" =>
              new[l].status # "none" /\ new[l].member = old[l].member /\ new[l].type = old[l].type
        BY DEF TermsStay, SameTerms
    <2> HIDE DEF f, st, old, new
    <2>3. ShownFrom(f, st, new) = ShownFrom(f, st, old) /\ Known(f, st, new)
        BY <2>1, <2>2, ShownStays
    <2>4. QED
        BY <2>1, <2>3 DEF f, st, new
<1>2. \A p \in ClaimIds : ClaimFits(claims[p])'
    BY <1>1 DEF ClaimFits
<1>3. QED
    BY <1>2 DEF ClaimsFit

\* A loan has the terms it has.
LEMMA SameTermsSame == \A row : SameTerms(row, row)
BY DEF SameTerms

\* A change of one loan leaves the terms of all of them.
LEMMA ChangedStay ==
    ASSUME NEW l, ChangesLoan(l)
    PROVE  TermsStay
<1>1. ASSUME NEW k \in LoanIds, loans[k].status # "none"
      PROVE  loans'[k].status # "none" /\ SameTerms(loans'[k], loans[k])
    <2>1. CASE k = l
        BY <1>1, <2>1 DEF ChangesLoan
    <2>2. CASE k # l
        <3>1. loans'[k] = loans[k]
            BY <2>2 DEF ChangesLoan
        <3>2. QED
            BY <1>1, <3>1, SameTermsSame
    <2>3. QED
        BY <2>1, <2>2
<1>2. QED
    BY <1>1 DEF TermsStay

\* A new token fits what it was made from.
LEMMA PreviewStep ==
    ASSUME TagihanInvariant, NEW p \in ClaimIds, NEW f \in readTagihanFile, previewTagihan(p, f)
    PROVE  ClaimsFit'
<1> DEFINE st    == Fingerprint(f)
           claim == [file |-> f, state |-> st, shown |-> Shown(f)]
<1>1. FileOK(f)
    <2>1. CASE f \in Files
        BY <2>1, TagihanAssumption
    <2>2. CASE f \in {exportTagihanXLSX(month) : month \in StatementMonths}
        BY <2>2, ExportedFile DEF TagihanInvariant
    <2>3. QED
        BY <2>1, <2>2 DEF readTagihanFile
<1>2. Accepted(f) /\ claims' = [claims EXCEPT ![p] = claim] /\ loans' = loans
    BY DEF previewTagihan, loansVars
<1>3. Shown(f) = ShownFrom(f, st, loans) /\ Known(f, st, loans)
    BY <1>1, <1>2, ShownIs
<1>4. claim.file = f /\ claim.state = st /\ claim.shown = Shown(f)
    OBVIOUS
<1> HIDE DEF st, claim
<1>5. ClaimFits(claim)
    BY <1>1, <1>3, <1>4 DEF ClaimFits
<1>6. claims = [q \in ClaimIds |-> claims[q]] /\ \A q \in ClaimIds : ClaimFits(claims[q])
    BY DEF TagihanInvariant, ClaimsFit
<1>7. /\ claims' = [q \in ClaimIds |-> claims'[q]]
      /\ \A q \in ClaimIds : claims'[q] = IF q = p THEN claim ELSE claims[q]
    BY <1>2, <1>6
<1>8. \A q \in ClaimIds : ClaimFits(claims[q])'
    <2>1. ASSUME NEW q \in ClaimIds PROVE ClaimFits(claims[q])'
        <3>1. ClaimFits(claims'[q])
            BY <1>5, <1>6, <1>7
        <3>2. QED
            BY <1>2, <3>1 DEF ClaimFits
    <2>2. QED
        BY <2>1
<1>9. QED
    BY <1>7, <1>8 DEF ClaimsFit

\* The row a deposit of the file is written as.
LEMMA SavedRowFacts ==
    ASSUME NEW mc \in Members \X Deducted, NEW amount \in Nat
    PROVE  /\ SavedRow(mc, amount) \in SavingRows /\ SavedRow(mc, amount).type = "deposit"
           /\ SavedRow(mc, amount).member = mc[1] /\ SavedRow(mc, amount).category = mc[2]
           /\ SavedRow(mc, amount).amount = amount
<1> DEFINE row == [type |-> "deposit", member |-> mc[1], category |-> mc[2], amount |-> amount]
<1>1. mc[1] \in Members /\ mc[2] \in Categories
    BY TagihanAssumption
<1>2. /\ row.type = "deposit" /\ row.member = mc[1] /\ row.category = mc[2]
      /\ row.amount = amount
    OBVIOUS
<1>3. row \in SavingRows
    BY <1>1 DEF SavingRows
<1> HIDE DEF row
<1>4. SavedRow(mc, amount) = row
    BY DEF SavedRow, row
<1>5. QED
    BY <1>2, <1>3, <1>4

\* Saving records are numbered as they are made.
LEMMA CreatedIsNat == CreatedSavings \in Nat
<1>1. IsFiniteSet({s \in SavingIds : savings[s].type # "none"})
    BY SavingsAssumption, FS_Subset
<1>2. QED
    BY <1>1, FS_CardinalityType DEF CreatedSavings

\* A confirmation keeps the invariant.
LEMMA ConfirmStep ==
    ASSUME TagihanInvariant, NEW p \in ClaimIds, confirmTagihan(p)
    PROVE  TagihanInvariant'
<1> DEFINE f == claims[p].file
           deposits == Deposits(f)
           payments == Payments(f)
           new == NewSuspensions(f)
<1>1. /\ Accepted(f) /\ recordDeposits(f, deposits) /\ recordPayments(f, payments, new)
      /\ configs' = configs /\ claims' = claims
    BY DEF confirmTagihan
<1>2. /\ HistoryInvariant /\ SavingsFit /\ ReferencesFit /\ ConfigsFit /\ ClaimsFit
    BY DEF TagihanInvariant
<1>3. FileOK(f)
    BY <1>2 DEF confirmTagihan, ClaimsFit, ClaimFits
<1> HIDE DEF f
<1>4. Confirmable(f.month, payments, new) /\ Saves(deposits)
    BY <1>1, <1>2, <1>3, AcceptedFacts
<1>5. f.date \in Nat
    BY <1>3 DEF FileOK
<1> HIDE DEF deposits, payments, new
<1>6. HistoryInvariant' /\ TermsStay
    BY <1>1, <1>2, <1>4, ConfirmedHistory
<1>7. ClaimsFit'
    BY <1>1, <1>2, <1>6, ClaimsStay
<1>8. PICK into : PaidInto(into, f, payments)
    BY <1>1, <1>4, PaymentRows DEF Confirmable
<1>9. ReferencesFit'
    <2>1. ASSUME NEW r \in RepaymentIds, repayments'[r].status = "recorded"
          PROVE  repayments'[r].amount > 0
        <3>1. CASE \E l \in DOMAIN payments : into[l] = r
            <4>1. PICK l \in DOMAIN payments : into[l] = r
                BY <3>1
            <4>2. repayments'[r] = [status |-> "recorded", loan |-> l, amount |-> payments[l]]
                BY <1>8, <4>1 DEF PaidInto
            <4>3. payments[l] \in Nat \ {0}
                BY <1>4 DEF Confirmable, Collects
            <4>4. QED
                BY <4>2, <4>3
        <3>2. CASE \A l \in DOMAIN payments : into[l] # r
            <4>1. repayments'[r] = repayments[r]
                BY <1>8, <3>2 DEF PaidInto
            <4>2. QED
                BY <1>2, <2>1, <4>1 DEF ReferencesFit
        <3>3. QED
            BY <3>1, <3>2
    <2>2. references' = [r \in RepaymentIds |-> references'[r]]
        BY <1>8 DEF PaidInto
    <2>3. QED
        BY <2>1, <2>2 DEF ReferencesFit
<1>10. PICK at : SavedInto(at, f, deposits)
    BY <1>1, <1>4, DepositRows
<1>11. SavingsFit'
    <2>1. ASSUME NEW s \in SavingIds
          PROVE  /\ savings'[s] \in SavingRows
                 /\ savings'[s].type = "deposit" => savings'[s].amount > 0
                 /\ marks'[s].month \in Nat /\ marks'[s].at \in Nat
        <3>1. CASE \E mc \in DOMAIN deposits : at[mc] = s
            <4>1. PICK mc \in DOMAIN deposits : at[mc] = s
                BY <3>1
            <4>2. savings'[s] = SavedRow(mc, deposits[mc])
                  /\ marks'[s].month = f.date /\ marks'[s].at \in Nat
                BY <1>10, <4>1 DEF SavedInto
            <4>3. mc \in Members \X Deducted /\ deposits[mc] \in Nat \ {0}
                BY <1>4 DEF Saves
            <4>4. SavedRow(mc, deposits[mc]) \in SavingRows
                  /\ SavedRow(mc, deposits[mc]).amount = deposits[mc]
                BY <4>3, SavedRowFacts
            <4>5. QED
                BY <1>5, <4>2, <4>3, <4>4
        <3>2. CASE \A mc \in DOMAIN deposits : at[mc] # s
            <4>1. savings'[s] = savings[s] /\ marks'[s] = marks[s]
                BY <1>10, <3>2 DEF SavedInto
            <4>2. QED
                BY <1>2, <4>1 DEF SavingsFit
        <3>3. QED
            BY <3>1, <3>2
    <2>2. /\ savings' = [s \in SavingIds |-> savings'[s]]
          /\ marks' = [s \in SavingIds |-> marks'[s]]
        BY <1>10 DEF SavedInto
    <2>3. savings' \in [SavingIds -> SavingRows]
        BY <2>1, <2>2
    <2>4. QED
        BY <2>1, <2>2, <2>3 DEF SavingsFit
<1>12. ConfigsFit'
    BY <1>1, <1>2 DEF ConfigsFit
<1>13. QED
    BY <1>6, <1>7, <1>9, <1>11, <1>12 DEF TagihanInvariant

\* Of finitely many records there is one that no other is later than.
LEMMA LatestExists ==
    ASSUME NEW rows, IsFiniteSet(rows), rows # {}, NEW month, NEW at,
           \A s \in rows : month[s] \in Nat /\ at[s] \in Nat
    PROVE  \E s \in rows : \A q \in rows :
               \/ month[s] > month[q]
               \/ month[s] = month[q] /\ at[s] >= at[q]
<1> DEFINE later(s, q) == \/ month[s] > month[q]
                          \/ month[s] = month[q] /\ at[s] >= at[q]
           above(s) == {q \in rows : ~later(s, q)}
           Bad == {above(s) : s \in rows}
<1>1. Bad \subseteq SUBSET rows /\ Bad # {}
    <2>1. \A s \in rows : above(s) \subseteq rows
        OBVIOUS
    <2>2. PICK s \in rows : TRUE
        OBVIOUS
    <2> HIDE DEF above
    <2>3. above(s) \in Bad
        OBVIOUS
    <2>4. Bad \subseteq SUBSET rows
        BY <2>1
    <2>5. QED
        BY <2>3, <2>4
<1> HIDE DEF Bad
<1>2. PICK T \in Bad : \A U \in Bad : U \subseteq T => U = T
    BY <1>1, Smallest
<1>3. PICK s \in rows : T = above(s)
    BY DEF Bad
<1>4. ASSUME NEW q \in rows, ~later(s, q)
      PROVE  FALSE
    <2>1. above(q) \subseteq above(s)
        <3>1. ASSUME NEW x \in rows, ~later(q, x) PROVE ~later(s, x)
            <4>1. /\ month[s] \in Nat /\ at[s] \in Nat /\ month[q] \in Nat /\ at[q] \in Nat
                  /\ month[x] \in Nat /\ at[x] \in Nat
                OBVIOUS
            <4>2. QED
                BY <1>4, <3>1, <4>1
        <3>2. QED
            BY <3>1
    <2>2. q \in above(s) /\ q \notin above(q)
        <3>1. month[q] \in Nat /\ at[q] \in Nat
            OBVIOUS
        <3>2. later(q, q)
            BY <3>1
        <3>3. QED
            BY <1>4, <3>2
    <2>3. above(q) \in Bad
        BY DEF Bad
    <2> HIDE DEF above
    <2>4. above(q) = T
        BY <1>2, <1>3, <2>1, <2>3
    <2>5. QED
        BY <1>3, <2>2, <2>4
<1>5. QED
    BY <1>4

\* The latest deposit of a category, if any, has an amount.
LEMMA LatestIsNat ==
    ASSUME SavingsFit, NEW m, NEW c
    PROVE  LatestSaving(m, c) \in Nat
<1> DEFINE rows == {s \in SavingIds : savings[s].member = m /\ savings[s].category = c
                                      /\ savings[s].type \in {"deposit", "withdrawal"}}
           month == [s \in rows |-> marks[s].month]
           at    == [s \in rows |-> marks[s].at]
           Later(s, q) == \/ marks[s].month > marks[q].month
                          \/ marks[s].month = marks[q].month /\ marks[s].at >= marks[q].at
           latest == CHOOSE s \in rows : \A q \in rows : Later(s, q)
<1>1. LatestSaving(m, c) = IF rows = {} THEN 0
                           ELSE IF savings[latest].type = "deposit" THEN savings[latest].amount ELSE 0
    BY DEF LatestSaving
<1>2. rows \subseteq SavingIds
    OBVIOUS
<1> HIDE DEF rows
<1>3. IsFiniteSet(rows)
    BY <1>2, SavingsAssumption, FS_Subset
<1>4. \A s \in rows : month[s] \in Nat /\ at[s] \in Nat
    BY <1>2 DEF SavingsFit
<1>5. \A s \in rows : month[s] = marks[s].month /\ at[s] = marks[s].at
    OBVIOUS
<1> HIDE DEF month, at
<1>6. CASE rows # {}
    <2>1. PICK s \in rows : \A q \in rows :
              \/ month[s] > month[q]
              \/ month[s] = month[q] /\ at[s] >= at[q]
        BY <1>3, <1>4, <1>6, LatestExists
    <2>2. \A q \in rows : Later(s, q)
        BY <1>5, <2>1
    <2>3. latest \in rows
        BY <2>2
    <2> HIDE DEF latest
    <2>4. savings[latest].amount \in Nat
        BY <1>2, <2>3 DEF SavingsFit, SavingRows
    <2>5. QED
        BY <1>1, <2>4
<1>7. CASE rows = {}
    BY <1>1, <1>7
<1>8. QED
    BY <1>6, <1>7

\* A step that leaves the savings, the repayments and the tokens alone.
LEMMA AsideStep ==
    ASSUME TagihanInvariant,
           loans' = loans, repayments' = repayments, suspensions' = suspensions,
           savings' = savings, marks' = marks, references' = references, claims' = claims,
           ConfigsFit'
    PROVE  TagihanInvariant'
<1>1. HistoryInvariant' /\ SavingsFit' /\ ReferencesFit'
    BY DEF TagihanInvariant, HistoryInvariant, SavingsFit, ReferencesFit
<1>2. TermsStay
    BY SameTermsSame DEF TermsStay
<1>3. ClaimsFit'
    BY <1>2, ClaimsStay DEF TagihanInvariant
<1>4. QED
    BY <1>1, <1>3 DEF TagihanInvariant

\* Previews, confirmations, expiry and mappings keep the invariant.
LEMMA ImportSteps ==
    ASSUME TagihanInvariant, ImportStep
    PROVE  TagihanInvariant'
<1>1. PICK p \in ClaimIds :
          \/ \E f \in readTagihanFile : previewTagihan(p, f)
          \/ confirmTagihan(p)
          \/ expireTagihanPreview(p)
    BY DEF ImportStep
<1>2. CASE \E f \in readTagihanFile : previewTagihan(p, f)
    <2>1. PICK f \in readTagihanFile : previewTagihan(p, f)
        BY <1>2
    <2>2. ClaimsFit'
        BY <2>1, PreviewStep
    <2>3. HistoryInvariant' /\ SavingsFit' /\ ReferencesFit' /\ ConfigsFit'
        BY <2>1 DEF previewTagihan, savingsVars, loansVars, TagihanInvariant, HistoryInvariant,
                    SavingsFit, ReferencesFit, ConfigsFit
    <2>4. QED
        BY <2>2, <2>3 DEF TagihanInvariant
<1>3. CASE confirmTagihan(p)
    BY <1>3, ConfirmStep
<1>4. CASE expireTagihanPreview(p)
    <2>1. /\ claims' = [claims EXCEPT ![p] = NoClaim] /\ loans' = loans
          /\ HistoryInvariant' /\ SavingsFit' /\ ReferencesFit' /\ ConfigsFit'
        BY <1>4 DEF expireTagihanPreview, savingsVars, loansVars, TagihanInvariant, HistoryInvariant,
                    SavingsFit, ReferencesFit, ConfigsFit
    <2>2. claims = [q \in ClaimIds |-> claims[q]] /\ \A q \in ClaimIds : ClaimFits(claims[q])
        BY DEF TagihanInvariant, ClaimsFit
    <2>3. claims' = [q \in ClaimIds |-> claims'[q]]
        BY <2>1, <2>2
    <2>4. ASSUME NEW q \in ClaimIds PROVE ClaimFits(claims[q])'
        <3>1. claims'[q] = claims[q] \/ claims'[q] = NoClaim
            BY <2>1, <2>2
        <3>2. QED
            BY <2>1, <2>2, <3>1 DEF ClaimFits
    <2>5. QED
        BY <2>1, <2>3, <2>4 DEF TagihanInvariant, ClaimsFit
<1>5. QED
    BY <1>1, <1>2, <1>3, <1>4

\* Changes of configurations and of members keep it.
LEMMA MemberSteps ==
    ASSUME TagihanInvariant, MemberStep
    PROVE  TagihanInvariant'
<1>1. /\ loans' = loans /\ repayments' = repayments /\ suspensions' = suspensions
      /\ savings' = savings /\ marks' = marks /\ references' = references /\ claims' = claims
    BY DEF MemberStep, updateMemberTagihanConfig, ensureMissingMemberTagihanConfigs, setMemberType,
           setMappings, insertMemberDeactivationRequest, decideMemberDeactivationRequest,
           savingsVars, loansVars, importVars
<1>2. ConfigsFit /\ SavingsFit
    BY DEF TagihanInvariant
<1>3. ASSUME NEW m \in Members, NEW config \in Configs, updateMemberTagihanConfig(m, config)
      PROVE  ConfigsFit'
    BY <1>2, <1>3, TagihanAssumption DEF updateMemberTagihanConfig, ConfigsFit
<1>4. ASSUME ensureMissingMemberTagihanConfigs
      PROVE  ConfigsFit'
    <2>1. configs' = [m \in Members |->
              IF configs[m] # NoConfig THEN configs[m] ELSE [c \in Deducted |-> LatestSaving(m, c)]]
        BY <1>4 DEF ensureMissingMemberTagihanConfigs
    <2>2. \A m \in Members : [c \in Deducted |-> LatestSaving(m, c)] \in [Deducted -> Nat]
        BY <1>2, LatestIsNat
    <2>3. QED
        BY <1>2, <2>1, <2>2 DEF ConfigsFit
<1>5. ASSUME configs' = configs
      PROVE  ConfigsFit'
    BY <1>2, <1>5 DEF ConfigsFit
<1>6. ConfigsFit'
    BY <1>3, <1>4, <1>5 DEF MemberStep, setMemberType, setMappings,
           insertMemberDeactivationRequest, decideMemberDeactivationRequest, importVars
<1>7. QED
    BY <1>1, <1>6, AsideStep

\* Savings that are recorded, corrected and removed by hand keep it.
LEMMA SavingSteps ==
    ASSUME TagihanInvariant, SavingStep
    PROVE  TagihanInvariant'
<1>1. /\ loans' = loans /\ repayments' = repayments /\ suspensions' = suspensions
      /\ references' = references /\ claims' = claims /\ configs' = configs
    BY DEF SavingStep, recordSavingByHand, correctSavingByHand, removeSavingByHand, loansVars, importVars
<1>2. /\ savings \in [SavingIds -> SavingRows]
      /\ \A s \in SavingIds : savings[s].type = "deposit" => savings[s].amount > 0
      /\ marks = [s \in SavingIds |-> marks[s]]
      /\ \A s \in SavingIds : marks[s].month \in Nat /\ marks[s].at \in Nat
    BY DEF TagihanInvariant, SavingsFit
<1>3. ASSUME NEW s \in SavingIds, NEW m \in Members, NEW c \in Deducted, NEW amount \in DepositAmounts,
             NEW month \in RecordMonths, NEW reference \in HandReferences,
             recordSavingByHand(s, m, c, amount, month, reference)
      PROVE  SavingsFit'
    <2> DEFINE row  == SavedRow(<<m, c>>, amount)
               mark == [reference |-> reference, month |-> month, at |-> CreatedSavings + 1]
    <2>1. savings' = [savings EXCEPT ![s] = row] /\ marks' = [marks EXCEPT ![s] = mark]
        BY <1>3 DEF recordSavingByHand, insertSaving, SavedRow
    <2>2. amount \in Nat /\ amount > 0 /\ month \in Nat
        BY SavingsAssumption, TagihanAssumption
    <2>3. row \in SavingRows /\ row.amount > 0
        <3>1. <<m, c>> \in Members \X Deducted
            OBVIOUS
        <3>2. QED
            BY <2>2, <3>1, SavedRowFacts
    <2>4. mark.month \in Nat /\ mark.at \in Nat
        BY <2>2, CreatedIsNat
    <2> HIDE DEF row, mark
    <2>5. /\ savings' \in [SavingIds -> SavingRows]
          /\ marks' = [q \in SavingIds |-> marks'[q]]
          /\ \A q \in SavingIds : /\ savings'[q] = IF q = s THEN row ELSE savings[q]
                                  /\ marks'[q] = IF q = s THEN mark ELSE marks[q]
        BY <1>2, <2>1, <2>3
    <2>6. \A q \in SavingIds : /\ savings'[q].type = "deposit" => savings'[q].amount > 0
                               /\ marks'[q].month \in Nat /\ marks'[q].at \in Nat
        BY <1>2, <2>3, <2>4, <2>5
    <2>7. QED
        BY <2>5, <2>6 DEF SavingsFit
<1>4. ASSUME NEW s \in SavingIds, NEW amount \in DepositAmounts, correctSavingByHand(s, amount)
      PROVE  SavingsFit'
    <2> DEFINE row == [savings[s] EXCEPT !.amount = amount]
    <2>1. savings' = [savings EXCEPT ![s] = row] /\ marks' = marks
        BY <1>4 DEF correctSavingByHand, correctSavingByID, importVars
    <2>2. amount \in Nat /\ amount > 0
        BY SavingsAssumption
    <2>3. row \in SavingRows /\ row.amount > 0
        BY <1>2, <2>2 DEF SavingRows
    <2> HIDE DEF row
    <2>4. /\ savings' \in [SavingIds -> SavingRows]
          /\ \A q \in SavingIds : savings'[q] = IF q = s THEN row ELSE savings[q]
        BY <1>2, <2>1, <2>3
    <2>5. \A q \in SavingIds : savings'[q].type = "deposit" => savings'[q].amount > 0
        BY <1>2, <2>3, <2>4
    <2>6. QED
        BY <1>2, <2>1, <2>4, <2>5 DEF SavingsFit
<1>5. ASSUME NEW s \in SavingIds, removeSavingByHand(s)
      PROVE  SavingsFit'
    <2> DEFINE row == [savings[s] EXCEPT !.type = "removed"]
    <2>1. savings' = [savings EXCEPT ![s] = row] /\ marks' = marks
        BY <1>5 DEF removeSavingByHand, removeSavingByID, importVars
    <2>2. row \in SavingRows /\ row.type # "deposit"
        BY <1>2 DEF SavingRows
    <2> HIDE DEF row
    <2>3. /\ savings' \in [SavingIds -> SavingRows]
          /\ \A q \in SavingIds : savings'[q] = IF q = s THEN row ELSE savings[q]
        BY <1>2, <2>1, <2>2
    <2>4. \A q \in SavingIds : savings'[q].type = "deposit" => savings'[q].amount > 0
        BY <1>2, <2>2, <2>3
    <2>5. QED
        BY <1>2, <2>1, <2>3, <2>4 DEF SavingsFit
<1>6. SavingsFit'
    BY <1>3, <1>4, <1>5 DEF SavingStep
<1>7. HistoryInvariant' /\ ReferencesFit' /\ ConfigsFit'
    BY <1>1 DEF TagihanInvariant, HistoryInvariant, ReferencesFit, ConfigsFit
<1>8. TermsStay
    BY <1>1, SameTermsSame DEF TermsStay
<1>9. ClaimsFit'
    BY <1>1, <1>8, ClaimsStay DEF TagihanInvariant
<1>10. QED
    BY <1>6, <1>7, <1>9 DEF TagihanInvariant

\* Repayments by hand, suspensions and new loans keep it.
LEMMA LoanSteps ==
    ASSUME TagihanInvariant, LoanStep
    PROVE  TagihanInvariant'
<1>1. HistoryInvariant /\ repayments \in RepaymentTables
      /\ references = [r \in RepaymentIds |-> references[r]]
      /\ \A r \in RepaymentIds : repayments[r].status = "recorded" => repayments[r].amount > 0
    BY DEF TagihanInvariant, HistoryInvariant, HistoryOK, ReferencesFit
<1>2. ASSUME NEW l \in LoanIds, NEW c \in Contracts, disburse(l, c)
      PROVE  HistoryInvariant' /\ TermsStay /\ ReferencesFit'
    <2>1. openLoan(l, c)
        BY <1>2 DEF disburse
    <2>2. HistoryInvariant' /\ TermsStay
        BY <1>1, <2>1, OpenStep, ChangedStay
    <2>3. ReferencesFit'
        BY <1>1, <1>2 DEF disburse, openLoan, importVars, ReferencesFit
    <2>4. QED
        BY <2>2, <2>3
<1>3. ASSUME NEW l \in LoanIds, NEW r \in RepaymentIds, NEW amount \in RepaymentAmounts,
             NEW reference \in HandReferences, recordRepaymentByHand(l, r, amount, reference)
      PROVE  HistoryInvariant' /\ TermsStay /\ ReferencesFit'
    <2>1. recordRepaymentTx(l, r, amount) /\ references' = [references EXCEPT ![r] = reference]
        BY <1>3 DEF recordRepaymentByHand
    <2>2. HistoryInvariant' /\ TermsStay
        BY <1>1, <2>1, RecordStep, ChangedStay
    <2>3. /\ repayments' = [repayments EXCEPT ![r] =
                 [status |-> "recorded", loan |-> l, amount |-> amount]]
        BY <2>1 DEF recordRepaymentTx
    <2>4. amount \in Nat /\ amount > 0
        BY LoansAssumption
    <2>5. \A k \in RepaymentIds : repayments'[k].status = "recorded" => repayments'[k].amount > 0
        BY <1>1, <2>3, <2>4 DEF RepaymentTables
    <2>6. references' = [k \in RepaymentIds |-> references'[k]]
        BY <1>1, <2>1
    <2>7. QED
        BY <2>2, <2>5, <2>6 DEF ReferencesFit
<1>4. ASSUME NEW r \in RepaymentIds, NEW amount \in RepaymentAmounts, correctRepaymentByHand(r, amount)
      PROVE  HistoryInvariant' /\ TermsStay /\ ReferencesFit'
    <2>1. correctRepaymentByID(r, amount) /\ references' = references
        BY <1>4 DEF correctRepaymentByHand, importVars
    <2>2. HistoryInvariant' /\ TermsStay
        BY <1>1, <2>1, CorrectStep, ChangedStay
    <2> DEFINE row == [repayments[r] EXCEPT !.amount = amount]
    <2>3. repayments' = [repayments EXCEPT ![r] = row] /\ repayments[r].status = "recorded"
        BY <2>1 DEF correctRepaymentByID
    <2>4. amount \in Nat /\ amount > 0
        BY LoansAssumption
    <2>5. row.amount > 0
        <3>1. repayments[r] \in RepaymentRows
            BY <1>1, <2>3 DEF RepaymentTables, NoRepayment
        <3>2. QED
            BY <2>4, <3>1 DEF RepaymentRows
    <2> HIDE DEF row
    <2>6. \A k \in RepaymentIds : repayments'[k].status = "recorded" => repayments'[k].amount > 0
        BY <1>1, <2>3, <2>5 DEF RepaymentTables
    <2>7. QED
        BY <1>1, <2>1, <2>2, <2>6 DEF ReferencesFit
<1>5. ASSUME NEW r \in RepaymentIds, removeRepaymentByHand(r)
      PROVE  HistoryInvariant' /\ TermsStay /\ ReferencesFit'
    <2>1. removeRepaymentByID(r) /\ references' = references
        BY <1>5 DEF removeRepaymentByHand, importVars
    <2>2. HistoryInvariant' /\ TermsStay
        BY <1>1, <2>1, RemoveStep, ChangedStay
    <2> DEFINE row == [repayments[r] EXCEPT !.status = "removed"]
    <2>3. repayments' = [repayments EXCEPT ![r] = row] /\ repayments[r].status = "recorded"
        BY <2>1 DEF removeRepaymentByID
    <2>4. row.status # "recorded"
        <3>1. repayments[r] \in RepaymentRows
            BY <1>1, <2>3 DEF RepaymentTables, NoRepayment
        <3>2. QED
            BY <3>1 DEF RepaymentRows
    <2> HIDE DEF row
    <2>5. \A k \in RepaymentIds : repayments'[k].status = "recorded" => repayments'[k].amount > 0
        BY <1>1, <2>3, <2>4 DEF RepaymentTables
    <2>6. QED
        BY <1>1, <2>1, <2>2, <2>5 DEF ReferencesFit
<1>6. ASSUME NEW l \in LoanIds, NEW month \in StatementMonths, recordTagihanSuspension(l, month)
      PROVE  HistoryInvariant' /\ TermsStay /\ ReferencesFit'
    <2>1. applyLoanSuspensionTx(l, month) /\ references' = references
        BY <1>6 DEF recordTagihanSuspension, importVars
    <2>2. HistoryInvariant' /\ TermsStay
        BY <1>1, <2>1, SuspendStep, ChangedStay
    <2>3. repayments' = repayments
        BY <2>1 DEF applyLoanSuspensionTx
    <2>4. QED
        BY <1>1, <2>1, <2>2, <2>3 DEF ReferencesFit
<1>7. HistoryInvariant' /\ TermsStay /\ ReferencesFit'
    BY <1>2, <1>3, <1>4, <1>5, <1>6 DEF LoanStep
<1>8. configs' = configs /\ claims' = claims /\ marks' = marks
    BY DEF LoanStep, disburse, recordRepaymentByHand, correctRepaymentByHand, removeRepaymentByHand,
           recordTagihanSuspension, importVars
<1>9. savings' = savings
    BY DEF LoanStep, disburse, openLoan, recordRepaymentByHand, recordRepaymentTx,
           correctRepaymentByHand, correctRepaymentByID, removeRepaymentByHand,
           removeRepaymentByID, refreshLoanRepaymentScheduleTx,
           recordTagihanSuspension, applyLoanSuspensionTx, savingsVars
<1>10. SavingsFit' /\ ConfigsFit'
    BY <1>8, <1>9 DEF TagihanInvariant, SavingsFit, ConfigsFit
<1>11. ClaimsFit'
    BY <1>7, <1>8, ClaimsStay DEF TagihanInvariant
<1>12. QED
    BY <1>7, <1>10, <1>11 DEF TagihanInvariant

(***************************************************************************)
(* Whatever is previewed, confirmed, recorded by hand, suspended, configured or *)
(* left to expire in between: rows of loans, savings and marks fit each other, *)
(* and what an unexpired token shows is what its file and the state it was made *)
(* from (the snapshot of reviewTagihan, tagihan_review.go:392) call for.   *)
(***************************************************************************)
THEOREM TagihanInvariantHolds == TagihanSpec => []TagihanInvariant
<1>1. TagihanInit => TagihanInvariant
    <2> SUFFICES ASSUME TagihanInit PROVE TagihanInvariant
        OBVIOUS
    <2>1. HistoryInvariant
        BY InitHistory DEF TagihanInit
    <2>2. SavingsFit
        <3>1. NoSaving \in SavingRows /\ NoSaving.type # "deposit"
            BY SavingsAssumption DEF NoSaving, SavingRows
        <3>2. savings = [s \in SavingIds |-> NoSaving] /\ marks = [s \in SavingIds |-> NoMark]
            BY DEF TagihanInit
        <3>3. NoMark.month \in Nat /\ NoMark.at \in Nat
            BY DEF NoMark, NoMonth
        <3>4. QED
            BY <3>1, <3>2, <3>3 DEF SavingsFit
    <2>3. ReferencesFit
        BY DEF TagihanInit, LoansInit, NoRepayment, ReferencesFit
    <2>4. ConfigsFit
        BY DEF TagihanInit, ConfigsFit
    <2>5. ClaimsFit
        BY DEF TagihanInit, ClaimsFit, ClaimFits
    <2>6. QED
        BY <2>1, <2>2, <2>3, <2>4, <2>5 DEF TagihanInvariant
<1>2. TagihanInvariant /\ [TagihanNext]_tagihanVars => TagihanInvariant'
    <2> SUFFICES ASSUME TagihanInvariant, [TagihanNext]_tagihanVars
                 PROVE  TagihanInvariant'
        OBVIOUS
    <2>1. CASE UNCHANGED tagihanVars
        <3>1. /\ loans' = loans /\ repayments' = repayments /\ suspensions' = suspensions
              /\ savings' = savings /\ marks' = marks /\ references' = references
              /\ claims' = claims /\ configs' = configs
            BY <2>1 DEF tagihanVars, savingsVars, loansVars, importVars
        <3>2. ConfigsFit'
            BY <3>1 DEF TagihanInvariant, ConfigsFit
        <3>3. QED
            BY <3>1, <3>2, AsideStep
    <2>2. QED
        BY <2>1, ImportSteps, MemberSteps, SavingSteps, LoanSteps DEF TagihanNext
<1>3. QED
    BY <1>1, <1>2, PTL DEF TagihanSpec

(***************************************************************************)
(* The statement (tagihanRows), the sheet that is exported for it          *)
(* (addLoanDetailSheet) and the review of the returned file (loadReviewLoans) *)
(* bill the same, though each adds up other rows by another query.         *)
(***************************************************************************)
THEOREM BillsAgreeHolds == TagihanSpec => []BillsAgree
<1>1. TagihanInvariant => BillsAgree
    BY BillsFollow DEF TagihanInvariant
<1>2. QED
    BY <1>1, TagihanInvariantHolds, PTL

-----------------------------------------------------------------------------
(***************************************************************************)
(* A payment of no more than what is due by a month reaches no instalment  *)
(* of a later month.                                                       *)
(***************************************************************************)
LEMMA LackingBefore ==
    ASSUME NEW items \in Items, NEW total \in Nat, PaidUp(items, total),
           NEW n \in 1 .. Len(items) + 1
    PROVE  /\ Before(items, n) \in Nat
           /\ SumFunctionOnSet(Lacking(items), 1 .. n - 1)
                  = Before(items, n) - Share(total, Before(items, n))
<1> DEFINE f == Lacking(items)
           Lack(k) == SumFunctionOnSet(f, 1 .. k - 1)
           len == Len(items)
           Bad == {k \in 1 .. len + 1 : Lack(k) # Before(items, k) - Share(total, Before(items, k))}
<1>1. /\ len \in Nat /\ DOMAIN items = 1 .. len
      /\ \A k \in 1 .. len : items[k].paid \in Nat /\ items[k].scheduled \in Nat
    BY ItemFacts
<1>2. \A k \in 1 .. len : f[k] = items[k].scheduled - items[k].paid /\ f[k] \in Nat
    BY <1>1, PaidOldestFirst DEF Lacking, Unpaid
<1>3. /\ Before(items, 1) = 0
      /\ \A k \in 1 .. len + 1 : Before(items, k) \in Nat
      /\ \A k \in 1 .. len : Before(items, k + 1) = Before(items, k) + items[k].scheduled
    BY BeforeStep
<1>4. \A k \in 1 .. len : items[k].paid = Share(total - Before(items, k), items[k].scheduled)
    BY DEF PaidUp
<1>5. n \in 1 .. len + 1
    OBVIOUS
<1> HIDE DEF f, len
<1>6. Lack(1) = 0 /\ \A k \in 1 .. len : Lack(k + 1) = Lack(k) + f[k]
    BY <1>1, <1>2, PrefixSum
<1> HIDE DEF Lack
<1>7. Bad = {}
    <2>1. SUFFICES ASSUME Bad # {} PROVE FALSE
        OBVIOUS
    <2>2. PICK k \in Bad : \A j \in Bad : k <= j
        <3>1. Bad \subseteq Nat
            BY <1>1
        <3> HIDE DEF Bad
        <3>2. QED
            BY <2>1, <3>1, LeastNumber
    <2>3. k # 1
        BY <1>3, <1>6, <2>2 DEF Share
    <2> DEFINE j == k - 1
    <2>4. j \in 1 .. len /\ j \in 1 .. len + 1 /\ j < k /\ k = j + 1
        BY <1>1, <2>2, <2>3
    <2> HIDE DEF j
    <2> DEFINE b == Before(items, j)
               s == items[j].scheduled
    <2>5. Lack(j) = b - Share(total, b)
        BY <1>1, <2>2, <2>4
    <2>6. Lack(k) = (b - Share(total, b)) + (s - Share(total - b, s))
        BY <1>2, <1>4, <1>6, <2>4, <2>5
    <2>7. b \in Nat /\ s \in Nat /\ total \in Int
        BY <1>1, <1>3, <2>4
    <2>8. Before(items, k) = b + s
        BY <1>3, <2>4
    <2> HIDE DEF b, s
    <2>9. Share(total, b) + Share(total - b, s) = Share(total, b + s)
        BY <2>7, ShareSplits
    <2>10. Share(total, b) \in Int /\ Share(total - b, s) \in Int
        BY <2>7 DEF Share
    <2>11. Lack(k) = (b + s) - Share(total, b + s)
        BY <2>6, <2>7, <2>9, <2>10
    <2>12. QED
        BY <2>2, <2>8, <2>11
<1>8. QED
    BY <1>3, <1>5, <1>7 DEF Lack, f

\* A later instalment is due later.
LEMMA DueInOrder ==
    ASSUME NEW items \in Items, Ordered(items),
           NEW k \in 1 .. Len(items), NEW n \in 1 .. Len(items), k < n
    PROVE  items[k].due < items[n].due
<1> DEFINE len == Len(items)
           Bad == {j \in 1 .. len : k < j /\ ~(items[k].due < items[j].due)}
<1>1. len \in Nat /\ \A j \in 1 .. len : items[j].due \in Nat
    BY ItemFacts
<1>2. \A j \in 1 .. len - 1 : items[j].due < items[j + 1].due
    BY DEF Ordered
<1>3. k \in 1 .. len /\ n \in 1 .. len
    OBVIOUS
<1> HIDE DEF len
<1>4. Bad = {}
    <2>1. SUFFICES ASSUME Bad # {} PROVE FALSE
        OBVIOUS
    <2>2. PICK i \in Bad : \A j \in Bad : i <= j
        <3>1. Bad \subseteq Nat
            BY <1>1
        <3> HIDE DEF Bad
        <3>2. QED
            BY <2>1, <3>1, LeastNumber
    <2> DEFINE j == i - 1
    <2>3. j \in 1 .. len - 1 /\ j \in 1 .. len /\ i = j + 1 /\ k <= j /\ i \in 1 .. len
        BY <1>1, <1>3, <2>2
    <2> HIDE DEF j
    <2>4. items[j].due < items[i].due
        BY <1>2, <2>3
    <2>5. k = j \/ items[k].due < items[j].due
        <3>1. j < i /\ ~(i <= j)
            BY <1>1, <2>3
        <3>2. j \notin Bad
            BY <2>2, <3>1
        <3>3. QED
            BY <1>1, <1>3, <2>3, <3>2
    <2>6. items[k].due < items[i].due
        BY <1>1, <1>3, <2>3, <2>4, <2>5
    <2>7. QED
        BY <2>2, <2>6
<1>5. QED
    BY <1>3, <1>4

\* A part of a sum is no more than the sum.
LEMMA SumPart ==
    ASSUME NEW f, NEW S, IsFiniteSet(S), \A x \in S : f[x] \in Nat, NEW T \in SUBSET S
    PROVE  SumFunctionOnSet(f, T) \in Nat /\ SumFunctionOnSet(f, T) <= SumFunctionOnSet(f, S)
<1> DEFINE R == S \ T
<1>1. IsFiniteSet(T) /\ IsFiniteSet(R)
    BY FS_Subset
<1>2. T \cap R = {} /\ T \cup R = S
    OBVIOUS
<1>3. \A x \in T \cup R : f[x] \in Int
    BY <1>2
<1>4. (\A x \in T : f[x] \in Nat) /\ (\A x \in R : f[x] \in Nat)
    OBVIOUS
<1> HIDE DEF R
<1>5. SumFunctionOnSet(f, T) \in Nat /\ SumFunctionOnSet(f, R) \in Nat
    BY <1>1, <1>4, SumNat
<1>6. SumFunctionOnSet(f, T \cup R) = SumFunctionOnSet(f, T) + SumFunctionOnSet(f, R)
    BY <1>1, <1>2, <1>3, SumUnion
<1>7. SumFunctionOnSet(f, S) = SumFunctionOnSet(f, T) + SumFunctionOnSet(f, R)
    BY <1>2, <1>6, Zenon
<1>8. QED
    BY <1>5, <1>7

\* A payment within what is due by a month reaches no instalment of a later month.
LEMMA OnlyDue ==
    ASSUME NEW items \in Items, NEW new \in Items, NEW total \in Nat, NEW amount \in Nat,
           PaidUp(items, total), PaidUp(new, total + amount), SameSchedule(new, items),
           Ordered(items), NEW month \in Nat,
           amount <= UnpaidOn(items, DueBy(items, month)),
           NEW n \in DOMAIN items, new[n].paid > items[n].paid
    PROVE  MonthOf(items[n].due) <= month
<1> DEFINE f == Lacking(items)
           S == 1 .. n - 1
           b == Before(items, n)
           s == items[n].scheduled
           due == DueBy(items, month)
<1>1. /\ Len(items) \in Nat /\ DOMAIN items = 1 .. Len(items)
      /\ \A k \in 1 .. Len(items) : items[k].due \in Nat /\ items[k].scheduled \in Nat
    BY ItemFacts
<1>2. n \in 1 .. Len(items) /\ n \in 1 .. Len(items) + 1 /\ n \in Nat
    BY <1>1
<1>3. SUFFICES ASSUME ~(MonthOf(items[n].due) <= month) PROVE FALSE
    OBVIOUS
<1>4. due \subseteq S
    <2>1. ASSUME NEW k \in due PROVE k < n
        <3>1. k \in 1 .. Len(items) /\ MonthOf(items[k].due) <= month
            BY <1>1 DEF DueBy
        <3>2. items[k].due \in Nat /\ items[n].due \in Nat
            BY <1>1, <1>2, <3>1
        <3>3. items[k].due < items[n].due
            BY <1>3, <3>1, <3>2 DEF MonthOf
        <3>4. ~(n < k)
            <4>1. n < k => items[n].due < items[k].due
                BY <1>2, <3>1, DueInOrder
            <4>2. QED
                BY <3>2, <3>3, <4>1
        <3>5. k # n
            BY <3>2, <3>3
        <3>6. QED
            BY <1>2, <3>1, <3>4, <3>5
    <2>2. \A k \in due : k \in 1 .. Len(items)
        BY <1>1 DEF DueBy
    <2> HIDE DEF due
    <2>3. QED
        BY <1>1, <1>2, <2>1, <2>2
<1>5. due \in SUBSET DOMAIN items
    BY DEF DueBy
<1> HIDE DEF due
<1>6. /\ UnpaidOn(items, due) = SumFunctionOnSet(f, due)
      /\ \A k \in DOMAIN items : f[k] \in Nat
    BY <1>5, UnpaidOnFacts
<1>7. b \in Nat /\ SumFunctionOnSet(f, S) = b - Share(total, b)
    BY <1>2, LackingBefore
<1>8. SumFunctionOnSet(f, due) <= SumFunctionOnSet(f, S) /\ SumFunctionOnSet(f, due) \in Nat
    <2>1. IsFiniteSet(S)
        BY <1>2, FS_Interval
    <2>2. \A k \in S : f[k] \in Nat
        BY <1>1, <1>2, <1>6
    <2> HIDE DEF S, f
    <2>3. QED
        BY <1>4, <2>1, <2>2, SumPart
<1>9. amount <= b - Share(total, b)
    <2>1. amount <= SumFunctionOnSet(f, due)
        BY <1>6 DEF due
    <2>2. Share(total, b) \in Int
        BY <1>7 DEF Share
    <2> HIDE DEF f, S, b
    <2>3. QED
        BY <1>7, <1>8, <2>1, <2>2
<1>10. items[n].paid = Share(total - b, s)
    BY <1>2 DEF PaidUp
<1>11. new[n].paid = Share((total + amount) - b, s)
    <2>1. Len(new) = Len(items) /\ new[n].scheduled = s
        BY <1>2 DEF SameSchedule
    <2>2. Before(new, n) = b
        BY SameBefore
    <2>3. new[n].paid = Share((total + amount) - Before(new, n), new[n].scheduled)
        <3> DEFINE sum == total + amount
        <3>1. PaidUp(new, sum) /\ n \in 1 .. Len(new)
            BY <1>2, <2>1
        <3> HIDE DEF sum
        <3>2. new[n].paid = Share(sum - Before(new, n), new[n].scheduled)
            BY <3>1 DEF PaidUp
        <3>3. QED
            BY <3>2 DEF sum
    <2> HIDE DEF b, s
    <2>4. QED
        BY <2>1, <2>2, <2>3
<1>12. s \in Nat
    BY <1>1, <1>2
<1> HIDE DEF b, s
<1>13. Share((total + amount) - b, s) > Share(total - b, s)
    BY <1>10, <1>11
<1>14. total + amount > b
    BY <1>7, <1>12, <1>13 DEF Share
<1>15. QED
    BY <1>7, <1>9, <1>12, <1>13, <1>14 DEF Share

-----------------------------------------------------------------------------
(***************************************************************************)
(* What a confirmation records.                                            *)
(***************************************************************************)
LEMMA CollectedIsDue ==
    ASSUME HistoryInvariant, NEW f, FileOK(f), Accepted(f), NEW l \in DOMAIN Payments(f)
    PROVE  /\ l \in LoanIds /\ loans[l].status # "none"
           /\ RecordedPaid(l, f.month) = 0 /\ Payments(f)[l] <= Due(l, f.month)
<1>1. ASSUME f.form = "detailed"
      PROVE  /\ l \in LoanIds /\ loans[l].status # "none"
             /\ RecordedPaid(l, f.month) = 0 /\ Payments(f)[l] <= Due(l, f.month)
    <2>1. Payments(f) = DetailPayments(f)
        BY <1>1 DEF Payments
    <2>2. /\ l \in DOMAIN f.details /\ RecordedPaid(l, f.month) = 0
          /\ Payments(f)[l] = f.details[l].actual
        BY <2>1 DEF DetailPayments
    <2>3. DetailAccepted(f, l) /\ l \in LoanIds
        BY <1>1, <2>2 DEF Accepted, FileOK
    <2>4. loans[l].status # "none" /\ f.details[l].actual <= Due(l, f.month) + RecordedPaid(l, f.month)
        BY <2>3 DEF DetailAccepted
    <2>5. Due(l, f.month) \in Nat
        BY <2>3, <2>4, DueFacts
    <2>6. QED
        BY <2>2, <2>3, <2>4, <2>5
<1>2. ASSUME f.form # "detailed"
      PROVE  /\ l \in LoanIds /\ loans[l].status # "none"
             /\ RecordedPaid(l, f.month) = 0 /\ Payments(f)[l] <= Due(l, f.month)
    <2> DEFINE m    == loans[l].member
               type == loans[l].type
               S    == OfType(f, m, type)
               g    == [k \in S |-> RecordedPaid(k, f.month)]
               h    == [k \in S |-> Due(k, f.month) + RecordedPaid(k, f.month)]
               open == {k \in S : Due(k, f.month) + RecordedPaid(k, f.month) > 0}
    <2>1. Payments(f) = TypePayments(f)
        BY <1>2 DEF Payments
    <2>2. /\ l \in LoanIds \ Suspends(f) /\ loans[l].status # "none" /\ m \in f.members
          /\ Due(l, f.month) > 0 /\ RecordedOfType(f, m, type) = 0 /\ ActualOfType(f, m, type) > 0
          /\ Payments(f)[l] = ActualOfType(f, m, type)
        BY <2>1 DEF TypePayments
    <2>3. type \in LoanTypes
        BY <2>2, LentFacts, RowFacts
    <2>4. TypeAccepted(f, m, type)
        BY <1>2, <2>2, <2>3 DEF Accepted, RowAccepted
    <2>5. l \in S /\ \A k \in S : k \in LoanIds /\ loans[k].status # "none"
        BY <2>2 DEF OfType, LoansOf
    <2>6. /\ ActualOfType(f, m, type) <= ExpectedOfType(f, m, type)
          /\ Cardinality(open) <= 1
        BY <2>2, <2>4 DEF TypeAccepted
    <2>7. /\ RecordedOfType(f, m, type) = SumFunctionOnSet(g, S)
          /\ ExpectedOfType(f, m, type) = SumFunctionOnSet(h, S)
        BY DEF RecordedOfType, ExpectedOfType, SumFunction
    <2>8. IsFiniteSet(S)
        BY <2>2, <2>3, TypeFacts
    <2>9. open \subseteq S
        OBVIOUS
    <2> HIDE DEF S
    <2>10. \A k \in S : /\ Due(k, f.month) \in Nat /\ RecordedPaid(k, f.month) \in Nat
                        /\ g[k] = RecordedPaid(k, f.month)
                        /\ h[k] = Due(k, f.month) + RecordedPaid(k, f.month)
        BY <2>5, DueFacts, RecordedPaidFacts
    <2> HIDE DEF g, h
    <2>11. \A k \in S : RecordedPaid(k, f.month) = 0
        <3>1. \A k \in S : g[k] \in Nat
            BY <2>10
        <3>2. SumFunctionOnSet(g, S) = 0
            BY <2>2, <2>7
        <3>3. \A k \in S : SumFunctionOnSet(g, S) >= g[k]
            BY <2>8, <3>1, SumAtLeast
        <3>4. QED
            BY <2>10, <3>1, <3>2, <3>3
    <2>12. l \in open
        BY <2>2, <2>5, <2>10, <2>11
    <2>13. \A k \in open : k = l
        <3>1. SUFFICES ASSUME NEW k \in open, k # l PROVE FALSE
            OBVIOUS
        <3> HIDE DEF open
        <3>2. IsFiniteSet(open) /\ IsFiniteSet({l})
            BY <2>8, <2>9, FS_Subset, FS_Singleton
        <3>3. Cardinality({k}) = 1 /\ Cardinality({k} \cup {l}) = 2
            <4>1. IsFiniteSet({k}) /\ Cardinality({k}) = 1
                BY FS_Singleton
            <4>2. Cardinality({k} \cup {l}) = Cardinality({k}) + 1
                BY <3>1, <4>1, FS_AddElement
            <4>3. QED
                BY <4>1, <4>2
        <3>4. {k} \cup {l} \subseteq open
            BY <2>12, <3>1
        <3>5. /\ Cardinality({k} \cup {l}) <= Cardinality(open)
              /\ Cardinality(open) \in Nat
            BY <3>2, <3>4, FS_Subset, FS_CardinalityType
        <3>6. QED
            BY <2>6, <3>3, <3>5
    <2>14. \A k \in S \ {l} : h[k] = 0
        <3>1. \A k \in S \ {l} : k \notin open
            BY <2>13
        <3>2. QED
            BY <2>10, <3>1
    <2>15. SumFunctionOnSet(h, S) = h[l] + SumFunctionOnSet(h, S \ {l})
        <3>1. \A k \in S : h[k] \in Int
            BY <2>10
        <3>2. QED
            BY <2>5, <2>8, <3>1, SumRemove
    <2>16. SumFunctionOnSet(h, S \ {l}) = 0
        <3>1. IsFiniteSet(S \ {l})
            BY <2>8, FS_Subset
        <3>2. QED
            BY <2>14, <3>1, SumZero
    <2>17. ExpectedOfType(f, m, type) = Due(l, f.month)
        BY <2>5, <2>7, <2>10, <2>11, <2>15, <2>16
    <2>18. QED
        BY <2>2, <2>5, <2>6, <2>11, <2>17
<1>3. QED
    BY <1>1, <1>2

\* What a confirmation does, in one place.
Records(f, deposits, payments, new, at, into) ==
    /\ FileOK(f) /\ Accepted(f)
    /\ deposits = Deposits(f) /\ payments = Payments(f) /\ new = NewSuspensions(f)
    /\ recordPayments(f, payments, new)
    /\ Confirmable(f.month, payments, new) /\ Saves(deposits)
    /\ SavedInto(at, f, deposits) /\ PaidInto(into, f, payments)

\* A confirmation records what was shown: the fingerprint is the same again.
LEMMA Recorded ==
    ASSUME TagihanInvariant, NEW p \in ClaimIds, Confirms(p)
    PROVE  /\ claims[p].shown = Shown(claims[p].file)
           /\ \E at, into : Records(claims[p].file, Deposits(claims[p].file), Payments(claims[p].file),
                                    NewSuspensions(claims[p].file), at, into)
<1> DEFINE f  == claims[p].file
           st == claims[p].state
           deposits == Deposits(f)
           payments == Payments(f)
           new == NewSuspensions(f)
<1>1. /\ claims[p] # NoClaim /\ Accepted(f) /\ Fingerprint(f) = st
      /\ recordDeposits(f, deposits) /\ recordPayments(f, payments, new)
    BY DEF Confirms, confirmTagihan
<1>2. FileOK(f) /\ claims[p].shown = ShownFrom(f, st, loans)
    BY <1>1 DEF TagihanInvariant, ClaimsFit, ClaimFits
<1> HIDE DEF f, st
<1>3. Shown(f) = ShownFrom(f, st, loans)
    BY <1>1, <1>2, ShownIs
<1>4. Confirmable(f.month, payments, new) /\ Saves(deposits)
    BY <1>1, <1>2, AcceptedFacts DEF TagihanInvariant
<1> HIDE DEF deposits, payments, new
<1>5. PICK into : PaidInto(into, f, payments)
    BY <1>1, <1>4, PaymentRows DEF Confirmable
<1>6. PICK at : SavedInto(at, f, deposits)
    BY <1>1, <1>4, DepositRows
<1>7. Records(f, deposits, payments, new, at, into)
    BY <1>1, <1>2, <1>4, <1>5, <1>6 DEF Records, deposits, payments, new
<1>8. QED
    BY <1>2, <1>3, <1>7 DEF f, deposits, payments, new

\* What is saved: one new record for each deposit, and no other one.
SavedTo(at, deposits) ==
    /\ \A s \in NewSavings : \E x \in DOMAIN deposits : s = at[x]
    /\ \A x \in DOMAIN deposits :
          /\ at[x] \in NewSavings /\ x = <<x[1], x[2]>>
          /\ savings'[at[x]].type = "deposit" /\ savings'[at[x]].member = x[1]
          /\ savings'[at[x]].category = x[2] /\ savings'[at[x]].amount = deposits[x]
          /\ x \in Members \X Deducted /\ at[x] \in SavingIds

\* The new saving records are those of the deposits.
LEMMA NewSavingsAre ==
    ASSUME NEW f, NEW deposits, Saves(deposits), NEW at, SavedInto(at, f, deposits)
    PROVE  SavedTo(at, deposits)
<1>1. ASSUME NEW x \in DOMAIN deposits
      PROVE  /\ at[x] \in SavingIds /\ savings[at[x]].type = "none"
             /\ savings'[at[x]].type = "deposit" /\ savings'[at[x]].member = x[1]
             /\ savings'[at[x]].category = x[2] /\ savings'[at[x]].amount = deposits[x]
             /\ x \in Members \X Deducted
    <2>1. x \in Members \X Deducted /\ deposits[x] \in Nat
        BY DEF Saves
    <2>2. /\ at[x] \in SavingIds /\ savings[at[x]].type = "none"
          /\ savings'[at[x]] = SavedRow(x, deposits[x])
        BY DEF SavedInto
    <2>3. QED
        BY <2>1, <2>2, SavedRowFacts
<1>2. \A s \in SavingIds : (\A x \in DOMAIN deposits : at[x] # s) => savings'[s] = savings[s]
    BY DEF SavedInto
<1>3. \A s \in NewSavings : \E x \in DOMAIN deposits : s = at[x]
    BY <1>2 DEF NewSavings
<1>4. \A x \in DOMAIN deposits : at[x] \in NewSavings
    BY <1>1 DEF NewSavings
<1>5. \A x \in DOMAIN deposits : x = <<x[1], x[2]>>
    BY <1>1
<1>6. QED
    BY <1>1, <1>3, <1>4, <1>5 DEF SavedTo

\* The new repayments are those of the payments.
LEMMA NewRepaymentsAre ==
    ASSUME NEW f, NEW payments, NEW into, PaidInto(into, f, payments)
    PROVE  /\ NewRepayments = {into[l] : l \in DOMAIN payments}
           /\ \A l \in DOMAIN payments :
                 /\ into[l] \in RepaymentIds /\ repayments[into[l]].status = "none"
                 /\ repayments'[into[l]].status = "recorded" /\ repayments'[into[l]].loan = l
                 /\ repayments'[into[l]].amount = payments[l] /\ references'[into[l]] = f.month
<1>1. ASSUME NEW l \in DOMAIN payments
      PROVE  /\ into[l] \in RepaymentIds /\ repayments[into[l]].status = "none"
             /\ repayments'[into[l]].status = "recorded" /\ repayments'[into[l]].loan = l
             /\ repayments'[into[l]].amount = payments[l] /\ references'[into[l]] = f.month
    <2>1. /\ into[l] \in RepaymentIds /\ repayments[into[l]].status = "none"
          /\ repayments'[into[l]] = [status |-> "recorded", loan |-> l, amount |-> payments[l]]
          /\ references'[into[l]] = f.month
        BY DEF PaidInto
    <2>2. QED
        BY <2>1
<1>2. \A r \in RepaymentIds : (\A l \in DOMAIN payments : into[l] # r) => repayments'[r] = repayments[r]
    BY DEF PaidInto
<1>3. NewRepayments = {into[l] : l \in DOMAIN payments}
    <2>1. ASSUME NEW r \in NewRepayments PROVE r \in {into[l] : l \in DOMAIN payments}
        BY <1>2 DEF NewRepayments
    <2>2. ASSUME NEW l \in DOMAIN payments PROVE into[l] \in NewRepayments
        BY <1>1 DEF NewRepayments
    <2>3. QED
        BY <2>1, <2>2
<1>4. QED
    BY <1>1, <1>3

\* A loan the file pays is not one it suspends.
LEMMA AcceptedApart ==
    ASSUME NEW f, NEW l \in DOMAIN Payments(f)
    PROVE  l \notin Suspends(f)
BY DEF Payments, DetailPayments, TypePayments, Suspends

\* What a confirmation records is what was shown for it.
LEMMA PromiseKept ==
    ASSUME TagihanInvariant, NEW p \in ClaimIds, Confirms(p),
           NEW shown, shown = claims[p].shown
    PROVE  /\ {<<savings'[s].member, savings'[s].category, savings'[s].amount>> : s \in NewSavings}
                = {<<mc[1], mc[2], shown.deposits[mc]>> : mc \in DOMAIN shown.deposits}
           /\ {<<repayments'[r].loan, repayments'[r].amount>> : r \in NewRepayments}
                = {<<l, shown.payments[l]>> : l \in DOMAIN shown.payments}
           /\ suspensions' \ suspensions = shown.suspended \X {claims[p].file.month}
<1> DEFINE f == claims[p].file
           deposits == Deposits(f)
           payments == Payments(f)
           new == NewSuspensions(f)
<1>1. PICK at, into : Records(f, deposits, payments, new, at, into)
    BY Recorded
<1>2. shown = Shown(f)
    BY Recorded
<1>3. shown.deposits = deposits /\ shown.payments = payments /\ shown.suspended = new
    BY <1>2 DEF Shown
<1> HIDE DEF f, deposits, payments, new
<1>4. /\ \A s \in NewSavings : \E x \in DOMAIN deposits : s = at[x]
      /\ \A x \in DOMAIN deposits :
            /\ at[x] \in NewSavings /\ x = <<x[1], x[2]>>
            /\ savings'[at[x]].member = x[1] /\ savings'[at[x]].category = x[2]
            /\ savings'[at[x]].amount = deposits[x]
    <2>1. SavedInto(at, f, deposits) /\ Saves(deposits)
        BY <1>1 DEF Records
    <2>2. SavedTo(at, deposits)
        BY <2>1, NewSavingsAre
    <2>3. QED
        BY <2>2 DEF SavedTo
<1>5. /\ NewRepayments = {into[l] : l \in DOMAIN payments}
      /\ \A l \in DOMAIN payments :
            repayments'[into[l]].loan = l /\ repayments'[into[l]].amount = payments[l]
    <2>1. PaidInto(into, f, payments)
        BY <1>1 DEF Records
    <2>2. QED
        BY <2>1, NewRepaymentsAre
<1>6. {<<savings'[s].member, savings'[s].category, savings'[s].amount>> : s \in NewSavings}
          = {<<mc[1], mc[2], deposits[mc]>> : mc \in DOMAIN deposits}
    BY <1>4
<1>7. {<<repayments'[r].loan, repayments'[r].amount>> : r \in NewRepayments}
          = {<<l, payments[l]>> : l \in DOMAIN payments}
    BY <1>5
<1>8. suspensions' \ suspensions = new \X {f.month}
    <2>1. suspensions' = suspensions \cup (new \X {f.month})
        BY <1>1 DEF Records, recordPayments
    <2>2. \A l \in new : <<l, f.month>> \notin suspensions
        BY <1>1 DEF Records, Confirmable
    <2>3. QED
        BY <2>1, <2>2
<1>9. QED
    BY <1>3, <1>6, <1>7, <1>8 DEF f

(***************************************************************************)
(* What reviewTagihan records on a confirmation is row by row what it showed on *)
(* the preview, whatever happened in between: it compares a digest of the state *)
(* it showed with the state of now (tagihan_review.go:431).                *)
(***************************************************************************)
THEOREM PreviewIsPromiseHolds == TagihanSpec => PreviewIsPromise
<1>1. ASSUME TagihanInvariant
      PROVE  \A p \in ClaimIds : Confirms(p) =>
        LET shown == claims[p].shown IN
        /\ {<<savings'[s].member, savings'[s].category, savings'[s].amount>> : s \in NewSavings}
             = {<<mc[1], mc[2], shown.deposits[mc]>> : mc \in DOMAIN shown.deposits}
        /\ {<<repayments'[r].loan, repayments'[r].amount>> : r \in NewRepayments}
             = {<<l, shown.payments[l]>> : l \in DOMAIN shown.payments}
        /\ suspensions' \ suspensions = shown.suspended \X {claims[p].file.month}
    BY <1>1, PromiseKept
<1>2. QED
    BY <1>1, TagihanInvariantHolds, PTL DEF PreviewIsPromise

-----------------------------------------------------------------------------
\* A deposit of the month is made for who has none, and only one.
LEMMA DepositedOnce ==
    ASSUME TagihanInvariant, NEW f, NEW deposits, NEW payments, NEW new, NEW at, NEW into,
           Records(f, deposits, payments, new, at, into),
           NEW m \in Members, NEW c \in Deducted
    PROVE  \/ DepositsOf(m, c, f.month)' = DepositsOf(m, c, f.month)
           \/ DepositsOf(m, c, f.month) = {} /\ Cardinality(DepositsOf(m, c, f.month)') = 1
<1> DEFINE mc  == <<m, c>>
           old == DepositsOf(m, c, f.month)
           now == {s \in SavingIds : /\ savings'[s].member = m /\ savings'[s].category = c
                                     /\ savings'[s].type = "deposit" /\ marks'[s].reference = f.month}
<1>1. DepositsOf(m, c, f.month)' = now
    BY DEF DepositsOf, RowsOf
<1>2. old = {s \in SavingIds : /\ savings[s].member = m /\ savings[s].category = c
                               /\ savings[s].type = "deposit" /\ marks[s].reference = f.month}
    BY DEF DepositsOf, RowsOf
<1>3. /\ \A x \in DOMAIN deposits :
            /\ at[x] \in SavingIds /\ savings[at[x]].type = "none"
            /\ savings'[at[x]].type = "deposit" /\ savings'[at[x]].member = x[1]
            /\ savings'[at[x]].category = x[2] /\ marks'[at[x]].reference = f.month
            /\ x = <<x[1], x[2]>>
      /\ \A s \in SavingIds : (\A x \in DOMAIN deposits : at[x] # s) =>
            savings'[s] = savings[s] /\ marks'[s] = marks[s]
    <2>1. SavedInto(at, f, deposits) /\ Saves(deposits)
        BY DEF Records
    <2>2. SavedTo(at, deposits)
        BY <2>1, NewSavingsAre
    <2>3. \A x \in DOMAIN deposits :
              /\ savings'[at[x]].type = "deposit" /\ savings'[at[x]].member = x[1]
              /\ savings'[at[x]].category = x[2] /\ x \in Members \X Deducted
        BY <2>2 DEF SavedTo
    <2>4. QED
        BY <2>1, <2>3 DEF SavedInto
<1>4. ASSUME NEW s \in SavingIds
      PROVE  s \in now <=> s \in old \/ (mc \in DOMAIN deposits /\ s = at[mc])
    <2>1. CASE \E x \in DOMAIN deposits : at[x] = s
        <3>1. PICK x \in DOMAIN deposits : at[x] = s
            BY <2>1
        <3>2. s \notin old
            BY <1>2, <1>3, <3>1
        <3>3. s \in now <=> x = mc
            BY <1>3, <3>1
        <3>4. mc \in DOMAIN deposits /\ s = at[mc] => s \in now
            <4>1. SUFFICES ASSUME mc \in DOMAIN deposits, s = at[mc] PROVE s \in now
                OBVIOUS
            <4>2. savings'[s].member = mc[1] /\ savings'[s].category = mc[2]
                BY <1>3, <4>1
            <4>3. QED
                BY <1>3, <4>1, <4>2
        <3>5. QED
            BY <3>1, <3>2, <3>3, <3>4
    <2>2. CASE \A x \in DOMAIN deposits : at[x] # s
        BY <1>2, <1>3, <2>2
    <2>3. QED
        BY <2>1, <2>2
<1>5. CASE mc \notin DOMAIN deposits
    <2>1. now = old
        BY <1>2, <1>4, <1>5
    <2>2. QED
        BY <1>1, <2>1
<1>6. CASE mc \in DOMAIN deposits
    <2>1. RecordedSaving(m, c, f.month) = 0
        <3>1. mc \in DOMAIN Deposits(f)
            BY <1>6 DEF Records
        <3>2. QED
            BY <3>1 DEF Deposits
    <2>2. old = {}
        BY <2>1, RecordedSavingFacts DEF TagihanInvariant
    <2>3. now = {at[mc]}
        BY <1>3, <1>4, <1>6, <2>2
    <2>4. Cardinality(now) = 1
        BY <2>3, FS_Singleton
    <2>5. QED
        BY <1>1, <2>2, <2>4
<1>7. QED
    BY <1>5, <1>6

\* So is a repayment of the month on a loan.
LEMMA RepaidOnce ==
    ASSUME TagihanInvariant, NEW f, NEW deposits, NEW payments, NEW new, NEW at, NEW into,
           Records(f, deposits, payments, new, at, into), NEW l \in LoanIds
    PROVE  \/ RepaymentsOf(l, f.month)' = RepaymentsOf(l, f.month)
           \/ RepaymentsOf(l, f.month) = {} /\ Cardinality(RepaymentsOf(l, f.month)') = 1
<1> DEFINE old == RepaymentsOf(l, f.month)
           now == {r \in RepaymentIds : /\ repayments'[r].status = "recorded"
                                        /\ repayments'[r].loan = l /\ references'[r] = f.month}
<1>1. RepaymentsOf(l, f.month)' = now
    BY DEF RepaymentsOf, RecordedFor
<1>2. old = {r \in RepaymentIds : /\ repayments[r].status = "recorded"
                                  /\ repayments[r].loan = l /\ references[r] = f.month}
    BY DEF RepaymentsOf, RecordedFor
<1>3. /\ \A k \in DOMAIN payments :
            /\ into[k] \in RepaymentIds /\ repayments[into[k]].status = "none"
            /\ repayments'[into[k]].status = "recorded" /\ repayments'[into[k]].loan = k
            /\ references'[into[k]] = f.month
      /\ \A r \in RepaymentIds : (\A k \in DOMAIN payments : into[k] # r) =>
            repayments'[r] = repayments[r] /\ references'[r] = references[r]
    <2>1. PaidInto(into, f, payments)
        BY DEF Records
    <2>2. \A r \in RepaymentIds : (\A k \in DOMAIN payments : into[k] # r) =>
              repayments'[r] = repayments[r] /\ references'[r] = references[r]
        BY <2>1 DEF PaidInto
    <2>3. QED
        BY <2>1, <2>2, NewRepaymentsAre
<1>4. ASSUME NEW r \in RepaymentIds
      PROVE  r \in now <=> r \in old \/ (l \in DOMAIN payments /\ r = into[l])
    <2>1. CASE \E k \in DOMAIN payments : into[k] = r
        <3>1. PICK k \in DOMAIN payments : into[k] = r
            BY <2>1
        <3>2. r \notin old
            BY <1>2, <1>3, <3>1
        <3>3. r \in now <=> k = l
            BY <1>3, <3>1
        <3>4. l \in DOMAIN payments /\ r = into[l] => r \in now
            BY <1>3
        <3>5. QED
            BY <3>1, <3>2, <3>3, <3>4
    <2>2. CASE \A k \in DOMAIN payments : into[k] # r
        BY <1>2, <1>3, <2>2
    <2>3. QED
        BY <2>1, <2>2
<1>5. CASE l \notin DOMAIN payments
    <2>1. now = old
        BY <1>2, <1>4, <1>5
    <2>2. QED
        BY <1>1, <2>1
<1>6. CASE l \in DOMAIN payments
    <2>1. RecordedPaid(l, f.month) = 0
        BY <1>6, CollectedIsDue DEF Records, TagihanInvariant
    <2>2. old = {}
        BY <2>1, RecordedPaidFacts DEF TagihanInvariant
    <2>3. now = {into[l]}
        BY <1>3, <1>4, <1>6, <2>2
    <2>4. Cardinality(now) = 1
        BY <2>3, FS_Singleton
    <2>5. QED
        BY <1>1, <2>2, <2>4
<1>7. QED
    BY <1>5, <1>6

\* A file pays nothing on an instalment that is due after its month.
LEMMA NothingEarly ==
    ASSUME TagihanInvariant, NEW f, NEW deposits, NEW payments, NEW new, NEW at, NEW into,
           Records(f, deposits, payments, new, at, into)
    PROVE  WhatIsDue(f)
<1> SUFFICES ASSUME NEW l \in LoanIds, loans'[l] # loans[l], NEW n \in DOMAIN loans[l].installments,
                    loans'[l].installments[n].paid > loans[l].installments[n].paid
             PROVE  MonthOf(loans[l].installments[n].due) <= f.month /\ l \notin Suspends(f)
    BY DEF WhatIsDue
<1>1. /\ HistoryInvariant /\ FileOK(f) /\ Accepted(f) /\ payments = Payments(f)
      /\ new = NewSuspensions(f) /\ Confirmable(f.month, payments, new)
      /\ recordPayments(f, payments, new) /\ PaidInto(into, f, payments)
    BY DEF Records, TagihanInvariant
<1>2. loans'[l] = IF l \in new THEN Suspended(loans[l], f.month)
                  ELSE IF l \in DOMAIN payments THEN Repaid(loans[l], payments[l])
                  ELSE loans[l]
    BY <1>1 DEF recordPayments, recordTagihanRepaymentTx
<1>3. l \notin new
    <2>1. SUFFICES ASSUME l \in new PROVE FALSE
        OBVIOUS
    <2>2. Suspendable(l, f.month)
        BY <1>1, <2>1 DEF Confirmable
    <2>3. loans[l].status = "active"
        BY <2>2 DEF Suspendable
    <2>4. loans[l] \in LoanRows /\ loans[l].installments \in Items
        BY <1>1, <2>3, LentFacts
    <2> DEFINE row == loans[l]
    <2>5. loans'[l] = Suspended(row, f.month)
        BY <1>2, <2>1
    <2>6. n \in DOMAIN row.installments /\ row.installments[n] \in Installments
        BY <2>4, ItemFacts
    <2> DEFINE target == CHOOSE k \in DOMAIN row.installments :
                             MonthOf(row.installments[k].due) = f.month
               items  == [k \in DOMAIN row.installments |->
                            IF k < target THEN row.installments[k]
                            ELSE [row.installments[k] EXCEPT !.due = nextSuspensionDate(@)]]
    <2>7. loans'[l].installments = items
        BY <2>4, <2>5 DEF Suspended, LoanRows
    <2> HIDE DEF row, target
    <2>8. items[n].paid = row.installments[n].paid
        BY <2>6 DEF Installments
    <2>9. row.installments[n].paid \in Nat
        BY <2>6 DEF Installments
    <2>10. QED
        BY <2>7, <2>8, <2>9 DEF row
<1>4. l \in DOMAIN payments
    BY <1>2, <1>3
<1>5. l \notin Suspends(f)
    BY <1>1, <1>4, AcceptedApart
<1>6. loans[l].status # "none" /\ payments[l] <= Due(l, f.month)
    BY <1>1, <1>4, CollectedIsDue
<1>7. /\ PaidRow(loans'[l], loans[l], loans[l].remaining - payments[l])
      /\ payments[l] <= loans[l].remaining
    BY <1>1, <1>4, CollectedLoan
<1>8. Collectable(loans[l]) /\ payments[l] \in Nat
    BY <1>1, <1>4 DEF recordPayments, MayRepay, Confirmable, Collects
<1> DEFINE row    == loans[l]
           next   == loans'[l]
           amount == payments[l]
           items  == row.installments
           total  == row.obligation - row.remaining
<1>9. RowOK(row) /\ row \in LoanRows /\ items \in Items
    BY <1>1, <1>6, LentFacts
<1>10. row.obligation \in Nat /\ row.remaining \in Nat
    BY <1>9, RowFacts
<1>11. total \in Nat /\ PaidUp(items, total)
    BY <1>9, <1>10 DEF RowOK, Balanced
<1>12. Ordered(items)
    BY <1>9 DEF RowOK, Calendar, Ordered
<1>13. /\ RowOK(next) /\ SameSchedule(next.installments, items)
       /\ next.remaining = row.remaining - amount /\ next.obligation = row.obligation
    BY <1>7 DEF PaidRow, SameTerms
<1>14. next.installments \in Items /\ PaidUp(next.installments, next.obligation - next.remaining)
    BY <1>13, RowFacts DEF RowOK, Balanced
<1>15. amount <= UnpaidOn(items, DueBy(items, f.month))
    BY <1>6, <1>8 DEF Due
<1>16. f.month \in Nat
    BY <1>1, LoansAssumption DEF FileOK
<1>17. n \in DOMAIN items /\ next.installments[n].paid > items[n].paid
    OBVIOUS
<1>18. amount \in Nat
    BY <1>8
<1> HIDE DEF row, next, amount
<1>19. next.obligation - next.remaining = total + amount
    BY <1>10, <1>13, <1>18
<1> HIDE DEF items, total
<1>20. PaidUp(next.installments, total + amount)
    BY <1>14, <1>19
<1>21. MonthOf(items[n].due) <= f.month
    BY <1>9, <1>11, <1>12, <1>13, <1>14, <1>15, <1>16, <1>17, <1>18, <1>20, OnlyDue
<1>22. QED
    BY <1>5, <1>21 DEF items, row

\* Nothing is deposited for a member who is leaving.
LEMMA NotFromLeaving ==
    ASSUME TagihanInvariant, NEW f, NEW deposits, NEW payments, NEW new, NEW at, NEW into,
           Records(f, deposits, payments, new, at, into)
    PROVE  LeavingStays
<1>1. /\ \A s \in NewSavings : \E x \in DOMAIN deposits : s = at[x]
      /\ \A x \in DOMAIN deposits : savings'[at[x]].member = x[1]
    <2>1. SavedInto(at, f, deposits) /\ Saves(deposits)
        BY DEF Records
    <2>2. SavedTo(at, deposits)
        BY <2>1, NewSavingsAre
    <2>3. QED
        BY <2>2 DEF SavedTo
<1>2. ASSUME NEW x \in DOMAIN deposits
      PROVE  memberStatus[x[1]] = "active" /\ ~hasPendingMemberDeactivation(x[1])
    <2>1. x \in DOMAIN Deposits(f) /\ Accepted(f) /\ FileOK(f)
        BY DEF Records
    <2>2. /\ x \in f.members \X Deducted
          /\ Configured(x[1], x[2]) > 0 /\ RecordedSaving(x[1], x[2], f.month) = 0
        BY <2>1 DEF Deposits
    <2>3. RowAccepted(f, x[1]) /\ x[1] \in Members
        BY <2>1, <2>2 DEF Accepted, FileOK
    <2>4. memberStatus[x[1]] = "active" /\ SavingAccepted(f, x[1], x[2])
        BY <2>2, <2>3 DEF RowAccepted
    <2>5. Configured(x[1], x[2]) \in Nat
        BY <2>2, <2>3, ConfiguredIsNat DEF TagihanInvariant
    <2>6. ~hasPendingMemberDeactivation(x[1])
        BY <2>2, <2>4, <2>5 DEF SavingAccepted
    <2>7. QED
        BY <2>4, <2>6
<1>3. \A s \in NewSavings :
          memberStatus[savings'[s].member] = "active"
          /\ ~hasPendingMemberDeactivation(savings'[s].member)
    BY <1>1, <1>2
<1>4. QED
    BY <1>3 DEF LeavingStays, hasPendingMemberDeactivation

\* The four parts together, of one confirmation.
LEMMA CollectedOnce ==
    ASSUME TagihanInvariant, NEW p \in ClaimIds, Confirms(p)
    PROVE  /\ OnceAMonth(claims[p].file.month)
           /\ WhatIsDue(claims[p].file)
           /\ LeavingStays
<1>1. PICK f : f = claims[p].file
    OBVIOUS
<1>2. claims' = claims
    BY DEF Confirms
<1>3. PICK deposits : deposits = Deposits(f)
    OBVIOUS
<1>4. PICK payments : payments = Payments(f)
    OBVIOUS
<1>5. PICK new : new = NewSuspensions(f)
    OBVIOUS
<1>6. PICK at, into : Records(f, deposits, payments, new, at, into)
    BY <1>1, <1>3, <1>4, <1>5, Recorded
<1>7. \A m \in Members, c \in Deducted :
          \/ DepositsOf(m, c, f.month)' = DepositsOf(m, c, f.month)
          \/ DepositsOf(m, c, f.month) = {} /\ Cardinality(DepositsOf(m, c, f.month)') = 1
    BY <1>6, DepositedOnce
<1>8. \A l \in LoanIds :
          \/ RepaymentsOf(l, f.month)' = RepaymentsOf(l, f.month)
          \/ RepaymentsOf(l, f.month) = {} /\ Cardinality(RepaymentsOf(l, f.month)') = 1
    BY <1>6, RepaidOnce
<1>9. WhatIsDue(f) /\ LeavingStays
    BY <1>6, NothingEarly, NotFromLeaving
<1>10. OnceAMonth(claims[p].file.month)
    <2>1. \A m \in Members, c \in Deducted :
              DepositsOf(m, c, claims[p].file.month)' = DepositsOf(m, c, f.month)'
        BY <1>1, <1>2 DEF DepositsOf, RowsOf
    <2>2. \A l \in LoanIds :
              RepaymentsOf(l, claims[p].file.month)' = RepaymentsOf(l, f.month)'
        BY <1>1, <1>2 DEF RepaymentsOf, RecordedFor
    <2>3. QED
        BY <1>1, <1>7, <1>8, <2>1, <2>2 DEF OnceAMonth
<1>11. QED
    BY <1>1, <1>9, <1>10

(***************************************************************************)
(* A confirmed file deducts nothing for a month that was deducted already, pays *)
(* nothing that is not due yet or suspended, and deposits nothing for a member *)
(* who is leaving (reviewTagihan, tagihan_review.go:306, :342, :429).      *)
(***************************************************************************)
THEOREM CollectedOnceAndDueHolds == TagihanSpec => CollectedOnceAndDue
<1>1. ASSUME TagihanInvariant
      PROVE  \A p \in ClaimIds : Confirms(p) =>
        /\ OnceAMonth(claims[p].file.month)
        /\ WhatIsDue(claims[p].file)
        /\ LeavingStays
    BY <1>1, CollectedOnce
<1>2. QED
    BY <1>1, TagihanInvariantHolds, PTL DEF CollectedOnceAndDue

=============================================================================
