----------------------------- MODULE LoanProofs -----------------------------
(***************************************************************************)
(* Loans, for any sets of members, requests, workbooks, keys and terms,    *)
(* any amounts and any width of integers.                                  *)
(*                                                                         *)
(* First, what the calculations of LoanSchedule and Loans return: terms    *)
(* are consistent, an instalment has received its share of the total that  *)
(* was paid, whatever the payments were and in whatever order they came,   *)
(* and due dates move by a month.  Then that the rows of a loan are        *)
(* explained by its history of payments, corrections, removals,            *)
(* suspensions and changes of the start, in any order, and that what       *)
(* loan_schedule.go calculates is exact and agrees with what it accepts.   *)
(*                                                                         *)
(* Last, that loan requests keep the promise, whoever enters them: what is *)
(* entered, approved and lent, then that a request, the decisions on it,   *)
(* the notices about it and the loan made from it agree, and that paying   *)
(* off older loans moves exactly what is owed.                             *)
(***************************************************************************)
EXTENDS LoanSafety, LoanRepayments, LoanQuotes, SumProofs, SequenceTheorems

LEMMA FunctionIsSequence ==
    ASSUME NEW S, NEW n \in Nat, NEW f \in [1 .. n -> S]
    PROVE  f \in Seq(S) /\ Len(f) = n
<1>1. f \in Seq(S)
    BY SeqDef
<1>2. Len(f) \in Nat /\ 1 .. Len(f) = 1 .. n
    BY <1>1, LenProperties
<1>3. QED
    BY <1>1, <1>2

-----------------------------------------------------------------------------
(***************************************************************************)
(* Terms: a fee that is calculated and fits is a number, and what has to   *)
(* be paid back is the principal and the fee.                              *)
(***************************************************************************)
LEMMA Int64Exact ==
    ASSUME NEW x \in Int, 0 <= x, x <= MaxInt64
    PROVE  Int64(x) = x
<1>1. MaxInt64 \in Nat
    BY LoanScheduleAssumption
<1>2. \A a, n \in Nat : a < n => a % n = a
    OBVIOUS
<1>3. (x + MaxInt64 + 1) % (2 * MaxInt64 + 2) = x + MaxInt64 + 1
    BY <1>1, <1>2
<1>4. QED
    BY <1>1, <1>3 DEF Int64

LEMMA QuotientBound ==
    ASSUME NEW x \in Int, NEW d \in Nat \ {0}, NEW y \in Nat, y <= x \div d
    PROVE  y * d <= x /\ y * d \in Nat
OBVIOUS

LEMMA PercentFee ==
    ASSUME NEW principal \in Nat, NEW percent \in Nat \ {0},
           calculatePercentAdminFee(principal, percent) # NoFee
    PROVE  /\ calculatePercentAdminFee(principal, percent) \in Nat
           /\ calculatePercentAdminFee(principal, percent) = (principal * percent + 50) \div 100
<1>1. MaxInt64 \in Nat
    BY LoanScheduleAssumption
<1>2. principal <= (MaxInt64 - 50) \div percent
    BY <1>1 DEF calculatePercentAdminFee
<1>3. principal * percent <= MaxInt64 - 50 /\ principal * percent \in Nat
    BY <1>1, <1>2, QuotientBound
<1> DEFINE product == principal * percent
<1> HIDE DEF product
<1>4. product \in Nat /\ product + 50 <= MaxInt64
    BY <1>1, <1>3 DEF product
<1>5. Int64(product + 50) = product + 50
    BY <1>1, <1>4, Int64Exact
<1>6. calculatePercentAdminFee(principal, percent) = (product + 50) \div 100
    BY <1>1, <1>2, <1>5 DEF calculatePercentAdminFee, product
<1>7. QED
    BY <1>4, <1>6 DEF product

LEMMA MonthlyFee ==
    ASSUME NEW principal \in Nat, calculateRegularLoanMonthlyAdminFeeV1(principal) # NoFee
    PROVE  /\ calculateRegularLoanMonthlyAdminFeeV1(principal) \in Nat
           /\ \E tier \in 0 .. principal :
                 /\ (tier = principal /\ principal <= FirstTierLimit) \/ tier = FirstTierLimit
                 /\ calculateRegularLoanMonthlyAdminFeeV1(principal)
                        = HalfUp(tier * 100 + (principal - tier) * 150, 10000)
<1> DEFINE firstTier == IF principal > FirstTierLimit THEN FirstTierLimit ELSE principal
           excess    == principal - firstTier
           numerator == Int64(firstTier * 100)
<1>1. MaxInt64 \in Nat /\ FirstTierLimit \in Nat /\ 100 * FirstTierLimit <= MaxInt64
    BY LoanScheduleAssumption
<1>2. firstTier \in Nat /\ excess \in Nat /\ firstTier * 100 <= MaxInt64
    BY <1>1
<1>3. ~(excess > (MaxInt64 - numerator) \div 150)
    BY DEF calculateRegularLoanMonthlyAdminFeeV1
<1>4. calculateRegularLoanMonthlyAdminFeeV1(principal)
          = HalfUp(Int64(numerator + Int64(excess * 150)), 10000)
    BY <1>3 DEF calculateRegularLoanMonthlyAdminFeeV1
<1> HIDE DEF firstTier, excess
<1>5. numerator = firstTier * 100
    BY <1>1, <1>2, Int64Exact
<1>6. excess * 150 <= MaxInt64 - firstTier * 100
    BY <1>1, <1>2, <1>3, <1>5
<1>7. Int64(excess * 150) = excess * 150
    BY <1>1, <1>2, <1>6, Int64Exact
<1> DEFINE sum == firstTier * 100 + excess * 150
<1>8. Int64(sum) = sum /\ sum \in Nat
    BY <1>1, <1>2, <1>6, Int64Exact
<1>9. calculateRegularLoanMonthlyAdminFeeV1(principal) = HalfUp(sum, 10000)
    BY <1>4, <1>5, <1>7, <1>8
<1> HIDE DEF sum
<1>10. HalfUp(sum, 10000) \in Nat
    BY <1>8 DEF HalfUp
<1>11. /\ firstTier \in 0 .. principal /\ excess = principal - firstTier
       /\ (firstTier = principal /\ principal <= FirstTierLimit) \/ firstTier = FirstTierLimit
    BY <1>1 DEF firstTier, excess
<1>12. QED
    BY <1>9, <1>10, <1>11 DEF sum

\* The terms of a loan of an amount, for a number of months from a day.
GoodTerms(t, principal, duration, start) ==
    /\ t.principal = principal /\ principal \in Nat \ {0}
    /\ t.duration = duration /\ duration \in Nat \ {0}
    /\ t.monthlyFee \in Nat \cup {NoFee} /\ t.fee \in Nat
    /\ t.obligation = principal + t.fee
    /\ t.installments = buildLoanScheduleFromObligation(t.obligation, duration, start)
    /\ t.obligation >= duration

LEMMA TermsAreGood ==
    ASSUME NEW principal \in Nat \ {0}, NEW duration \in Nat \ {0},
           NEW monthly \in Nat \cup {NoFee}, NEW fee \in Nat, Payable64(principal, fee),
           NEW start, ~Refused(Terms(principal, monthly, fee, duration, start))
    PROVE  GoodTerms(Terms(principal, monthly, fee, duration, start), principal, duration, start)
<1>1. MaxInt64 \in Nat
    BY LoanScheduleAssumption
<1>2. Int64(principal + fee) = principal + fee
    BY <1>1, Int64Exact DEF Payable64
<1> DEFINE terms == Terms(principal, monthly, fee, duration, start)
<1>3. /\ terms.principal = principal /\ terms.duration = duration
      /\ terms.monthlyFee = monthly /\ terms.fee = fee /\ terms.obligation = principal + fee
      /\ terms.installments = buildLoanScheduleFromObligation(terms.obligation, duration, start)
    BY <1>2 DEF Terms
<1>4. terms.installments # NoSchedule
    BY DEF Refused
<1> HIDE DEF terms
<1>5. terms.obligation >= duration
    BY <1>3, <1>4 DEF buildLoanScheduleFromObligation
<1>6. QED
    BY <1>3, <1>5 DEF GoodTerms, terms

LEMMA NoTermsRefused == Refused(NoTerms)
BY DEF Refused, NoTerms

LEMMA RegularTerms ==
    ASSUME NEW amount \in Nat, NEW duration \in Nat, NEW start,
           NEW t, t = calculateRegularLoanSchedule(amount, duration, start), ~Refused(t)
    PROVE  GoodTerms(t, amount, duration, start)
<1> DEFINE monthly == calculateRegularLoanMonthlyAdminFeeV1(amount)
           fee     == Int64(monthly * duration)
<1>1. MaxInt64 \in Nat
    BY LoanScheduleAssumption
<1>2. /\ amount > 0 /\ duration \in 1 .. maxLoanDurationForType("regular")
      /\ monthly # NoFee /\ monthly <= MaxInt64 \div duration /\ Payable64(amount, fee)
      /\ t = Terms(amount, monthly, fee, duration, start)
    BY NoTermsRefused DEF calculateRegularLoanSchedule
<1>3. monthly \in Nat
    BY <1>2, MonthlyFee
<1>4. duration \in Nat \ {0}
    BY <1>2 DEF maxLoanDurationForType
<1> HIDE DEF monthly
<1>5. monthly * duration <= MaxInt64 /\ monthly * duration \in Nat
    BY <1>1, <1>2, <1>3, <1>4, QuotientBound
<1>6. fee \in Nat
    BY <1>1, <1>5, Int64Exact
<1> HIDE DEF fee
<1>7. QED
    BY <1>2, <1>3, <1>4, <1>6, TermsAreGood

LEMMA SecondaryGoodsTerms ==
    ASSUME NEW amount \in Nat, NEW duration \in Nat, NEW start,
           NEW t, t = calculateSecondaryGoodsLoanSchedule(amount, duration, start), ~Refused(t)
    PROVE  GoodTerms(t, amount, duration, start)
<1> DEFINE fee == calculatePercentAdminFee(amount, 20)
<1>1. /\ amount > 0 /\ duration \in 1 .. maxLoanDurationForType("secondary_goods")
      /\ Payable64(amount, fee) /\ t = Terms(amount, NoFee, fee, duration, start)
    BY NoTermsRefused DEF calculateSecondaryGoodsLoanSchedule
<1>2. fee \in Nat
    BY <1>1, PercentFee DEF Payable64
<1>3. duration \in Nat \ {0}
    BY <1>1 DEF maxLoanDurationForType
<1> HIDE DEF fee
<1>4. amount \in Nat \ {0} /\ duration \in Nat \ {0} /\ NoFee \in Nat \cup {NoFee}
    BY <1>1, <1>2, <1>3
<1>5. QED
    BY <1>1, <1>2, <1>3, <1>4, TermsAreGood

LEMMA PaylaterTerms ==
    ASSUME NEW amount \in Nat, NEW duration \in Nat, NEW start,
           NEW t, t = calculatePaylaterLoanSchedule(amount, duration, start), ~Refused(t)
    PROVE  GoodTerms(t, amount, duration, start)
<1> DEFINE fee == calculatePercentAdminFee(amount, 5)
<1>1. /\ amount > 0 /\ duration = 1
      /\ Payable64(amount, fee) /\ t = Terms(amount, NoFee, fee, duration, start)
    BY NoTermsRefused DEF calculatePaylaterLoanSchedule
<1>2. fee \in Nat
    BY <1>1, PercentFee DEF Payable64
<1> HIDE DEF fee
<1>3. amount \in Nat \ {0} /\ duration \in Nat \ {0} /\ NoFee \in Nat \cup {NoFee}
    BY <1>1, <1>2
<1>4. QED
    BY <1>1, <1>2, <1>3, TermsAreGood

LEMMA VoucherTerms ==
    ASSUME NEW amount \in Nat, NEW fee \in Nat \cup {NoFee}, NEW duration \in Nat, NEW start,
           NEW t, t = calculateVoucherLoanSchedule(amount, fee, duration, start), ~Refused(t)
    PROVE  GoodTerms(t, amount, duration, start)
<1>1. /\ amount > 0 /\ fee >= 0 /\ duration = 1
      /\ Payable64(amount, fee) /\ t = Terms(amount, NoFee, fee, duration, start)
    BY NoTermsRefused DEF calculateVoucherLoanSchedule
<1>2. fee \in Nat
    BY <1>1 DEF NoFee
<1>3. amount \in Nat \ {0} /\ duration \in Nat \ {0} /\ NoFee \in Nat \cup {NoFee}
    BY <1>1, <1>2
<1>4. QED
    BY <1>1, <1>2, <1>3, TermsAreGood

-----------------------------------------------------------------------------
(***************************************************************************)
(* What the instalments before one of them amount to.                      *)
(***************************************************************************)
Amounts(items) == [k \in DOMAIN items |-> items[k].scheduled]

Before(items, n) == SumFunctionOnSet(Amounts(items), 1 .. n - 1)

\* Instalments in the first of which an amount was spread, the oldest first.
Items == Seq(Installments)

LEMMA ItemFacts ==
    ASSUME NEW items \in Items
    PROVE  /\ Len(items) \in Nat /\ DOMAIN items = 1 .. Len(items)
           /\ \A n \in 1 .. Len(items) :
                 /\ items[n] \in Installments
                 /\ items[n].due \in Nat /\ items[n].scheduled \in Nat /\ items[n].paid \in Nat
<1>1. Len(items) \in Nat /\ DOMAIN items = 1 .. Len(items)
    BY LenProperties DEF Items
<1>2. \A n \in 1 .. Len(items) : items[n] \in Installments
    BY ElementOfSeq DEF Items
<1>3. QED
    BY <1>1, <1>2 DEF Installments

LEMMA PrefixSum ==
    ASSUME NEW len \in Nat, NEW f, \A n \in 1 .. len : f[n] \in Nat
    PROVE  /\ SumFunctionOnSet(f, 1 .. 1 - 1) = 0
           /\ \A n \in 1 .. len + 1 : SumFunctionOnSet(f, 1 .. n - 1) \in Nat
           /\ \A n \in 1 .. len : SumFunctionOnSet(f, 1 .. (n + 1) - 1)
                                      = SumFunctionOnSet(f, 1 .. n - 1) + f[n]
<1>1. SumFunctionOnSet(f, 1 .. 1 - 1) = 0
    <2>1. 1 .. 1 - 1 = {}
        OBVIOUS
    <2>2. QED
        BY <2>1, SumEmpty
<1>2. ASSUME NEW n \in 1 .. len + 1 PROVE SumFunctionOnSet(f, 1 .. n - 1) \in Nat
    <2> DEFINE S == 1 .. n - 1
    <2>1. IsFiniteSet(S)
        BY FS_Interval
    <2>2. \A k \in S : f[k] \in Nat
        OBVIOUS
    <2> HIDE DEF S
    <2>3. SumFunctionOnSet(f, S) \in Nat
        BY <2>1, <2>2, SumNat
    <2>4. QED
        BY <2>3 DEF S
<1>3. ASSUME NEW n \in 1 .. len
      PROVE  SumFunctionOnSet(f, 1 .. (n + 1) - 1) = SumFunctionOnSet(f, 1 .. n - 1) + f[n]
    <2> DEFINE S == 1 .. n - 1
    <2>1. IsFiniteSet(S)
        BY FS_Interval
    <2>2. n \notin S /\ 1 .. (n + 1) - 1 = S \cup {n}
        OBVIOUS
    <2>3. \A k \in S \cup {n} : f[k] \in Int
        OBVIOUS
    <2> HIDE DEF S
    <2>4. SumFunctionOnSet(f, S \cup {n}) = SumFunctionOnSet(f, S) + f[n]
        BY <2>1, <2>2, <2>3, SumAdd
    <2>5. QED
        BY <2>2, <2>4 DEF S
<1>4. QED
    BY <1>1, <1>2, <1>3

LEMMA BeforeStep ==
    ASSUME NEW items \in Items
    PROVE  /\ Before(items, 1) = 0
           /\ \A n \in 1 .. Len(items) + 1 : Before(items, n) \in Nat
           /\ \A n \in 1 .. Len(items) :
                 Before(items, n + 1) = Before(items, n) + items[n].scheduled
           /\ Scheduled(items) = Before(items, Len(items) + 1)
<1> DEFINE f == Amounts(items)
<1>1. Len(items) \in Nat /\ DOMAIN f = 1 .. Len(items)
    BY ItemFacts DEF Amounts
<1>2. \A n \in 1 .. Len(items) : f[n] = items[n].scheduled /\ f[n] \in Nat
    BY ItemFacts DEF Amounts
<1>3. Scheduled(items) = SumFunctionOnSet(f, DOMAIN f)
    BY DEF Scheduled, SumFunction, Amounts
<1>4. 1 .. (Len(items) + 1) - 1 = 1 .. Len(items)
    BY <1>1
<1>5. \A n : Before(items, n) = SumFunctionOnSet(f, 1 .. n - 1)
    BY DEF Before
<1> HIDE DEF f
<1>6. /\ SumFunctionOnSet(f, 1 .. 1 - 1) = 0
      /\ \A n \in 1 .. Len(items) + 1 : SumFunctionOnSet(f, 1 .. n - 1) \in Nat
      /\ \A n \in 1 .. Len(items) :
            SumFunctionOnSet(f, 1 .. (n + 1) - 1) = SumFunctionOnSet(f, 1 .. n - 1) + f[n]
    BY <1>1, <1>2, PrefixSum
<1>7. QED
    BY <1>1, <1>2, <1>3, <1>4, <1>5, <1>6

-----------------------------------------------------------------------------
(***************************************************************************)
(* Of the total that was paid, an instalment has its share: what those     *)
(* before it leave, up to what is due on it.                               *)
(***************************************************************************)
Share(left, scheduled) ==
    IF left <= 0 THEN 0 ELSE IF left >= scheduled THEN scheduled ELSE left

PaidUp(items, total) ==
    \A n \in 1 .. Len(items) :
        items[n].paid = Share(total - Before(items, n), items[n].scheduled)

LEMMA ShareSplits ==
    ASSUME NEW total \in Int, NEW before \in Nat, NEW scheduled \in Nat
    PROVE  /\ Share(total, before) + Share(total - before, scheduled)
                  = Share(total, before + scheduled)
           /\ Share(total, scheduled) \in 0 .. scheduled
BY DEF Share

\* What is recorded as paid is the total, unless more came than was due.
LEMMA PaidTotal ==
    ASSUME NEW items \in Items, NEW total \in Nat, PaidUp(items, total)
    PROVE  /\ Scheduled(items) \in Nat
           /\ PaidSum(items) = Share(total, Scheduled(items))
<1> DEFINE f == [n \in DOMAIN items |-> items[n].paid]
           Paid(n) == SumFunctionOnSet(f, 1 .. n - 1)
           len == Len(items)
           Bad == {n \in 1 .. len + 1 : Paid(n) # Share(total, Before(items, n))}
<1>1. /\ len \in Nat /\ DOMAIN f = 1 .. len
      /\ \A n \in 1 .. len : f[n] = items[n].paid /\ f[n] \in Nat /\ items[n].scheduled \in Nat
    BY ItemFacts
<1>2. PaidSum(items) = Paid(len + 1)
    <2>1. 1 .. (len + 1) - 1 = DOMAIN f
        BY <1>1
    <2>2. QED
        BY <2>1 DEF PaidSum, SumFunction
<1> HIDE DEF f, len
<1>3. /\ Paid(1) = 0
      /\ \A n \in 1 .. len : Paid(n + 1) = Paid(n) + f[n]
    BY <1>1, PrefixSum
<1>4. /\ Before(items, 1) = 0
      /\ \A n \in 1 .. len + 1 : Before(items, n) \in Nat
      /\ \A n \in 1 .. len : Before(items, n + 1) = Before(items, n) + items[n].scheduled
      /\ Scheduled(items) = Before(items, len + 1)
    BY BeforeStep DEF len
<1> HIDE DEF Paid
<1>5. Bad = {}
    <2>1. SUFFICES ASSUME Bad # {} PROVE FALSE
        OBVIOUS
    <2>2. PICK k \in Bad : \A j \in Bad : k <= j
        <3>1. Bad \subseteq Nat
            BY <1>1
        <3> HIDE DEF Bad
        <3>2. QED
            BY <2>1, <3>1, LeastNumber
    <2>3. k # 1
        BY <1>3, <1>4, <2>2 DEF Share
    <2>4. k - 1 \in 1 .. len /\ k = (k - 1) + 1
        BY <1>1, <2>2, <2>3
    <2> DEFINE j == k - 1
    <2>5. j \in 1 .. len /\ j \in 1 .. len + 1 /\ j < k /\ k = j + 1
        BY <1>1, <2>4
    <2> HIDE DEF j
    <2>6. Paid(j) = Share(total, Before(items, j))
        BY <1>1, <2>2, <2>5
    <2>7. Paid(k) = Share(total, Before(items, j))
                    + Share(total - Before(items, j), items[j].scheduled)
        BY <1>1, <1>3, <2>5, <2>6 DEF PaidUp, len
    <2>8. Paid(k) = Share(total, Before(items, j) + items[j].scheduled)
        <3>1. Before(items, j) \in Nat
            BY <1>4, <2>5
        <3>a. items[j].scheduled \in Nat
            BY <1>1, <2>5
        <3>b. total \in Int
            OBVIOUS
        <3>2. Share(total, Before(items, j)) + Share(total - Before(items, j), items[j].scheduled)
                  = Share(total, Before(items, j) + items[j].scheduled)
            BY <3>1, <3>a, <3>b, ShareSplits
        <3>3. QED
            BY <2>7, <3>2
    <2>9. QED
        BY <1>4, <2>2, <2>5, <2>8
<1>6. QED
    <2>1. len + 1 \in 1 .. len + 1
        BY <1>1
    <2>2. Paid(len + 1) = Share(total, Before(items, len + 1))
        BY <1>5, <2>1
    <2>3. QED
        BY <1>2, <1>4, <2>1, <2>2

\* The same instalments, whatever was paid on them.
SameSchedule(new, old) ==
    /\ Len(new) = Len(old)
    /\ \A n \in 1 .. Len(old) : new[n].due = old[n].due /\ new[n].scheduled = old[n].scheduled

LEMMA SameBefore ==
    ASSUME NEW new \in Items, NEW old \in Items, SameSchedule(new, old)
    PROVE  (\A n : Before(new, n) = Before(old, n)) /\ Scheduled(new) = Scheduled(old)
<1>1. Amounts(new) = Amounts(old)
    BY ItemFacts DEF Amounts, SameSchedule
<1>2. QED
    BY <1>1 DEF Before, Scheduled, Amounts

\* Instalments on which the same total was paid are the same.
LEMMA SamePaid ==
    ASSUME NEW new \in Items, NEW old \in Items, SameSchedule(new, old), NEW total,
           PaidUp(new, total), PaidUp(old, total)
    PROVE  new = old
<1>1. \A n \in 1 .. Len(old) : new[n] \in Installments /\ old[n] \in Installments
    BY ItemFacts DEF SameSchedule
<1>2. \A n \in 1 .. Len(old) : new[n].paid = old[n].paid
    BY SameBefore DEF PaidUp, SameSchedule
<1>3. \A n \in 1 .. Len(old) : new[n] = old[n]
    BY <1>1, <1>2 DEF Installments, SameSchedule
<1>4. QED
    BY <1>3, SeqEqual DEF Items, SameSchedule

\* What a payment has left for the instalments after the n-th.
Rest(items, total, amount, n) ==
    IF Before(items, n + 1) <= total THEN amount
    ELSE IF Before(items, n + 1) - total >= amount THEN 0
    ELSE amount - (Before(items, n + 1) - total)

LEMMA RestStep ==
    ASSUME NEW items \in Items, NEW total \in Nat, PaidUp(items, total), NEW amount \in Nat
    PROVE  /\ Rest(items, total, amount, 0) = amount
           /\ \A n \in 1 .. Len(items) :
                 /\ Rest(items, total, amount, n)
                        = LeftAfter(Rest(items, total, amount, n - 1), items[n])
                 /\ items[n].paid + Applied(Rest(items, total, amount, n - 1), items[n])
                        = Share(total + amount - Before(items, n), items[n].scheduled)
<1>1. Rest(items, total, amount, 0) = amount
    BY BeforeStep DEF Rest
<1>2. ASSUME NEW n \in 1 .. Len(items)
      PROVE  /\ Rest(items, total, amount, n)
                    = LeftAfter(Rest(items, total, amount, n - 1), items[n])
             /\ items[n].paid + Applied(Rest(items, total, amount, n - 1), items[n])
                    = Share(total + amount - Before(items, n), items[n].scheduled)
    <2> DEFINE b == Before(items, n)
               s == items[n].scheduled
               p == items[n].paid
    <2>1. /\ b \in Nat /\ s \in Nat /\ p \in Nat /\ p = Share(total - b, s)
          /\ Before(items, n + 1) = b + s /\ Before(items, (n - 1) + 1) = b
        <3>1. Len(items) \in Nat /\ (n - 1) + 1 = n /\ n \in 1 .. Len(items) + 1
            BY ItemFacts
        <3>2. QED
            BY <3>1, ItemFacts, BeforeStep DEF PaidUp
    <2> DEFINE here  == Rest(items, total, amount, n)
               there == Rest(items, total, amount, n - 1)
    <2>2. /\ here = IF b + s <= total THEN amount
                    ELSE IF b + s - total >= amount THEN 0 ELSE amount - (b + s - total)
          /\ there = IF b <= total THEN amount
                     ELSE IF b - total >= amount THEN 0 ELSE amount - (b - total)
        BY <2>1 DEF Rest
    <2> DEFINE applied == Applied(there, items[n])
    <2>3. /\ applied = IF there > s - p THEN s - p ELSE there
          /\ LeftAfter(there, items[n]) = there - applied
        BY DEF Applied, LeftAfter, Unpaid
    <2> HIDE DEF b, s, p, here, there, applied
    <2>4. here = there - applied
        BY <2>1, <2>2, <2>3 DEF Share
    <2>5. p + applied = Share(total + amount - b, s)
        BY <2>1, <2>2, <2>3 DEF Share
    <2>6. QED
        BY <2>3, <2>4, <2>5 DEF b, s, p, here, there, applied
<1>3. QED
    BY <1>1, <1>2

-----------------------------------------------------------------------------
(***************************************************************************)
(* The recursions of the two functions that allocate payments.             *)
(***************************************************************************)
LEMMA PaymentSpreads ==
    ASSUME NEW items \in Items, NEW total \in Nat, PaidUp(items, total), NEW amount \in Nat
    PROVE  /\ PayOldestFirst(items, amount) \in Items
           /\ SameSchedule(PayOldestFirst(items, amount), items)
           /\ PaidUp(PayOldestFirst(items, amount), total + amount)
<1> DEFINE len == Len(items)
           Next1(g, n) == IF n = 0 THEN amount ELSE LeftAfter(g[n - 1], items[n])
           left == CHOOSE g : g = [n \in 0 .. len |-> Next1(g, n)]
           rest == [n \in 0 .. len |-> Rest(items, total, amount, n)]
           new  == PayOldestFirst(items, amount)
<1>1. len \in Nat /\ DOMAIN items = 1 .. len
    BY ItemFacts
<1>2. /\ Rest(items, total, amount, 0) = amount
      /\ \A n \in 1 .. len :
            /\ Rest(items, total, amount, n)
                   = LeftAfter(Rest(items, total, amount, n - 1), items[n])
            /\ items[n].paid + Applied(Rest(items, total, amount, n - 1), items[n])
                   = Share(total + amount - Before(items, n), items[n].scheduled)
    BY RestStep
<1>3. rest = [n \in 0 .. len |-> Next1(rest, n)]
    <2>1. \A n \in 0 .. len : rest[n] = Rest(items, total, amount, n)
        OBVIOUS
    <2>2. \A n \in 0 .. len : n = 0 \/ (n \in 1 .. len /\ n - 1 \in 0 .. len)
        BY <1>1
    <2>3. \A n \in 0 .. len : rest[n] = Next1(rest, n)
        BY <1>2, <2>1, <2>2
    <2> HIDE DEF Next1, rest
    <2>4. [n \in 0 .. len |-> rest[n]] = [n \in 0 .. len |-> Next1(rest, n)]
        BY <2>3
    <2>5. rest = [n \in 0 .. len |-> rest[n]]
        BY DEF rest
    <2>6. QED
        BY <2>4, <2>5
<1>4. left = [n \in 0 .. len |-> Next1(left, n)]
    BY <1>3
<1>5. new = [n \in DOMAIN items |->
                [items[n] EXCEPT !.paid = @ + Applied(left[n - 1], items[n])]]
    BY DEF PayOldestFirst
<1> HIDE DEF left, new, rest
<1> DEFINE Bad == {n \in 0 .. len : left[n] # Rest(items, total, amount, n)}
<1>6. Bad = {}
    <2>1. SUFFICES ASSUME Bad # {} PROVE FALSE
        OBVIOUS
    <2>2. PICK k \in Bad : \A j \in Bad : k <= j
        <3>1. Bad \subseteq Nat
            BY <1>1
        <3> HIDE DEF Bad
        <3>2. QED
            BY <2>1, <3>1, LeastNumber
    <2>3. k \in 0 .. len /\ left[k] = Next1(left, k)
        BY <1>4, <2>2
    <2>4. k # 0
        BY <1>2, <2>2, <2>3
    <2>5. k \in 1 .. len /\ k - 1 \in 0 .. len /\ k - 1 < k
        BY <1>1, <2>3, <2>4
    <2>6. left[k - 1] = Rest(items, total, amount, k - 1)
        BY <1>1, <2>2, <2>5
    <2>7. left[k] = Rest(items, total, amount, k)
        BY <1>2, <2>3, <2>4, <2>5, <2>6
    <2>8. QED
        BY <2>2, <2>7
<1>7. ASSUME NEW n \in 1 .. len
      PROVE  /\ new[n] \in Installments
             /\ new[n].due = items[n].due /\ new[n].scheduled = items[n].scheduled
             /\ new[n].paid = Share(total + amount - Before(items, n), items[n].scheduled)
    <2>1. n - 1 \in 0 .. len
        BY <1>1
    <2>2. left[n - 1] = Rest(items, total, amount, n - 1)
        BY <1>6, <2>1
    <2> DEFINE paid == items[n].paid + Applied(left[n - 1], items[n])
    <2>3. paid = Share(total + amount - Before(items, n), items[n].scheduled)
        BY <1>2, <2>2
    <2>4. new[n] = [items[n] EXCEPT !.paid = paid]
        BY <1>1, <1>5
    <2>5. items[n] \in Installments /\ items[n].scheduled \in Nat
        BY ItemFacts
    <2> HIDE DEF paid
    <2>6. Before(items, n) \in Nat
        BY <1>1, BeforeStep
    <2>7. paid \in Nat
        BY <2>3, <2>5, <2>6, ShareSplits DEF Share
    <2>8. QED
        BY <2>3, <2>4, <2>5, <2>7 DEF Installments
<1>8. new \in Items /\ Len(new) = len
    <2>1. new \in [1 .. len -> Installments]
        <3>1. new = [n \in 1 .. len |-> new[n]]
            BY <1>1, <1>5
        <3>2. QED
            BY <1>7, <3>1
    <2> HIDE DEF len
    <2>2. QED
        BY <1>1, <2>1, FunctionIsSequence DEF Items
<1>9. SameSchedule(new, items)
    BY <1>7, <1>8 DEF SameSchedule
<1>10. PaidUp(new, total + amount)
    <2>1. \A n : Before(new, n) = Before(items, n)
        BY <1>8, <1>9, SameBefore
    <2> DEFINE sum == total + amount
    <2>2. ASSUME NEW n \in 1 .. len
          PROVE  new[n].paid = Share(sum - Before(new, n), new[n].scheduled)
        <3>1. /\ new[n].paid = Share(total + amount - Before(items, n), items[n].scheduled)
              /\ new[n].scheduled = items[n].scheduled
            BY <1>7
        <3>2. Before(new, n) = Before(items, n)
            BY <2>1
        <3>3. total + amount - Before(items, n) = sum - Before(items, n)
            <4>1. Before(items, n) \in Nat
                BY <1>1, BeforeStep
            <4>2. QED
                BY <4>1
        <3> HIDE DEF sum
        <3>4. QED
            BY <3>1, <3>2, <3>3
    <2> HIDE DEF sum
    <2>3. PaidUp(new, sum)
        BY <1>8, <2>2 DEF PaidUp
    <2>4. QED
        BY <2>3 DEF sum
<1>11. QED
    BY <1>8, <1>9, <1>10 DEF new

\* The instalments with their shares of a total.
Spread(items, total) ==
    [n \in 1 .. Len(items) |->
        [items[n] EXCEPT !.paid = Share(total - Before(items, n), items[n].scheduled)]]

LEMMA SpreadIsPaid ==
    ASSUME NEW items \in Items, NEW total \in Nat
    PROVE  /\ Spread(items, total) \in Items /\ SameSchedule(Spread(items, total), items)
           /\ PaidUp(Spread(items, total), total)
<1> DEFINE len == Len(items)
           new == Spread(items, total)
<1>1. len \in Nat
    BY ItemFacts
<1>2. ASSUME NEW n \in 1 .. len
      PROVE  /\ new[n] \in Installments
             /\ new[n].due = items[n].due /\ new[n].scheduled = items[n].scheduled
             /\ new[n].paid = Share(total - Before(items, n), items[n].scheduled)
    <2> DEFINE paid == Share(total - Before(items, n), items[n].scheduled)
    <2>1. new[n] = [items[n] EXCEPT !.paid = paid]
        BY DEF Spread
    <2>2. items[n] \in Installments /\ items[n].scheduled \in Nat
        BY ItemFacts
    <2>3. Before(items, n) \in Nat
        BY <1>1, BeforeStep
    <2>4. paid \in Nat
        BY <2>2, <2>3 DEF Share
    <2> HIDE DEF paid, new
    <2>5. new[n] \in Installments /\ new[n].due = items[n].due
          /\ new[n].scheduled = items[n].scheduled /\ new[n].paid = paid
        BY <2>1, <2>2, <2>4 DEF Installments
    <2>6. QED
        BY <2>5 DEF paid
<1>3. new \in Items /\ Len(new) = len
    <2>1. new \in [1 .. len -> Installments]
        <3>1. new = [n \in 1 .. len |-> new[n]]
            BY DEF Spread
        <3> HIDE DEF new
        <3>2. QED
            BY <1>2, <3>1
    <2> HIDE DEF len, new
    <2>2. QED
        BY <1>1, <2>1, FunctionIsSequence DEF Items
<1> HIDE DEF new
<1>4. SameSchedule(new, items)
    BY <1>2, <1>3 DEF SameSchedule
<1>5. \A n : Before(new, n) = Before(items, n)
    BY <1>3, <1>4, SameBefore
<1>6. ASSUME NEW n \in 1 .. len
      PROVE  new[n].paid = Share(total - Before(new, n), new[n].scheduled)
    <2>1. /\ new[n].paid = Share(total - Before(items, n), items[n].scheduled)
          /\ new[n].scheduled = items[n].scheduled
        BY <1>2
    <2>2. QED
        BY <1>5, <2>1
<1>7. QED
    BY <1>3, <1>4, <1>6 DEF PaidUp, new

LEMMA PaidIsSpread ==
    ASSUME NEW items \in Items, NEW total \in Nat, NEW new \in Items,
           SameSchedule(new, items), PaidUp(new, total)
    PROVE  new = Spread(items, total)
<1> DEFINE spread == Spread(items, total)
<1>1. spread \in Items /\ SameSchedule(spread, items) /\ PaidUp(spread, total)
    BY SpreadIsPaid
<1> HIDE DEF spread
<1>2. SameSchedule(new, spread)
    BY <1>1 DEF SameSchedule
<1>3. new = spread
    BY <1>1, <1>2, SamePaid
<1>4. QED
    BY <1>3 DEF spread

LEMMA PaymentOnSpread ==
    ASSUME NEW items \in Items, NEW total \in Nat, NEW amount \in Nat
    PROVE  PayOldestFirst(Spread(items, total), amount) = Spread(items, total + amount)
<1> DEFINE old == Spread(items, total)
           new == PayOldestFirst(old, amount)
<1>1. old \in Items /\ SameSchedule(old, items) /\ PaidUp(old, total)
    BY SpreadIsPaid
<1> HIDE DEF old
<1>2. new \in Items /\ SameSchedule(new, old) /\ PaidUp(new, total + amount)
    BY <1>1, PaymentSpreads
<1> HIDE DEF new
<1>3. SameSchedule(new, items) /\ total + amount \in Nat
    BY <1>1, <1>2 DEF SameSchedule
<1>4. new = Spread(items, total + amount)
    BY <1>2, <1>3, PaidIsSpread
<1>5. QED
    BY <1>4 DEF new, old

LEMMA ClearedIsSpread ==
    ASSUME NEW items \in Items
    PROVE  [n \in DOMAIN items |-> [items[n] EXCEPT !.paid = 0]] = Spread(items, 0)
<1>1. DOMAIN items = 1 .. Len(items) /\ Len(items) \in Nat
    BY ItemFacts
<1>2. \A n \in 1 .. Len(items) : Share(0 - Before(items, n), items[n].scheduled) = 0
    BY <1>1, BeforeStep DEF Share
<1>3. QED
    BY <1>1, <1>2 DEF Spread

\* Replaying payments gives every instalment its share of their sum, in
\* whatever order they are replayed.
LEMMA ReplaySpreads ==
    ASSUME NEW items \in Items, NEW amounts \in Seq(Nat)
    PROVE  /\ SumSeq(amounts) \in Nat
           /\ allocateRepaymentsOldestFirst(items, amounts) = Spread(items, SumSeq(amounts))
<1> DEFINE len == Len(amounts)
           cleared == [n \in DOMAIN items |-> [items[n] EXCEPT !.paid = 0]]
           Next1(g, k) == IF k = 0 THEN cleared ELSE PayOldestFirst(g[k - 1], amounts[k])
           paid == CHOOSE g : g = [k \in 0 .. len |-> Next1(g, k)]
           Given(k) == SumFunctionOnSet(amounts, 1 .. k - 1)
           replayed == [k \in 0 .. len |-> Spread(items, Given(k + 1))]
<1>1. len \in Nat /\ DOMAIN amounts = 1 .. len /\ \A k \in 1 .. len : amounts[k] \in Nat
    BY LenProperties, ElementOfSeq
<1>2. cleared = Spread(items, 0)
    BY ClearedIsSpread
<1>3. /\ Given(1) = 0
      /\ \A k \in 1 .. len + 1 : Given(k) \in Nat
      /\ \A k \in 1 .. len : Given(k + 1) = Given(k) + amounts[k]
    <2> HIDE DEF len
    <2>1. QED
        BY <1>1, PrefixSum
<1>4. SumSeq(amounts) = Given(len + 1)
    <2>1. 1 .. (len + 1) - 1 = DOMAIN amounts
        BY <1>1
    <2>2. QED
        BY <2>1 DEF SumSeq, SumFunction
<1>5. allocateRepaymentsOldestFirst(items, amounts) = paid[len]
    BY DEF allocateRepaymentsOldestFirst
<1> HIDE DEF len, cleared, Given
<1>6. \A k \in 1 .. len : Spread(items, Given(k + 1))
                              = PayOldestFirst(Spread(items, Given((k - 1) + 1)), amounts[k])
    <2>1. ASSUME NEW k \in 1 .. len
          PROVE  Spread(items, Given(k + 1))
                     = PayOldestFirst(Spread(items, Given((k - 1) + 1)), amounts[k])
        <3>1. (k - 1) + 1 = k /\ Given(k) \in Nat /\ amounts[k] \in Nat
              /\ Given(k + 1) = Given(k) + amounts[k]
            BY <1>1, <1>3
        <3>2. QED
            BY <3>1, PaymentOnSpread
    <2>2. QED
        BY <2>1
<1>7. replayed = [k \in 0 .. len |-> Next1(replayed, k)]
    <2>1. \A k \in 0 .. len : replayed[k] = Spread(items, Given(k + 1))
        OBVIOUS
    <2> HIDE DEF replayed
    <2>2. \A k \in 0 .. len : k = 0 \/ (k \in 1 .. len /\ k - 1 \in 0 .. len)
        BY <1>1
    <2>3. Spread(items, Given(0 + 1)) = cleared
        BY <1>2, <1>3
    <2>4. \A k \in 0 .. len : replayed[k] = Next1(replayed, k)
        BY <1>6, <2>1, <2>2, <2>3
    <2> HIDE DEF Next1
    <2>5. replayed = [k \in 0 .. len |-> replayed[k]]
        BY DEF replayed
    <2>6. QED
        BY <2>4, <2>5
<1>8. paid = [k \in 0 .. len |-> Next1(paid, k)]
    BY <1>7
<1> HIDE DEF paid, replayed
<1> DEFINE Bad == {k \in 0 .. len : paid[k] # Spread(items, Given(k + 1))}
<1>9. Bad = {}
    <2>1. SUFFICES ASSUME Bad # {} PROVE FALSE
        OBVIOUS
    <2>2. PICK k \in Bad : \A j \in Bad : k <= j
        <3>1. Bad \subseteq Nat
            BY <1>1
        <3> HIDE DEF Bad
        <3>2. QED
            BY <2>1, <3>1, LeastNumber
    <2>3. k \in 0 .. len /\ paid[k] = Next1(paid, k)
        BY <1>8, <2>2
    <2>4. k # 0
        BY <1>2, <1>3, <2>2, <2>3
    <2>5. k \in 1 .. len /\ k - 1 \in 0 .. len /\ k - 1 < k
        BY <1>1, <2>3, <2>4
    <2>6. paid[k - 1] = Spread(items, Given((k - 1) + 1))
        BY <1>1, <2>2, <2>5
    <2>7. paid[k] = Spread(items, Given(k + 1))
        BY <1>6, <2>3, <2>4, <2>5, <2>6
    <2>8. QED
        BY <2>2, <2>7
<1>10. QED
    <2>1. len \in 0 .. len /\ len + 1 \in 1 .. len + 1
        BY <1>1
    <2>2. paid[len] = Spread(items, Given(len + 1))
        BY <1>9, <2>1
    <2>3. QED
        BY <1>3, <1>4, <1>5, <2>1, <2>2

-----------------------------------------------------------------------------
(***************************************************************************)
(* Due dates are the twentieth of a month.                                 *)
(***************************************************************************)
Twentieth(date) == date \in Nat /\ DayOf(date) = 20

LEMMA DueDates ==
    ASSUME NEW start \in Nat, NEW n \in Nat \ {0}
    PROVE  /\ Twentieth(loanDueDate(start, n))
           /\ loanDueDate(start, n + 1) = loanDueDate(start, n) + 100
<1>1. start \div 100 \in Nat
    OBVIOUS
<1>2. PICK k \in Nat : loanDueDate(start, n) = 100 * k + 20
    <2> DEFINE offset == IF DayOf(start) > 20 THEN 2 ELSE 1
    <2>1. offset \in Nat
        OBVIOUS
    <2> HIDE DEF offset
    <2>2. start \div 100 + offset + n - 1 \in Nat
        BY <1>1, <2>1
    <2>3. loanDueDate(start, n) = 100 * (start \div 100 + offset + n - 1) + 20
        BY DEF loanDueDate, Date, MonthOf, offset
    <2>4. QED
        BY <2>2, <2>3
<1>3. loanDueDate(start, n + 1) = loanDueDate(start, n) + 100
    <2> DEFINE offset == IF DayOf(start) > 20 THEN 2 ELSE 1
               month  == start \div 100
    <2>1. offset \in Nat /\ month \in Nat
        BY <1>1
    <2>2. /\ loanDueDate(start, n) = 100 * (month + offset + n - 1) + 20
          /\ loanDueDate(start, n + 1) = 100 * (month + offset + (n + 1) - 1) + 20
        BY DEF loanDueDate, Date, MonthOf
    <2> HIDE DEF offset, month
    <2>3. QED
        BY <2>1, <2>2
<1>4. QED
    BY <1>2, <1>3 DEF Twentieth, DayOf

LEMMA NextMonth ==
    ASSUME NEW date, Twentieth(date)
    PROVE  /\ nextSuspensionDate(date) = date + 100
           /\ Twentieth(date + 100)
<1>1. PICK k \in Nat : date = 100 * k + 20
    BY DEF Twentieth, DayOf
<1>2. MonthOf(date) = k /\ DayOf(date) = 20
    BY <1>1 DEF MonthOf, DayOf
<1> DEFINE next == k + 1
<1>3. DaysIn(next) \in Nat /\ DaysIn(next) >= 28
    <2>1. next % 12 \in 0 .. 11
        OBVIOUS
    <2> HIDE DEF next
    <2>2. (next % 12) + 1 \in {1, 2, 3, 4, 5, 6, 7, 8, 9, 10, 11, 12}
        BY <2>1
    <2> DEFINE i == (next % 12) + 1
    <2> HIDE DEF i
    <2>3. i \in {1, 2, 3, 4, 5, 6, 7, 8, 9, 10, 11, 12}
        BY <2>2 DEF i
    <2>4. <<31, 28, 31, 30, 31, 30, 31, 31, 30, 31, 30, 31>>[i] \in 28 .. 31
        BY <2>3
    <2>5. QED
        BY <2>4 DEF DaysIn, i
<1>4. nextSuspensionDate(date) = Date(next, 20)
    BY <1>2, <1>3 DEF nextSuspensionDate
<1>5. QED
    BY <1>1, <1>4 DEF Date, Twentieth, DayOf

-----------------------------------------------------------------------------
(***************************************************************************)
(* A new schedule has equal instalments, and the last one takes the rest.  *)
(***************************************************************************)
LEMMA Division ==
    ASSUME NEW a \in Nat, NEW d \in Nat \ {0}
    PROVE  /\ a \div d \in Nat /\ a % d \in Nat /\ a = d * (a \div d) + (a % d)
           /\ a >= d => a \div d >= 1
OBVIOUS

LEMMA Distributes ==
    ASSUME NEW q \in Nat, NEW n \in Nat
    PROVE  q * (n + 1) = q * n + q /\ q * 0 = 0 /\ q * n = n * q
OBVIOUS

LEMMA BuiltSchedule ==
    ASSUME NEW obligation \in Nat, NEW duration \in Nat \ {0}, obligation >= duration,
           NEW start \in Nat, NEW items,
           items = buildLoanScheduleFromObligation(obligation, duration, start)
    PROVE  /\ items \in Items /\ Len(items) = duration
           /\ Scheduled(items) = obligation /\ PaidUp(items, 0)
           /\ \A n \in 1 .. duration :
                 items[n].due = loanDueDate(start, n) /\ items[n].scheduled > 0
<1> DEFINE q == obligation \div duration
           r == obligation % duration
<1>1. q \in Nat \ {0} /\ r \in Nat /\ obligation = duration * q + r
    BY Division
<1>2. items = [n \in 1 .. duration |->
                  [due |-> loanDueDate(start, n),
                   scheduled |-> q + (IF n = duration THEN r ELSE 0), paid |-> 0]]
    BY DEF buildLoanScheduleFromObligation
<1> HIDE DEF q, r
<1>3. ASSUME NEW n \in 1 .. duration
      PROVE  /\ items[n] \in Installments /\ items[n].due = loanDueDate(start, n)
             /\ items[n].scheduled = q + (IF n = duration THEN r ELSE 0) /\ items[n].paid = 0
    <2>1. items[n] = [due |-> loanDueDate(start, n),
                      scheduled |-> q + (IF n = duration THEN r ELSE 0), paid |-> 0]
        BY <1>2
    <2>2. loanDueDate(start, n) \in Nat
        <3>1. n \in Nat \ {0}
            OBVIOUS
        <3>2. QED
            BY <3>1, DueDates DEF Twentieth
    <2>3. q + (IF n = duration THEN r ELSE 0) \in Nat
        BY <1>1
    <2>4. QED
        BY <2>1, <2>2, <2>3 DEF Installments
<1>4. items \in Items /\ Len(items) = duration
    <2>1. items = [n \in 1 .. duration |-> items[n]]
        BY <1>2
    <2>2. items \in [1 .. duration -> Installments]
        BY <1>3, <2>1
    <2>3. QED
        BY <2>2, FunctionIsSequence DEF Items
<1>5. /\ Before(items, 1) = 0
      /\ \A n \in 1 .. duration + 1 : Before(items, n) \in Nat
      /\ \A n \in 1 .. duration : Before(items, n + 1) = Before(items, n) + items[n].scheduled
      /\ Scheduled(items) = Before(items, duration + 1)
    BY <1>4, BeforeStep
<1> DEFINE Bad == {n \in 1 .. duration : Before(items, n) # q * (n - 1)}
<1>6. Bad = {}
    <2>1. SUFFICES ASSUME Bad # {} PROVE FALSE
        OBVIOUS
    <2>2. PICK k \in Bad : \A j \in Bad : k <= j
        <3>1. Bad \subseteq Nat
            OBVIOUS
        <3> HIDE DEF Bad
        <3>2. QED
            BY <2>1, <3>1, LeastNumber
    <2>3. k # 1
        BY <1>1, <1>5, <2>2, Distributes
    <2> DEFINE j == k - 1
    <2>4. j \in 1 .. duration /\ j < k /\ k = j + 1 /\ j # duration
        BY <2>2, <2>3
    <2>5. Before(items, j) = q * (j - 1)
        BY <2>2, <2>4
    <2>6. Before(items, k) = Before(items, j) + q
        <3> HIDE DEF j
        <3>1. items[j].scheduled = q
            BY <1>1, <1>3, <2>4
        <3>2. QED
            BY <1>5, <2>4, <3>1
    <2> HIDE DEF j
    <2> DEFINE i == j - 1
    <2>7. i \in Nat /\ j = i + 1
        BY <2>4
    <2> HIDE DEF i
    <2>8. q * j = q * i + q
        BY <1>1, <2>7, Distributes
    <2>9. Before(items, k) = q * j
        BY <2>5, <2>6, <2>8 DEF i
    <2>10. k - 1 = j
        BY <2>4
    <2>11. QED
        BY <2>2, <2>9, <2>10
<1>7. Scheduled(items) = obligation
    <2> DEFINE i == duration - 1
    <2>1. i \in Nat /\ duration = i + 1 /\ duration \in 1 .. duration
        OBVIOUS
    <2>2. Before(items, duration) = q * i
        BY <1>6, <2>1
    <2> HIDE DEF i
    <2>3. q * duration = q * i + q /\ q * duration = duration * q
        BY <1>1, <2>1, Distributes
    <2>4. items[duration].scheduled = q + r
        BY <1>3, <2>1
    <2>5. Scheduled(items) = q * i + (q + r)
        BY <1>5, <2>1, <2>2, <2>4
    <2> DEFINE x == q * i
               y == duration * q
    <2>6. x \in Nat /\ y \in Nat
        BY <1>1, <2>1
    <2>7. y = x + q /\ obligation = y + r /\ Scheduled(items) = x + (q + r)
        BY <1>1, <2>3, <2>5
    <2> HIDE DEF x, y
    <2>8. QED
        BY <1>1, <2>6, <2>7
<1>8. PaidUp(items, 0)
    <2>1. ASSUME NEW n \in 1 .. duration
          PROVE  items[n].paid = Share(0 - Before(items, n), items[n].scheduled)
        <3>1. Before(items, n) \in Nat
            BY <1>5
        <3>2. QED
            BY <1>3, <3>1 DEF Share
    <2>2. QED
        BY <1>4, <2>1 DEF PaidUp
<1>9. \A n \in 1 .. duration : items[n].scheduled > 0
    BY <1>1, <1>3
<1>10. QED
    BY <1>3, <1>4, <1>7, <1>8, <1>9

-----------------------------------------------------------------------------
(***************************************************************************)
(* What is left to pay, and when the next instalment is due.               *)
(***************************************************************************)
LEMMA BeforeBound ==
    ASSUME NEW items \in Items, NEW n \in 1 .. Len(items) + 1
    PROVE  Before(items, n) <= Scheduled(items)
<1> DEFINE f == Amounts(items)
           S == 1 .. n - 1
           R == n .. Len(items)
<1>1. Len(items) \in Nat /\ \A k \in 1 .. Len(items) : f[k] \in Nat
    BY ItemFacts DEF Amounts
<1>2. IsFiniteSet(S) /\ IsFiniteSet(R) /\ S \cap R = {} /\ S \cup R = 1 .. Len(items)
    <2>1. IsFiniteSet(S) /\ IsFiniteSet(R)
        BY <1>1, FS_Interval
    <2>2. S \cap R = {} /\ S \cup R = 1 .. Len(items)
        BY <1>1
    <2>3. QED
        BY <2>1, <2>2
<1>3. Scheduled(items) = SumFunctionOnSet(f, S \cup R)
    <2>1. 1 .. (Len(items) + 1) - 1 = 1 .. Len(items)
        BY <1>1
    <2>2. Scheduled(items) = SumFunctionOnSet(f, 1 .. (Len(items) + 1) - 1)
        BY BeforeStep DEF Before
    <2>3. QED
        BY <1>2, <2>1, <2>2
<1>4. \A k \in S \cup R : f[k] \in Nat /\ f[k] \in Int
    BY <1>1, <1>2
<1> HIDE DEF f, S, R
<1>5. SumFunctionOnSet(f, S \cup R) = SumFunctionOnSet(f, S) + SumFunctionOnSet(f, R)
    BY <1>2, <1>4, SumUnion
<1>6. SumFunctionOnSet(f, S) \in Nat /\ SumFunctionOnSet(f, R) \in Nat
    BY <1>2, <1>4, SumNat
<1>7. Before(items, n) = SumFunctionOnSet(f, S)
    BY DEF Before, f, S
<1>8. QED
    BY <1>3, <1>5, <1>6, <1>7

LEMMA AllPaid ==
    ASSUME NEW items \in Items, NEW total \in Nat, total <= Scheduled(items), PaidUp(items, total)
    PROVE  (\A n \in DOMAIN items : Unpaid(items[n]) = 0) <=> total = Scheduled(items)
<1>1. /\ Len(items) \in Nat /\ DOMAIN items = 1 .. Len(items)
      /\ \A n \in 1 .. Len(items) : items[n].scheduled \in Nat /\ items[n].paid \in Nat
    BY ItemFacts
<1>2. /\ \A n \in 1 .. Len(items) + 1 : Before(items, n) \in Nat
      /\ \A n \in 1 .. Len(items) : Before(items, n + 1) = Before(items, n) + items[n].scheduled
    BY BeforeStep
<1>3. Scheduled(items) \in Nat /\ PaidSum(items) = Share(total, Scheduled(items))
    BY PaidTotal
<1>4. ASSUME \A n \in DOMAIN items : Unpaid(items[n]) = 0 PROVE total = Scheduled(items)
    <2>1. \A n \in DOMAIN items : items[n].paid = items[n].scheduled
        BY <1>1, <1>4 DEF Unpaid
    <2>2. PaidSum(items) = Scheduled(items)
        <3>1. [n \in DOMAIN items |-> items[n].paid] = [n \in DOMAIN items |-> items[n].scheduled]
            BY <2>1
        <3>2. QED
            BY <3>1 DEF PaidSum, Scheduled
    <2>3. QED
        BY <1>3, <2>2 DEF Share
<1>5. ASSUME total = Scheduled(items), NEW n \in DOMAIN items PROVE Unpaid(items[n]) = 0
    <2>1. n + 1 \in 1 .. Len(items) + 1 /\ n \in 1 .. Len(items) + 1 /\ n \in 1 .. Len(items)
        BY <1>1
    <2>2. Before(items, n + 1) <= total
        BY <1>5, <2>1, BeforeBound
    <2>3. /\ Before(items, n) \in Nat /\ items[n].scheduled \in Nat
          /\ Before(items, n) + items[n].scheduled <= total
        BY <1>1, <1>2, <2>1, <2>2
    <2>4. items[n].paid = Share(total - Before(items, n), items[n].scheduled)
        BY <2>1 DEF PaidUp
    <2>5. QED
        BY <2>3, <2>4 DEF Share, Unpaid
<1>6. QED
    BY <1>4, <1>5

\* Nothing is paid on an instalment before the earlier ones are paid in full.
LEMMA PaidOldestFirst ==
    ASSUME NEW items \in Items, NEW total \in Nat, PaidUp(items, total)
    PROVE  \A n \in DOMAIN items :
               /\ Unpaid(items[n]) \in Nat
               /\ n > 1 /\ items[n].paid > 0 => Unpaid(items[n - 1]) = 0
<1>1. /\ Len(items) \in Nat /\ DOMAIN items = 1 .. Len(items)
      /\ \A n \in 1 .. Len(items) : items[n].scheduled \in Nat /\ items[n].paid \in Nat
    BY ItemFacts
<1>2. /\ \A n \in 1 .. Len(items) + 1 : Before(items, n) \in Nat
      /\ \A n \in 1 .. Len(items) : Before(items, n + 1) = Before(items, n) + items[n].scheduled
    BY BeforeStep
<1>3. \A n \in 1 .. Len(items) :
          items[n].paid = Share(total - Before(items, n), items[n].scheduled)
    BY DEF PaidUp
<1>4. ASSUME NEW n \in DOMAIN items PROVE Unpaid(items[n]) \in Nat
    <2>1. n \in 1 .. Len(items) /\ n \in 1 .. Len(items) + 1
        BY <1>1
    <2>2. Before(items, n) \in Nat /\ items[n].scheduled \in Nat
          /\ items[n].paid = Share(total - Before(items, n), items[n].scheduled)
        BY <1>1, <1>2, <1>3, <2>1
    <2>3. QED
        BY <2>2 DEF Share, Unpaid
<1>5. ASSUME NEW n \in DOMAIN items, n > 1, items[n].paid > 0 PROVE Unpaid(items[n - 1]) = 0
    <2> DEFINE k == n - 1
    <2>1. n \in 1 .. Len(items) /\ k \in 1 .. Len(items) /\ k \in 1 .. Len(items) + 1 /\ n = k + 1
        BY <1>1, <1>5
    <2> HIDE DEF k
    <2>2. /\ items[n].scheduled \in Nat /\ items[k].scheduled \in Nat /\ Before(items, k) \in Nat
          /\ items[n].paid = Share(total - Before(items, n), items[n].scheduled)
          /\ items[k].paid = Share(total - Before(items, k), items[k].scheduled)
          /\ Before(items, n) = Before(items, k) + items[k].scheduled
        BY <1>1, <1>2, <1>3, <2>1
    <2>3. total - Before(items, n) > 0
        BY <1>5, <2>2 DEF Share
    <2>4. Unpaid(items[k]) = 0
        BY <2>2, <2>3 DEF Share, Unpaid
    <2>5. QED
        BY <2>4 DEF k
<1>6. QED
    BY <1>4, <1>5

LEMMA FirstUnpaidIs ==
    ASSUME NEW items \in Items, NEW n \in DOMAIN items, Unpaid(items[n]) > 0,
           \A k \in 1 .. n - 1 : Unpaid(items[k]) = 0
    PROVE  \A otherwise : FirstUnpaidDue(items, otherwise) = items[n].due
<1>1. DOMAIN items = 1 .. Len(items) /\ Len(items) \in Nat
    BY ItemFacts
<1> DEFINE First(m) == Unpaid(items[m]) > 0 /\ \A k \in 1 .. m - 1 : Unpaid(items[k]) = 0
<1>2. ASSUME NEW m \in DOMAIN items, First(m) PROVE m = n
    <2>1. m \in 1 .. Len(items) /\ n \in 1 .. Len(items)
        BY <1>1
    <2>2. ~(m < n)
        <3>1. m < n => m \in 1 .. n - 1
            BY <1>1, <2>1
        <3>2. QED
            BY <1>2, <3>1
    <2>3. ~(n < m)
        <3>1. n < m => n \in 1 .. m - 1
            BY <1>1, <2>1
        <3>2. QED
            BY <1>2, <3>1
    <2>4. QED
        BY <1>1, <2>1, <2>2, <2>3
<1>3. (CHOOSE m \in DOMAIN items : First(m)) = n
    BY <1>2
<1>4. ~\A m \in DOMAIN items : Unpaid(items[m]) = 0
    OBVIOUS
<1>5. QED
    BY <1>3, <1>4 DEF FirstUnpaidDue

LEMMA FirstUnpaid ==
    ASSUME NEW items \in Items, NEW total \in Nat, PaidUp(items, total),
           ~\A n \in DOMAIN items : Unpaid(items[n]) = 0
    PROVE  \E due \in Nat : \A otherwise : FirstUnpaidDue(items, otherwise) = due
<1>1. /\ DOMAIN items = 1 .. Len(items) /\ Len(items) \in Nat
      /\ \A n \in 1 .. Len(items) : items[n].due \in Nat
    BY ItemFacts
<1>2. \A n \in DOMAIN items : Unpaid(items[n]) \in Nat
    BY PaidOldestFirst
<1> DEFINE Bad == {n \in DOMAIN items : Unpaid(items[n]) # 0}
<1>3. PICK n \in Bad : \A k \in Bad : n <= k
    <2>1. Bad \subseteq Nat /\ Bad # {}
        BY <1>1
    <2> HIDE DEF Bad
    <2>2. QED
        BY <2>1, LeastNumber
<1>4. n \in DOMAIN items /\ Unpaid(items[n]) > 0
    BY <1>2, <1>3
<1>5. \A k \in 1 .. n - 1 : Unpaid(items[k]) = 0
    BY <1>1, <1>3
<1>6. \A otherwise : FirstUnpaidDue(items, otherwise) = items[n].due
    BY <1>4, <1>5, FirstUnpaidIs
<1>7. QED
    BY <1>1, <1>4, <1>6

-----------------------------------------------------------------------------
(***************************************************************************)
(* What the repayments of a loan amount to.                                *)
(***************************************************************************)
RepaymentTables == [RepaymentIds -> RepaymentRows \cup {NoRepayment}]

Counted(row, l) == IF row.status = "recorded" /\ row.loan = l THEN row.amount ELSE 0

TotalFor(rows, l) == SumFunctionOnSet([r \in RepaymentIds |-> Counted(rows[r], l)], RepaymentIds)

LEMMA CountedFacts ==
    ASSUME NEW row \in RepaymentRows \cup {NoRepayment}, NEW l
    PROVE  /\ Counted(row, l) \in Nat
           /\ row.status = "recorded" => row.amount \in Nat /\ row.loan \in LoanIds
           /\ row.status \in {"recorded", "removed", "none"}
           /\ row.status = "none" <=> row = NoRepayment
BY DEF RepaymentRows, NoRepayment, Counted

LEMMA TotalIsNat ==
    ASSUME NEW rows \in RepaymentTables, NEW l
    PROVE  TotalFor(rows, l) \in Nat
<1> DEFINE f == [k \in RepaymentIds |-> Counted(rows[k], l)]
<1>1. \A k \in RepaymentIds : f[k] \in Nat
    BY CountedFacts DEF RepaymentTables
<1>2. IsFiniteSet(RepaymentIds)
    BY LoansAssumption
<1> HIDE DEF f
<1>3. SumFunctionOnSet(f, RepaymentIds) \in Nat
    BY <1>1, <1>2, SumNat
<1>4. QED
    BY <1>3 DEF TotalFor, f

LEMMA TotalMoves ==
    ASSUME NEW rows \in RepaymentTables, NEW new \in RepaymentTables, NEW l,
           NEW r \in RepaymentIds,
           \A other \in RepaymentIds \ {r} : Counted(new[other], l) = Counted(rows[other], l)
    PROVE  /\ TotalFor(rows, l) \in Nat
           /\ TotalFor(new, l) = TotalFor(rows, l) + (Counted(new[r], l) - Counted(rows[r], l))
<1> DEFINE f == [k \in RepaymentIds |-> Counted(rows[k], l)]
           g == [k \in RepaymentIds |-> Counted(new[k], l)]
<1>1. IsFiniteSet(RepaymentIds)
    BY LoansAssumption
<1>2. \A k \in RepaymentIds : f[k] = Counted(rows[k], l) /\ g[k] = Counted(new[k], l)
    OBVIOUS
<1>3. \A k \in RepaymentIds : f[k] \in Nat /\ g[k] \in Nat
    BY <1>2, CountedFacts DEF RepaymentTables
<1>4. \A k \in RepaymentIds : f[k] \in Int /\ g[k] \in Int
    BY <1>3
<1>5. \A k \in RepaymentIds \ {r} : g[k] = f[k]
    BY <1>2
<1>6. TotalFor(rows, l) = SumFunctionOnSet(f, RepaymentIds)
      /\ TotalFor(new, l) = SumFunctionOnSet(g, RepaymentIds)
    BY DEF TotalFor
<1> HIDE DEF f, g
<1>7. SumFunctionOnSet(f, RepaymentIds) \in Nat
    BY <1>1, <1>3, SumNat
<1>8. SumFunctionOnSet(g, RepaymentIds) = SumFunctionOnSet(f, RepaymentIds) + g[r] - f[r]
    BY <1>1, <1>4, <1>5, SumChange
<1>9. f[r] \in Nat /\ g[r] \in Nat /\ f[r] = Counted(rows[r], l) /\ g[r] = Counted(new[r], l)
    BY <1>2, <1>3
<1>10. QED
    BY <1>6, <1>7, <1>8, <1>9

LEMMA TotalChange ==
    ASSUME NEW rows \in RepaymentTables, NEW new \in RepaymentTables, NEW l,
           NEW r \in RepaymentIds, \A other \in RepaymentIds \ {r} : new[other] = rows[other]
    PROVE  /\ TotalFor(rows, l) \in Nat
           /\ TotalFor(new, l) = TotalFor(rows, l) + (Counted(new[r], l) - Counted(rows[r], l))
<1>1. \A other \in RepaymentIds \ {r} : Counted(new[other], l) = Counted(rows[other], l)
    OBVIOUS
<1>2. QED
    BY <1>1, TotalMoves

LEMMA TotalSame ==
    ASSUME NEW rows, NEW new, NEW l,
           \A r \in RepaymentIds : Counted(new[r], l) = Counted(rows[r], l)
    PROVE  TotalFor(new, l) = TotalFor(rows, l)
<1>1. [r \in RepaymentIds |-> Counted(new[r], l)] = [r \in RepaymentIds |-> Counted(rows[r], l)]
    OBVIOUS
<1>2. QED
    BY <1>1 DEF TotalFor

LEMMA TotalZero ==
    ASSUME NEW rows, NEW l, RecordedFor(rows, l) = {}
    PROVE  TotalFor(rows, l) = 0
<1> DEFINE f == [k \in RepaymentIds |-> Counted(rows[k], l)]
<1>1. \A k \in RepaymentIds : f[k] = 0
    BY DEF RecordedFor, Counted
<1>2. IsFiniteSet(RepaymentIds)
    BY LoansAssumption
<1> HIDE DEF f
<1>3. SumFunctionOnSet(f, RepaymentIds) = 0
    BY <1>1, <1>2, SumZero
<1>4. QED
    BY <1>3 DEF TotalFor, f

LEMMA AmountsRecorded ==
    ASSUME NEW rows \in RepaymentTables, NEW l
    PROVE  /\ AmountsFor(rows, l) \in Seq(Nat)
           /\ SumSeq(AmountsFor(rows, l)) = TotalFor(rows, l)
<1> DEFINE R   == RecordedFor(rows, l)
           n   == Cardinality(R)
           ids == SetToSeq(R)
           amounts == AmountsFor(rows, l)
           f == [r \in RepaymentIds |-> rows[r].amount]
           g == [r \in RepaymentIds |-> Counted(rows[r], l)]
<1>1. R \subseteq RepaymentIds /\ IsFiniteSet(R) /\ IsFiniteSet(RepaymentIds)
    <2>1. R \subseteq RepaymentIds
        BY DEF RecordedFor
    <2>2. QED
        BY <2>1, LoansAssumption, FS_Subset
<1>2. \A r \in R : rows[r].amount \in Nat /\ f[r] = rows[r].amount /\ g[r] = rows[r].amount
    <2>1. \A r \in R : /\ r \in RepaymentIds /\ rows[r].status = "recorded" /\ rows[r].loan = l
                       /\ rows[r] \in RepaymentRows \cup {NoRepayment}
        BY DEF RecordedFor, RepaymentTables
    <2> HIDE DEF R
    <2>2. \A r \in R : rows[r].amount \in Nat
        BY <2>1, CountedFacts
    <2>3. QED
        BY <2>1, <2>2 DEF Counted
<1>3. \A r \in RepaymentIds \ R : g[r] = 0
    BY DEF RecordedFor, Counted
<1>4. n \in Nat /\ ids \in [1 .. n -> R] /\ \A x, y \in 1 .. n : ids[x] = ids[y] => x = y
    <2> HIDE DEF R
    <2>1. n \in Nat /\ ExistsBijection(1 .. n, R)
        BY <1>1, FS_CardinalityType
    <2>2. PICK h : h \in [1 .. n -> R] /\ IsInjective(h)
        BY <2>1 DEF ExistsBijection, Bijection, Injection
    <2>3. ids \in [1 .. n -> R] /\ IsInjective(ids)
        BY <2>2 DEF SetToSeq
    <2> HIDE DEF ids, n
    <2>4. QED
        BY <2>1, <2>3 DEF IsInjective
<1>5. DOMAIN ids = 1 .. n /\ amounts = [k \in DOMAIN ids |-> rows[ids[k]].amount]
    <2>1. amounts = [k \in DOMAIN ids |-> rows[ids[k]].amount]
        BY DEF AmountsFor
    <2> HIDE DEF ids, n, R, amounts
    <2>2. QED
        BY <1>4, <2>1
<1>6. {ids[k] : k \in 1 .. n} = R
    <2> DEFINE dom == 1 .. n
    <2>1. IsFiniteSet(dom) /\ Cardinality(dom) = n
        BY <1>4, FS_Interval
    <2> HIDE DEF R, ids
    <2>2. ids \in Injection(dom, R)
        <3>1. \A x, y \in DOMAIN ids : ids[x] = ids[y] => x = y
            BY <1>4
        <3> HIDE DEF n
        <3>2. QED
            BY <1>4, <3>1 DEF Injection, IsInjective
    <2> HIDE DEF dom
    <2>3. ids \in Surjection(dom, R)
        BY <1>1, <2>1, <2>2, FS_Injection
    <2>4. \A r \in R : \E k \in dom : ids[k] = r
        BY <2>3 DEF Surjection
    <2> HIDE DEF n
    <2>5. \A k \in dom : ids[k] \in R
        BY <1>4 DEF dom
    <2>6. QED
        BY <2>4, <2>5 DEF dom
<1>7. SumFunctionOnSet(f, R) = SumFunctionOnSet(g, RepaymentIds)
    <2>1. \A r \in R : f[r] \in Int /\ g[r] = f[r]
        BY <1>2
    <2> HIDE DEF R, f, g
    <2>2. QED
        BY <1>1, <1>3, <2>1, SumFilter
<1> HIDE DEF R, n, ids, f, g, amounts
<1>8. \A k \in 1 .. n : ids[k] \in R /\ amounts[k] = f[ids[k]] /\ amounts[k] \in Nat
    BY <1>2, <1>4, <1>5
<1>9. amounts \in Seq(Nat) /\ DOMAIN amounts = 1 .. n
    <2>1. amounts = [k \in 1 .. n |-> amounts[k]]
        BY <1>5
    <2>2. amounts \in [1 .. n -> Nat]
        BY <1>8, <2>1
    <2>3. QED
        BY <1>4, <2>2, FunctionIsSequence
<1>10. SumFunctionOnSet(amounts, 1 .. n) = SumFunctionOnSet(f, {ids[k] : k \in 1 .. n})
    <2> DEFINE dom == 1 .. n
    <2>1. IsFiniteSet(dom)
        BY <1>4, FS_Interval
    <2>2. \A k \in dom : amounts[k] \in Int /\ amounts[k] = f[ids[k]]
        BY <1>8
    <2>3. ids \in [dom -> R] /\ \A x, y \in dom : ids[x] = ids[y] => x = y
        BY <1>4
    <2> HIDE DEF dom
    <2>4. SumFunctionOnSet(amounts, dom) = SumFunctionOnSet(f, {ids[k] : k \in dom})
        BY <1>1, <2>1, <2>2, <2>3, SumReindexed
    <2>5. QED
        BY <2>4 DEF dom
<1>11. SumSeq(amounts) = SumFunctionOnSet(amounts, 1 .. n)
    BY <1>9 DEF SumSeq, SumFunction
<1>12. TotalFor(rows, l) = SumFunctionOnSet(g, RepaymentIds)
    BY DEF TotalFor, g
<1>13. QED
    BY <1>6, <1>7, <1>9, <1>10, <1>11, <1>12 DEF amounts

-----------------------------------------------------------------------------
(***************************************************************************)
(* The row of a loan with its instalments: what holds of it when it is     *)
(* made and after each change.                                             *)
(***************************************************************************)
\* Due dates in order, of which the last is the end of the loan.
Calendar(row) ==
    LET items == row.installments IN
    /\ \A n \in 1 .. Len(items) : Twentieth(items[n].due)
    /\ \A n \in 1 .. Len(items) - 1 : items[n].due < items[n + 1].due
    /\ row.finalDue = items[Len(items)].due

\* Of the obligation, the instalments have received what does not remain.
Balanced(row) ==
    /\ row.obligation = row.principal + row.fee
    /\ row.obligation >= Len(row.installments) /\ Len(row.installments) > 0
    /\ Scheduled(row.installments) = row.obligation
    /\ row.remaining <= row.obligation
    /\ PaidUp(row.installments, row.obligation - row.remaining)

RowOK(row) ==
    /\ row \in LoanRows
    /\ Balanced(row) /\ Calendar(row)
    /\ row.status = (IF row.remaining = 0 THEN "paid" ELSE "active")
    /\ row.nextDue = FirstUnpaidDue(row.installments, EmptyDate)

\* What was agreed on when the loan was paid out.
SameTerms(new, old) ==
    /\ new.member = old.member /\ new.type = old.type /\ new.asked = old.asked
    /\ new.principal = old.principal /\ new.monthlyFee = old.monthlyFee /\ new.fee = old.fee
    /\ new.obligation = old.obligation /\ Len(new.installments) = Len(old.installments)

LEMMA RowFacts ==
    ASSUME NEW row \in LoanRows
    PROVE  /\ row.member \in Members /\ row.type \in LoanTypes
           /\ row.asked \in Nat /\ row.start \in Nat /\ row.principal \in Nat
           /\ row.monthlyFee \in Nat \cup {NoFee} /\ row.fee \in Nat
           /\ row.obligation \in Nat /\ row.remaining \in Nat
           /\ row.nextDue \in Nat /\ row.finalDue \in Nat /\ row.installments \in Items
           /\ Len(row.installments) \in Nat
           /\ row.status \in LoanStatuses
<1>1. row.installments \in Items
    BY DEF LoanRows, Items
<1>2. Len(row.installments) \in Nat
    BY <1>1, ItemFacts
<1>3. QED
    BY <1>1, <1>2 DEF LoanRows

LEMMA UnpaidFacts ==
    ASSUME NEW items \in Items, NEW total \in Nat, total <= Scheduled(items), PaidUp(items, total)
    PROVE  /\ FirstUnpaidDue(items, EmptyDate) \in Nat
           /\ total = Scheduled(items) =>
                 \A otherwise : FirstUnpaidDue(items, otherwise) = otherwise
           /\ total # Scheduled(items) =>
                 FirstUnpaidDue(items, NullDate) = FirstUnpaidDue(items, EmptyDate)
           /\ UnpaidSum(items) = Scheduled(items) - total
<1>1. CASE total = Scheduled(items)
    <2>1. \A otherwise : FirstUnpaidDue(items, otherwise) = otherwise
        BY <1>1, AllPaid DEF FirstUnpaidDue
    <2>2. QED
        BY <1>1, <2>1, PaidTotal DEF EmptyDate, UnpaidSum, Share
<1>2. CASE total # Scheduled(items)
    <2>1. PICK due \in Nat : \A otherwise : FirstUnpaidDue(items, otherwise) = due
        BY <1>2, AllPaid, FirstUnpaid
    <2>2. FirstUnpaidDue(items, EmptyDate) = due /\ FirstUnpaidDue(items, NullDate) = due
        BY <2>1
    <2>3. UnpaidSum(items) = Scheduled(items) - total
        BY PaidTotal DEF UnpaidSum, Share
    <2>4. QED
        BY <1>2, <2>2, <2>3
<1>3. QED
    BY <1>1, <1>2

LEMMA NewLoanRow ==
    ASSUME NEW m \in Members, NEW type \in LoanTypes, NEW asked \in Nat, NEW start \in Nat,
           NEW principal, NEW duration, NEW t, GoodTerms(t, principal, duration, start),
           NEW new, new = NewLoan(m, type, asked, start, t)
    PROVE  /\ RowOK(new) /\ new.remaining = new.obligation
           /\ new.member = m /\ new.type = type /\ new.asked = asked /\ new.start = start
           /\ new.principal = principal /\ new.monthlyFee = t.monthlyFee /\ new.fee = t.fee
           /\ new.obligation = t.obligation /\ Len(new.installments) = duration
           /\ new.finalDue = loanDueDate(start, duration)
<1> DEFINE items == t.installments
<1>1. /\ t.principal = principal /\ principal \in Nat \ {0}
      /\ t.duration = duration /\ duration \in Nat \ {0}
      /\ t.monthlyFee \in Nat \cup {NoFee} /\ t.fee \in Nat
      /\ t.obligation = principal + t.fee /\ t.obligation >= duration
      /\ items = buildLoanScheduleFromObligation(t.obligation, duration, start)
    BY DEF GoodTerms
<1>2. t.obligation \in Nat \ {0}
    BY <1>1
<1>3. /\ items \in Items /\ Len(items) = duration
      /\ Scheduled(items) = t.obligation /\ PaidUp(items, 0)
      /\ \A n \in 1 .. duration :
            items[n].due = loanDueDate(start, n) /\ items[n].scheduled > 0
    BY <1>1, <1>2, BuiltSchedule
<1> DEFINE due1 == items[1].due
           dueN == items[t.duration].due
<1>4. due1 = loanDueDate(start, 1) /\ dueN = loanDueDate(start, duration)
      /\ dueN = items[Len(items)].due
    BY <1>1, <1>3
<1>5. due1 \in Nat /\ dueN \in Nat
    <2>1. 1 \in Nat \ {0} /\ duration \in Nat \ {0}
        BY <1>1
    <2>2. loanDueDate(start, 1) \in Nat /\ loanDueDate(start, duration) \in Nat
        BY <2>1, DueDates DEF Twentieth
    <2>3. QED
        BY <1>4, <2>2
<1>6. new = [status |-> "active", member |-> m, type |-> type, asked |-> asked, start |-> start,
             principal |-> principal, monthlyFee |-> t.monthlyFee, fee |-> t.fee,
             obligation |-> t.obligation, remaining |-> t.obligation,
             nextDue |-> due1, finalDue |-> dueN, installments |-> items]
    BY <1>1 DEF NewLoan
<1>7. FirstUnpaidDue(items, EmptyDate) = due1
    <2>1. DOMAIN items = 1 .. duration /\ 1 \in 1 .. duration /\ 1 .. 1 - 1 = {}
        BY <1>1, <1>3, ItemFacts
    <2>2. Unpaid(items[1]) > 0
        <3>1. /\ items[1].scheduled \in Nat /\ items[1].scheduled > 0
              /\ items[1].paid = Share(0 - Before(items, 1), items[1].scheduled)
              /\ Before(items, 1) = 0
            BY <1>3, <2>1, ItemFacts, BeforeStep DEF PaidUp
        <3>2. QED
            BY <3>1 DEF Share, Unpaid
    <2> HIDE DEF items
    <2>3. QED
        BY <1>3, <2>1, <2>2, FirstUnpaidIs DEF due1
<1> HIDE DEF items, due1, dueN
<1>8. new \in LoanRows
    BY <1>1, <1>2, <1>3, <1>5, <1>6 DEF LoanRows, LoanStatuses, Items
<1>9. /\ new.status = "active" /\ new.member = m /\ new.type = type /\ new.asked = asked
      /\ new.start = start /\ new.principal = principal /\ new.monthlyFee = t.monthlyFee
      /\ new.fee = t.fee /\ new.obligation = t.obligation /\ new.remaining = t.obligation
      /\ new.nextDue = due1 /\ new.finalDue = dueN /\ new.installments = items
    BY <1>6
<1> HIDE DEF LoanRows
<1>10. Balanced(new)
    <2>1. t.obligation - t.obligation = 0
        BY <1>2
    <2>2. QED
        BY <1>1, <1>2, <1>3, <1>9, <2>1 DEF Balanced
<1>11. Calendar(new)
    <2>1. ASSUME NEW n \in 1 .. duration PROVE Twentieth(items[n].due)
        <3>1. n \in Nat \ {0} /\ items[n].due = loanDueDate(start, n)
            BY <1>1, <1>3
        <3>2. QED
            BY <3>1, DueDates
    <2>2. ASSUME NEW n \in 1 .. duration - 1 PROVE items[n].due < items[n + 1].due
        <3>1. n \in 1 .. duration /\ n + 1 \in 1 .. duration /\ n \in Nat \ {0}
            BY <1>1
        <3>2. /\ items[n].due = loanDueDate(start, n) /\ items[n + 1].due = loanDueDate(start, n + 1)
              /\ loanDueDate(start, n + 1) = loanDueDate(start, n) + 100
              /\ loanDueDate(start, n) \in Nat
            BY <1>3, <3>1, DueDates DEF Twentieth
        <3>3. QED
            BY <3>2
    <2>3. QED
        BY <1>3, <1>4, <1>9, <2>1, <2>2 DEF Calendar
<1>12. QED
    BY <1>2, <1>3, <1>4, <1>7, <1>8, <1>9, <1>10, <1>11 DEF RowOK

\* The row after its repayments changed: the same terms and dates, and a
\* balance that is not below zero.
PaidRow(new, row, remaining) ==
    /\ RowOK(new) /\ SameTerms(new, row) /\ new.start = row.start /\ new.finalDue = row.finalDue
    /\ SameSchedule(new.installments, row.installments) /\ new.remaining = remaining

LEMMA ChangedPayments ==
    ASSUME NEW row, RowOK(row), NEW remaining \in Nat, remaining <= row.obligation,
           NEW items, items \in Items, SameSchedule(items, row.installments),
           PaidUp(items, row.obligation - remaining), NEW status, NEW due, NEW new,
           status = (IF remaining = 0 THEN "paid" ELSE "active"),
           due = FirstUnpaidDue(items, EmptyDate),
           new = [row EXCEPT !.installments = items, !.remaining = remaining,
                             !.status = status, !.nextDue = due]
    PROVE  PaidRow(new, row, remaining)
<1>1. /\ row \in LoanRows /\ row.obligation \in Nat /\ row.installments \in Items
      /\ Len(row.installments) \in Nat
    BY RowFacts DEF RowOK
<1>2. Scheduled(items) = row.obligation /\ Len(items) = Len(row.installments)
    BY <1>1, SameBefore DEF SameSchedule, RowOK, Balanced
<1>3. due \in Nat
    <2> DEFINE total == row.obligation - remaining
    <2>1. total \in Nat /\ total <= Scheduled(items)
        BY <1>1, <1>2
    <2> HIDE DEF total
    <2>2. PaidUp(items, total)
        BY DEF total
    <2>3. QED
        BY <2>1, <2>2, UnpaidFacts
<1>4. status \in LoanStatuses
    BY DEF LoanStatuses
<1>5. /\ new \in LoanRows
      /\ new.installments = items /\ new.remaining = remaining
      /\ new.status = status /\ new.nextDue = due
      /\ new.member = row.member /\ new.type = row.type /\ new.asked = row.asked
      /\ new.start = row.start /\ new.principal = row.principal
      /\ new.monthlyFee = row.monthlyFee /\ new.fee = row.fee
      /\ new.obligation = row.obligation /\ new.finalDue = row.finalDue
    BY <1>1, <1>3, <1>4 DEF LoanRows, Items
<1>6. Balanced(new)
    BY <1>2, <1>5 DEF RowOK, Balanced
<1>7. Calendar(new)
    <2>1. /\ \A n \in 1 .. Len(items) : items[n].due = row.installments[n].due
          /\ Len(items) > 0
        BY <1>2 DEF SameSchedule, RowOK, Balanced
    <2>2. \A n \in 1 .. Len(items) - 1 : items[n].due < items[n + 1].due
        <3>1. \A n \in 1 .. Len(items) - 1 : n \in 1 .. Len(items) /\ n + 1 \in 1 .. Len(items)
            BY <1>1, <1>2
        <3>2. QED
            BY <1>2, <2>1, <3>1 DEF RowOK, Calendar
    <2>3. Len(items) \in 1 .. Len(items)
        BY <1>1, <1>2, <2>1
    <2>4. QED
        BY <1>2, <1>5, <2>1, <2>2, <2>3 DEF RowOK, Calendar
<1>8. RowOK(new)
    BY <1>5, <1>6, <1>7 DEF RowOK
<1>9. SameTerms(new, row)
    BY <1>2, <1>5 DEF SameTerms
<1>10. QED
    BY <1>5, <1>8, <1>9 DEF PaidRow

\* One more repayment.
LEMMA RepaidRow ==
    ASSUME NEW row, RowOK(row), NEW amount \in Nat, amount <= row.remaining,
           row.remaining # 0, NEW new, new = Repaid(row, amount)
    PROVE  PaidRow(new, row, row.remaining - amount)
<1>1. /\ row \in LoanRows /\ row.obligation \in Nat /\ row.installments \in Items
      /\ row.remaining \in Nat
    BY RowFacts DEF RowOK
<1> DEFINE total == row.obligation - row.remaining
           remaining == row.remaining - amount
           items  == PayOldestFirst(row.installments, amount)
           status == IF row.remaining = amount THEN "paid" ELSE row.status
           due    == IF row.remaining = amount THEN EmptyDate
                     ELSE FirstUnpaidDue(items, EmptyDate)
<1>2. total \in Nat /\ PaidUp(row.installments, total) /\ remaining \in Nat
      /\ row.obligation - remaining = total + amount /\ remaining <= row.obligation
    BY <1>1 DEF RowOK, Balanced
<1>3. new = [row EXCEPT !.installments = items, !.remaining = remaining,
                        !.status = status, !.nextDue = due]
    BY DEF Repaid
<1>4. status = (IF remaining = 0 THEN "paid" ELSE "active")
    BY <1>1 DEF RowOK
<1> HIDE DEF total, status
<1>5. /\ items \in Items /\ SameSchedule(items, row.installments)
      /\ PaidUp(items, total + amount)
    BY <1>1, <1>2, PaymentSpreads
<1>6. Scheduled(items) = row.obligation /\ DOMAIN items = 1 .. Len(items)
    BY <1>1, <1>5, SameBefore, ItemFacts DEF RowOK, Balanced
<1> HIDE DEF items
<1>7. due = FirstUnpaidDue(items, EmptyDate)
    <2>1. CASE row.remaining = amount
        <3>1. total + amount = Scheduled(items) /\ total + amount \in Nat
            BY <1>1, <1>2, <1>6, <2>1 DEF total
        <3> DEFINE sum == total + amount
        <3> HIDE DEF sum
        <3>2. sum \in Nat /\ sum <= Scheduled(items) /\ sum = Scheduled(items)
              /\ PaidUp(items, sum)
            BY <1>1, <1>5, <1>6, <3>1 DEF sum
        <3>3. FirstUnpaidDue(items, EmptyDate) = EmptyDate
            BY <1>5, <3>2, UnpaidFacts
        <3>4. QED
            BY <2>1, <3>3
    <2>2. QED
        BY <2>1
<1> HIDE DEF due, remaining
<1>8. PaidUp(items, row.obligation - remaining)
    BY <1>2, <1>5
<1>9. PaidRow(new, row, remaining)
    BY <1>2, <1>3, <1>4, <1>5, <1>7, <1>8, ChangedPayments
<1>10. QED
    BY <1>9 DEF remaining

\* All repayments again.
LEMMA RefreshedRow ==
    ASSUME NEW row, RowOK(row), NEW amounts \in Seq(Nat), SumSeq(amounts) <= row.obligation,
           NEW new, new = Refreshed(row, amounts), new.nextDue # NullDate
    PROVE  PaidRow(new, row, row.obligation - SumSeq(amounts))
<1>1. /\ row \in LoanRows /\ row.obligation \in Nat /\ row.installments \in Items
      /\ row.remaining \in Nat
    BY RowFacts DEF RowOK
<1> DEFINE total == SumSeq(amounts)
           remaining == row.obligation - total
           items  == allocateRepaymentsOldestFirst(row.installments, amounts)
           status == RefreshedStatus(row, remaining)
           due    == IF remaining = 0 THEN NullDate ELSE FirstUnpaidDue(items, NullDate)
<1>2. total \in Nat /\ items = Spread(row.installments, total)
    BY <1>1, ReplaySpreads
<1>3. remaining \in Nat /\ row.obligation - remaining = total /\ remaining <= row.obligation
    BY <1>1, <1>2
<1>4. new = [row EXCEPT !.installments = items, !.remaining = remaining,
                        !.status = status, !.nextDue = due]
    BY DEF Refreshed
<1>5. status = (IF remaining = 0 THEN "paid" ELSE "active")
    BY DEF RowOK, RefreshedStatus
<1>6. new.nextDue = due
    BY <1>1, <1>4 DEF LoanRows
<1>7. remaining # 0
    BY <1>6
<1> HIDE DEF total, status, items
<1>8. items \in Items /\ SameSchedule(items, row.installments) /\ PaidUp(items, total)
    BY <1>1, <1>2, SpreadIsPaid
<1>9. Scheduled(items) = row.obligation
    BY <1>1, <1>8, SameBefore DEF RowOK, Balanced
<1>10. due = FirstUnpaidDue(items, EmptyDate)
    <2>1. total <= Scheduled(items) /\ total # Scheduled(items)
        BY <1>1, <1>2, <1>3, <1>7, <1>9
    <2> HIDE DEF remaining
    <2>2. FirstUnpaidDue(items, NullDate) = FirstUnpaidDue(items, EmptyDate)
        BY <1>2, <1>8, <2>1, UnpaidFacts
    <2>3. QED
        BY <1>7, <2>2
<1> HIDE DEF due, remaining
<1>11. PaidUp(items, row.obligation - remaining)
    BY <1>3, <1>8
<1>12. PaidRow(new, row, remaining)
    BY <1>3, <1>4, <1>5, <1>8, <1>10, <1>11, ChangedPayments
<1>13. QED
    BY <1>12 DEF remaining, total

\* A month is skipped: what was paid stays where it is.
LEMMA SuspendedRow ==
    ASSUME NEW row, RowOK(row), row.remaining > 0, NEW month, MaySuspend(row, month),
           NEW new, new = Suspended(row, month)
    PROVE  /\ RowOK(new) /\ SameTerms(new, row) /\ new.start = row.start
           /\ new.remaining = row.remaining /\ new.finalDue = row.finalDue + 100
           /\ \A n \in DOMAIN row.installments :
                 row.installments[n].paid > 0 =>
                     new.installments[n].due = row.installments[n].due
<1>1. /\ row \in LoanRows /\ row.obligation \in Nat /\ row.installments \in Items
      /\ Len(row.installments) \in Nat /\ row.remaining \in Nat /\ row.finalDue \in Nat
    BY RowFacts DEF RowOK
<1> DEFINE old == row.installments
           len == Len(old)
<1>2. /\ DOMAIN old = 1 .. len /\ len \in Nat /\ len > 0
      /\ \A n \in 1 .. len :
            /\ old[n] \in Installments
            /\ old[n].due \in Nat /\ old[n].scheduled \in Nat /\ old[n].paid \in Nat
    BY <1>1, ItemFacts DEF RowOK, Balanced
<1>3. PICK target \in DOMAIN old :
          /\ {n \in DOMAIN old : MonthOf(old[n].due) = month} = {target}
          /\ \A n \in DOMAIN old : IF n < target THEN Unpaid(old[n]) = 0 ELSE old[n].paid = 0
    BY DEF MaySuspend
<1> DEFINE chosen == CHOOSE n \in DOMAIN old : MonthOf(old[n].due) = month
<1>4. chosen = target
    BY <1>3
<1> DEFINE Shifted(t) == [n \in DOMAIN old |->
                              IF n < t THEN old[n]
                              ELSE [old[n] EXCEPT !.due = nextSuspensionDate(@)]]
           items == Shifted(target)
           due   == FirstUnpaidDue(items, EmptyDate)
           final == nextSuspensionDate(row.finalDue)
<1>5. new = [row EXCEPT !.installments = items, !.finalDue = final, !.nextDue = due]
    <2>1. new = [row EXCEPT !.installments = Shifted(chosen), !.finalDue = final,
                            !.nextDue = FirstUnpaidDue(Shifted(chosen), EmptyDate)]
        BY DEF Suspended
    <2> HIDE DEF chosen, Shifted, final
    <2>2. QED
        BY <1>4, <2>1
<1> HIDE DEF chosen
<1>6. \A n \in 1 .. len : Twentieth(old[n].due)
    BY DEF RowOK, Calendar
<1>7. ASSUME NEW n \in 1 .. len
      PROVE  /\ items[n] \in Installments /\ items[n].scheduled = old[n].scheduled
             /\ items[n].paid = old[n].paid /\ Twentieth(items[n].due)
             /\ items[n].due = IF n < target THEN old[n].due ELSE old[n].due + 100
    <2>1. CASE n < target
        BY <1>2, <1>6, <2>1
    <2>2. CASE ~(n < target)
        <3>1. items[n] = [old[n] EXCEPT !.due = nextSuspensionDate(old[n].due)]
            BY <1>2, <2>2
        <3>2. nextSuspensionDate(old[n].due) = old[n].due + 100 /\ Twentieth(old[n].due + 100)
            BY <1>6, NextMonth
        <3>3. old[n] \in Installments /\ old[n].due + 100 \in Nat
            BY <1>2
        <3> HIDE DEF items, old
        <3>4. QED
            BY <2>2, <3>1, <3>2, <3>3 DEF Installments
    <2>3. QED
        BY <2>1, <2>2
<1>8. items \in Items /\ Len(items) = len
    <2>1. items = [n \in 1 .. len |-> items[n]]
        BY <1>2
    <2> HIDE DEF items
    <2>2. items \in [1 .. len -> Installments]
        BY <1>7, <2>1
    <2> HIDE DEF len
    <2>3. QED
        BY <1>2, <2>2, FunctionIsSequence DEF Items
<1> HIDE DEF items
<1>9. (\A n : Before(items, n) = Before(old, n)) /\ Scheduled(items) = Scheduled(old)
    <2>1. DOMAIN items = 1 .. len
        BY <1>8, ItemFacts
    <2>2. Amounts(items) = Amounts(old)
        BY <1>2, <1>7, <2>1 DEF Amounts
    <2>3. QED
        BY <2>2 DEF Before, Scheduled, Amounts
<1>10. PaidUp(items, row.obligation - row.remaining)
    <2> DEFINE total == row.obligation - row.remaining
    <2> HIDE DEF total
    <2>1. PaidUp(old, total)
        BY DEF RowOK, Balanced, total
    <2>2. ASSUME NEW n \in 1 .. len
          PROVE  items[n].paid = Share(total - Before(items, n), items[n].scheduled)
        <3>1. old[n].paid = Share(total - Before(old, n), old[n].scheduled)
            BY <2>1 DEF PaidUp
        <3>2. /\ Before(items, n) = Before(old, n) /\ items[n].paid = old[n].paid
              /\ items[n].scheduled = old[n].scheduled
            BY <1>7, <1>9
        <3> HIDE DEF old, len
        <3>3. QED
            BY <3>1, <3>2
    <2>3. PaidUp(items, total)
        BY <1>8, <2>2 DEF PaidUp
    <2>4. QED
        BY <2>3 DEF total
<1>11. due \in Nat
    <2> DEFINE total == row.obligation - row.remaining
    <2>1. total \in Nat /\ total <= Scheduled(items)
        BY <1>1, <1>9 DEF RowOK, Balanced
    <2> HIDE DEF total
    <2>2. PaidUp(items, total)
        BY <1>10 DEF total
    <2>3. QED
        BY <1>8, <2>1, <2>2, UnpaidFacts
<1>12. final = row.finalDue + 100 /\ row.finalDue = old[len].due
    <2>1. len \in 1 .. len /\ row.finalDue = old[len].due
        BY <1>2 DEF RowOK, Calendar
    <2>2. QED
        BY <1>6, <2>1, NextMonth
<1>13. final \in Nat
    BY <1>1, <1>12
<1> HIDE DEF due, final, old, len
<1>14. /\ new \in LoanRows
       /\ new.installments = items /\ new.remaining = row.remaining
       /\ new.status = row.status /\ new.nextDue = due
       /\ new.member = row.member /\ new.type = row.type /\ new.asked = row.asked
       /\ new.start = row.start /\ new.principal = row.principal
       /\ new.monthlyFee = row.monthlyFee /\ new.fee = row.fee
       /\ new.obligation = row.obligation /\ new.finalDue = final
    BY <1>1, <1>5, <1>8, <1>11, <1>13 DEF LoanRows, Items
<1>15. Balanced(new)
    BY <1>8, <1>9, <1>10, <1>14 DEF RowOK, Balanced, old, len
<1>16. Calendar(new)
    <2>1. \A n \in 1 .. len - 1 : items[n].due < items[n + 1].due
        <3>1. ASSUME NEW n \in 1 .. len - 1 PROVE items[n].due < items[n + 1].due
            <4>1. n \in 1 .. len /\ n + 1 \in 1 .. len
                BY <1>2
            <4>2. old[n].due < old[n + 1].due
                BY DEF RowOK, Calendar, old, len
            <4>3. target \in Nat
                BY <1>2
            <4>4. QED
                BY <1>2, <1>7, <4>1, <4>2, <4>3
        <3>2. QED
            BY <3>1
    <2>2. items[len].due = final
        <3>1. len \in 1 .. len /\ ~(len < target)
            BY <1>2
        <3>2. QED
            BY <1>7, <1>12, <3>1
    <2>3. QED
        BY <1>7, <1>8, <1>14, <2>1, <2>2 DEF Calendar
<1>17. RowOK(new)
    BY <1>14, <1>15, <1>16 DEF RowOK, due
<1>18. SameTerms(new, row)
    BY <1>8, <1>14 DEF SameTerms, old, len
<1>19. \A n \in DOMAIN old : old[n].paid > 0 => items[n].due = old[n].due
    BY <1>2, <1>3, <1>7
<1>20. QED
    BY <1>12, <1>14, <1>17, <1>18, <1>19 DEF old

\* Another first day, when nothing was paid.
LEMMA RestartedRow ==
    ASSUME NEW row, RowOK(row), row.remaining = row.obligation, NEW start \in Nat,
           NEW new, new = Restarted(row, start)
    PROVE  /\ RowOK(new) /\ SameTerms(new, row) /\ new.remaining = row.remaining
           /\ new.start = start
           /\ new.finalDue = loanDueDate(start, Len(row.installments))
           /\ \A n \in DOMAIN row.installments : row.installments[n].paid = 0
<1> DEFINE old == row.installments
           duration == Len(old)
<1> PICK items : items = buildLoanScheduleFromObligation(row.obligation, Len(row.installments), start)
    OBVIOUS
<1>0. new = [row EXCEPT !.start = start, !.installments = items,
                        !.nextDue = items[1].due, !.finalDue = items[Len(items)].due]
    BY DEF Restarted
<1>1. /\ row \in LoanRows /\ row.obligation \in Nat /\ old \in Items
      /\ duration \in Nat \ {0} /\ row.obligation >= duration
      /\ row.principal + row.fee = row.obligation
    <2>1. row \in LoanRows
        BY DEF RowOK
    <2>2. row.obligation \in Nat /\ old \in Items /\ duration \in Nat
        BY <2>1, RowFacts
    <2>3. duration > 0 /\ row.obligation >= duration /\ row.principal + row.fee = row.obligation
        BY DEF RowOK, Balanced
    <2>4. QED
        BY <2>1, <2>2, <2>3
<1>2. /\ items \in Items /\ Len(items) = duration
      /\ Scheduled(items) = row.obligation /\ PaidUp(items, 0)
      /\ \A n \in 1 .. duration :
            items[n].due = loanDueDate(start, n) /\ items[n].scheduled > 0
    BY <1>1, BuiltSchedule
<1> DEFINE due1 == items[1].due
           dueN == items[Len(items)].due
<1>3. due1 = loanDueDate(start, 1) /\ dueN = loanDueDate(start, duration)
      /\ due1 \in Nat /\ dueN \in Nat
    <2>1. 1 \in 1 .. duration /\ duration \in 1 .. duration /\ 1 \in Nat \ {0}
        BY <1>1
    <2>2. loanDueDate(start, 1) \in Nat /\ loanDueDate(start, duration) \in Nat
        BY <1>1, <2>1, DueDates DEF Twentieth
    <2>3. QED
        BY <1>2, <2>1, <2>2
<1>4. FirstUnpaidDue(items, EmptyDate) = due1
    <2>1. DOMAIN items = 1 .. duration /\ 1 \in 1 .. duration /\ 1 .. 1 - 1 = {}
        BY <1>1, <1>2, ItemFacts
    <2>2. Unpaid(items[1]) > 0
        <3>1. /\ items[1].scheduled \in Nat /\ items[1].scheduled > 0
              /\ items[1].paid = Share(0 - Before(items, 1), items[1].scheduled)
              /\ Before(items, 1) = 0
            BY <1>2, <2>1, ItemFacts, BeforeStep DEF PaidUp
        <3>2. QED
            BY <3>1 DEF Share, Unpaid
    <2>3. QED
        BY <1>2, <2>1, <2>2, FirstUnpaidIs DEF due1
<1> HIDE DEF due1, dueN, old, duration
<1>5. new = [row EXCEPT !.start = start, !.installments = items,
                        !.nextDue = due1, !.finalDue = dueN]
    BY <1>0 DEF due1, dueN
<1>6. /\ new \in LoanRows
      /\ new.installments = items /\ new.remaining = row.remaining
      /\ new.status = row.status /\ new.nextDue = due1
      /\ new.member = row.member /\ new.type = row.type /\ new.asked = row.asked
      /\ new.start = start /\ new.principal = row.principal
      /\ new.monthlyFee = row.monthlyFee /\ new.fee = row.fee
      /\ new.obligation = row.obligation /\ new.finalDue = dueN
    BY <1>1, <1>2, <1>3, <1>5 DEF LoanRows, Items
<1>7. Balanced(new)
    <2>1. row.obligation - row.remaining = 0
        BY <1>1
    <2>2. QED
        BY <1>1, <1>2, <1>6, <2>1 DEF Balanced
<1>8. Calendar(new)
    <2>1. ASSUME NEW n \in 1 .. duration PROVE Twentieth(items[n].due)
        <3>1. n \in Nat \ {0} /\ items[n].due = loanDueDate(start, n)
            BY <1>1, <1>2
        <3>2. QED
            BY <3>1, DueDates
    <2>2. ASSUME NEW n \in 1 .. duration - 1 PROVE items[n].due < items[n + 1].due
        <3>1. n \in 1 .. duration /\ n + 1 \in 1 .. duration /\ n \in Nat \ {0}
            BY <1>1
        <3>2. /\ items[n].due = loanDueDate(start, n) /\ items[n + 1].due = loanDueDate(start, n + 1)
              /\ loanDueDate(start, n + 1) = loanDueDate(start, n) + 100
              /\ loanDueDate(start, n) \in Nat
            BY <1>2, <3>1, DueDates DEF Twentieth
        <3>3. QED
            BY <3>2
    <2>3. QED
        BY <1>2, <1>6, <2>1, <2>2 DEF Calendar, dueN
<1>9. RowOK(new)
    BY <1>4, <1>6, <1>7, <1>8 DEF RowOK
<1>10. SameTerms(new, row)
    BY <1>2, <1>6 DEF SameTerms, old, duration
<1>11. \A n \in DOMAIN old : old[n].paid = 0
    <2>1. PaidUp(old, 0)
        <3>1. row.obligation - row.remaining = 0
            BY <1>1
        <3>2. QED
            BY <3>1 DEF RowOK, Balanced, old
    <2>2. ASSUME NEW n \in 1 .. duration PROVE old[n].paid = 0
        <3>1. /\ Before(old, n) \in Nat /\ old[n].scheduled \in Nat
              /\ old[n].paid = Share(0 - Before(old, n), old[n].scheduled)
            BY <1>1, <2>1, ItemFacts, BeforeStep DEF PaidUp, duration
        <3>2. QED
            BY <3>1 DEF Share
    <2>3. QED
        BY <1>1, <2>2, ItemFacts DEF duration
<1>12. QED
    BY <1>3, <1>6, <1>9, <1>10, <1>11 DEF old, duration

-----------------------------------------------------------------------------
(***************************************************************************)
(* The inductive invariant.  A row alone says that its instalments are     *)
(* those of its balance (RowOK); here the balance is the obligation less   *)
(* the recorded repayments, and the end of the loan is where its start and *)
(* the suspensions that were sold put it.                                  *)
(***************************************************************************)
Skipped(ss, l) == {s \in ss : s[1] = l}

LoanOK(row, total, skipped) ==
    IF row.status = "none" THEN row = NoLoan /\ total = 0 /\ skipped = {}
    ELSE /\ RowOK(row)
         /\ row.remaining = row.obligation - total
         /\ row.finalDue = loanDueDate(row.start, Len(row.installments))
                           + 100 * Cardinality(skipped)

HistoryOK(ls, rs, ss) ==
    /\ ls = [l \in LoanIds |-> ls[l]]
    /\ rs \in RepaymentTables
    /\ ss \subseteq LoanIds \X StatementMonths /\ IsFiniteSet(ss)
    /\ \A l \in LoanIds : LoanOK(ls[l], TotalFor(rs, l), Skipped(ss, l))
    /\ \A r \in RepaymentIds : rs[r].status = "recorded" => ls[rs[r].loan].status # "none"

HistoryInvariant == HistoryOK(loans, repayments, suspensions)

\* No other active loan of the member of a loan.
Alone(l) ==
    \A other \in LoanIds \ {l} :
        ~(loans'[other].status = "active" /\ loans'[other].member = loans[l].member)

\* At most loan l changes, on the same terms and as the rules for changes allow.
ChangesLoan(l) ==
    /\ suspensions \subseteq suspensions'
    /\ \A other \in LoanIds \ {l} : loans'[other] = loans[other]
    /\ loans[l].status # "none" =>
          /\ loans'[l].status # "none" /\ SameTerms(loans'[l], loans[l])
          /\ \A n \in DOMAIN loans[l].installments :
                loans[l].installments[n].paid > 0 =>
                    loans'[l].installments[n].due = loans[l].installments[n].due
          /\ loans[l].status = "paid" /\ loans'[l].status = "active" => Alone(l)

\* One loan and its part of the other tables change.
LEMMA OneLoan ==
    ASSUME NEW ls, NEW rs, NEW ss, HistoryOK(ls, rs, ss), NEW l \in LoanIds,
           NEW row, NEW ls2, ls2 = [ls EXCEPT ![l] = row], row.status # "none",
           NEW rs2 \in RepaymentTables,
           \A other \in LoanIds \ {l} : TotalFor(rs2, other) = TotalFor(rs, other),
           \A r \in RepaymentIds : rs2[r] = rs[r] \/ rs2[r].loan = l,
           NEW ss2, ss2 \subseteq LoanIds \X StatementMonths, IsFiniteSet(ss2),
           \A other \in LoanIds \ {l} : Skipped(ss2, other) = Skipped(ss, other),
           LoanOK(row, TotalFor(rs2, l), Skipped(ss2, l))
    PROVE  HistoryOK(ls2, rs2, ss2)
<1>1. /\ ls2 = [k \in LoanIds |-> ls2[k]] /\ ls2[l] = row
      /\ \A other \in LoanIds \ {l} : ls2[other] = ls[other]
    BY DEF HistoryOK
<1>2. \A k \in LoanIds : LoanOK(ls2[k], TotalFor(rs2, k), Skipped(ss2, k))
    BY <1>1 DEF HistoryOK
<1>3. ASSUME NEW r \in RepaymentIds, rs2[r].status = "recorded"
      PROVE  ls2[rs2[r].loan].status # "none"
    <2>1. CASE rs2[r].loan = l
        BY <1>1, <2>1
    <2>2. CASE rs2[r] = rs[r] /\ rs2[r].loan # l
        <3>1. rs[r].loan \in LoanIds
            BY <1>3, <2>2, CountedFacts DEF RepaymentTables
        <3>2. QED
            BY <1>1, <1>3, <2>2, <3>1 DEF HistoryOK
    <2>3. QED
        BY <2>1, <2>2
<1>4. QED
    BY <1>1, <1>2, <1>3 DEF HistoryOK

-----------------------------------------------------------------------------
LEMMA InitHistory == LoansInit => HistoryInvariant
<1> SUFFICES ASSUME LoansInit PROVE HistoryInvariant
    OBVIOUS
<1>1. /\ loans = [l \in LoanIds |-> NoLoan]
      /\ repayments = [r \in RepaymentIds |-> NoRepayment]
      /\ suspensions = {}
    BY DEF LoansInit
<1>2. repayments \in RepaymentTables
    BY <1>1 DEF RepaymentTables
<1>3. \A r \in RepaymentIds : repayments[r].status # "recorded"
    BY <1>1 DEF NoRepayment
<1>4. ASSUME NEW l \in LoanIds
      PROVE  LoanOK(loans[l], TotalFor(repayments, l), Skipped(suspensions, l))
    <2>1. RecordedFor(repayments, l) = {}
        BY <1>3 DEF RecordedFor
    <2>2. TotalFor(repayments, l) = 0
        BY <2>1, TotalZero
    <2>3. Skipped(suspensions, l) = {} /\ loans[l] = NoLoan
        BY <1>1 DEF Skipped
    <2>4. QED
        BY <2>2, <2>3 DEF LoanOK, NoLoan
<1>5. suspensions \subseteq LoanIds \X StatementMonths /\ IsFiniteSet(suspensions)
    BY <1>1, FS_EmptySet
<1>6. loans = [l \in LoanIds |-> loans[l]]
    BY <1>1
<1>7. QED
    BY <1>2, <1>3, <1>4, <1>5, <1>6 DEF HistoryInvariant, HistoryOK

\* What the row of a loan is when it is made to explain other repayments.
LEMMA PaidLoan ==
    ASSUME NEW row, NEW before, NEW skipped, LoanOK(row, before, skipped), row.status # "none",
           NEW remaining, NEW new, PaidRow(new, row, remaining),
           NEW total, remaining = row.obligation - total
    PROVE  /\ LoanOK(new, total, skipped) /\ new.status # "none" /\ SameTerms(new, row)
           /\ \A n \in DOMAIN row.installments :
                 new.installments[n].due = row.installments[n].due
<1>1. /\ RowOK(row) /\ row \in LoanRows
      /\ row.finalDue = loanDueDate(row.start, Len(row.installments))
                        + 100 * Cardinality(skipped)
    BY DEF LoanOK, RowOK
<1>2. /\ RowOK(new) /\ new.start = row.start /\ new.finalDue = row.finalDue
      /\ new.remaining = remaining /\ new.obligation = row.obligation
      /\ Len(new.installments) = Len(row.installments)
      /\ SameSchedule(new.installments, row.installments)
    BY DEF PaidRow, SameTerms
<1>3. new.status # "none"
    BY <1>2 DEF RowOK
<1>4. LoanOK(new, total, skipped)
    BY <1>1, <1>2, <1>3 DEF LoanOK
<1>5. DOMAIN row.installments = 1 .. Len(row.installments)
    BY <1>1, RowFacts, ItemFacts
<1>6. SameTerms(new, row)
    BY DEF PaidRow
<1>7. QED
    BY <1>2, <1>3, <1>4, <1>5, <1>6 DEF SameSchedule

LEMMA RecordStep ==
    ASSUME HistoryInvariant, NEW l \in LoanIds, NEW r \in RepaymentIds,
           NEW amount \in RepaymentAmounts, recordRepaymentTx(l, r, amount)
    PROVE  HistoryInvariant' /\ ChangesLoan(l)
<1> DEFINE row == loans[l]
           new == Repaid(row, amount)
           paid == [status |-> "recorded", loan |-> l, amount |-> amount]
<1>1. /\ repayments[r].status = "none" /\ row.status # "none"
      /\ Collectable(row) /\ amount <= row.remaining
      /\ loans' = [loans EXCEPT ![l] = new]
      /\ repayments' = [repayments EXCEPT ![r] = paid]
      /\ suspensions' = suspensions
    BY DEF recordRepaymentTx, MayRepay
<1>2. HistoryOK(loans, repayments, suspensions) /\ amount \in Nat \ {0}
    BY LoansAssumption DEF HistoryInvariant
<1> DEFINE rows == [repayments EXCEPT ![r] = paid]
<1>3. /\ rows \in RepaymentTables /\ rows[r] = paid
      /\ \A other \in RepaymentIds \ {r} : rows[other] = repayments[other]
      /\ repayments \in RepaymentTables
    BY <1>2 DEF HistoryOK, RepaymentTables, RepaymentRows
<1>4. \A k \in LoanIds : TotalFor(rows, k) = TotalFor(repayments, k) + (IF k = l THEN amount ELSE 0)
    <2>1. ASSUME NEW k \in LoanIds
          PROVE  TotalFor(rows, k) = TotalFor(repayments, k) + (IF k = l THEN amount ELSE 0)
        <3>1. Counted(rows[r], k) = (IF k = l THEN amount ELSE 0) /\ Counted(repayments[r], k) = 0
            BY <1>1, <1>3 DEF Counted
        <3> HIDE DEF rows
        <3>2. TotalFor(repayments, k) \in Nat
              /\ TotalFor(rows, k) = TotalFor(repayments, k)
                     + (Counted(rows[r], k) - Counted(repayments[r], k))
            BY <1>3, TotalChange
        <3>3. QED
            BY <1>2, <3>1, <3>2
    <2>2. QED
        BY <2>1
<1>5. /\ RowOK(row) /\ row.remaining = row.obligation - TotalFor(repayments, l)
    BY <1>1, <1>2 DEF HistoryOK, LoanOK
<1> HIDE DEF rows, new, paid
<1>6. row.remaining \in Nat /\ row.obligation \in Nat
    BY <1>5, RowFacts DEF RowOK
<1>7. row.remaining # 0 /\ row.status = "active"
    BY <1>1, <1>5 DEF RowOK, Collectable
<1>8. PaidRow(new, row, row.remaining - amount)
    <2> HIDE DEF row
    <2>1. QED
        BY <1>1, <1>2, <1>5, <1>7, RepaidRow DEF new
<1>9. TotalFor(repayments, l) \in Nat
    BY <1>3, TotalIsNat
<1>10. row.remaining - amount = row.obligation - TotalFor(rows, l) /\ TotalFor(rows, l) \in Nat
       /\ row.remaining - amount \in Int
    BY <1>2, <1>4, <1>5, <1>6, <1>9
<1>11. /\ LoanOK(new, TotalFor(rows, l), Skipped(suspensions, l)) /\ new.status # "none"
       /\ SameTerms(new, row)
       /\ \A n \in DOMAIN row.installments :
             new.installments[n].due = row.installments[n].due
    <2>1. LoanOK(row, TotalFor(repayments, l), Skipped(suspensions, l))
        BY <1>2 DEF HistoryOK
    <2> HIDE DEF row
    <2>2. QED
        BY <1>1, <1>8, <1>10, <2>1, PaidLoan
<1>12. \A other \in LoanIds \ {l} : TotalFor(rows, other) = TotalFor(repayments, other)
    BY <1>3, <1>4, TotalIsNat
<1>13. \A k \in RepaymentIds : rows[k] = repayments[k] \/ rows[k].loan = l
    BY <1>3 DEF paid
<1>14. HistoryOK(loans', rows, suspensions)
    <2>1. /\ suspensions \subseteq LoanIds \X StatementMonths /\ IsFiniteSet(suspensions)
          /\ rows \in RepaymentTables
        BY <1>2, <1>3 DEF HistoryOK
    <2>2. LoanOK(new, TotalFor(rows, l), Skipped(suspensions, l)) /\ new.status # "none"
        BY <1>11
    <2>3. loans' = [loans EXCEPT ![l] = new]
        BY <1>1
    <2> HIDE DEF rows, new
    <2>4. QED
        BY <1>2, <1>12, <1>13, <2>1, <2>2, <2>3, OneLoan
<1>15. HistoryInvariant'
    BY <1>1, <1>14 DEF HistoryInvariant, rows
<1>16. ChangesLoan(l)
    <2>1. loans'[l] = new /\ \A other \in LoanIds \ {l} : loans'[other] = loans[other]
        BY <1>1, <1>2 DEF HistoryOK
    <2>2. QED
        BY <1>1, <1>7, <1>11, <2>1 DEF ChangesLoan
<1>17. QED
    BY <1>15, <1>16

\* Repayments of loan l, in new rows, replayed.
LEMMA RefreshStep ==
    ASSUME HistoryInvariant, NEW r \in RepaymentIds, repayments[r].status = "recorded",
           NEW row \in RepaymentRows, row.loan = repayments[r].loan,
           NEW rows \in RepaymentTables, rows[r] = row,
           \A k \in RepaymentIds \ {r} : rows[k] = repayments[k], repayments' = rows,
           refreshLoanRepaymentScheduleTx(repayments[r].loan, rows),
           suspensions' = suspensions
    PROVE  HistoryInvariant' /\ ChangesLoan(repayments[r].loan)
<1>1. PICK l \in LoanIds : l = repayments[r].loan
    BY CountedFacts DEF HistoryInvariant, HistoryOK, RepaymentTables
<1> DEFINE loan    == loans[l]
           amounts == AmountsFor(rows, l)
           new     == Refreshed(loan, amounts)
<1>2. /\ SumSeq(amounts) <= loan.obligation
      /\ MayReopen(l, new.status) /\ new.nextDue # NullDate
      /\ loans' = [loans EXCEPT ![l] = new]
    BY <1>1 DEF refreshLoanRepaymentScheduleTx
<1>3. HistoryOK(loans, repayments, suspensions) /\ repayments \in RepaymentTables
      /\ loan.status # "none"
    BY <1>1 DEF HistoryInvariant, HistoryOK
<1>4. /\ rows \in RepaymentTables /\ rows[r] = row
      /\ \A k \in RepaymentIds \ {r} : rows[k] = repayments[k]
    OBVIOUS
<1>5. amounts \in Seq(Nat) /\ SumSeq(amounts) = TotalFor(rows, l)
    BY <1>4, AmountsRecorded
<1>6. RowOK(loan)
    BY <1>3 DEF HistoryOK, LoanOK
<1> HIDE DEF amounts, new, loan
<1>7. PaidRow(new, loan, loan.obligation - SumSeq(amounts))
    BY <1>2, <1>5, <1>6, RefreshedRow DEF new
<1>8. LoanOK(loan, TotalFor(repayments, l), Skipped(suspensions, l))
    BY <1>3 DEF HistoryOK, loan
<1>9. PaidRow(new, loan, loan.obligation - TotalFor(rows, l))
    BY <1>5, <1>7
<1>10. /\ LoanOK(new, TotalFor(rows, l), Skipped(suspensions, l)) /\ new.status # "none"
       /\ SameTerms(new, loan)
       /\ \A n \in DOMAIN loan.installments :
             new.installments[n].due = loan.installments[n].due
    BY <1>3, <1>8, <1>9, PaidLoan
<1>11. \A k \in LoanIds \ {l} : TotalFor(rows, k) = TotalFor(repayments, k)
    <2> SUFFICES ASSUME NEW k \in LoanIds \ {l}
                 PROVE  TotalFor(rows, k) = TotalFor(repayments, k)
        OBVIOUS
    <2>1. Counted(rows[r], k) = 0 /\ Counted(repayments[r], k) = 0
        BY <1>1, <1>4 DEF Counted
    <2>2. TotalFor(repayments, k) \in Nat
          /\ TotalFor(rows, k) = TotalFor(repayments, k)
                 + (Counted(rows[r], k) - Counted(repayments[r], k))
        BY <1>3, <1>4, TotalChange
    <2>3. QED
        BY <2>1, <2>2
<1>13. \A k \in RepaymentIds : rows[k] = repayments[k] \/ rows[k].loan = l
    BY <1>1, <1>4
<1>14. HistoryOK(loans', rows, suspensions)
    <2>1. suspensions \subseteq LoanIds \X StatementMonths /\ IsFiniteSet(suspensions)
        BY <1>3 DEF HistoryOK
    <2>2. QED
        BY <1>2, <1>3, <1>4, <1>10, <1>11, <1>13, <2>1, OneLoan
<1>15. HistoryInvariant'
    BY <1>14 DEF HistoryInvariant
<1>16. loans'[l] = new /\ \A other \in LoanIds \ {l} : loans'[other] = loans[other]
    BY <1>2, <1>3 DEF HistoryOK
<1>17. loans[l].status = "paid" /\ new.status = "active" => Alone(l)
    BY <1>2, <1>16 DEF MayReopen, Alone
<1>18. ChangesLoan(l)
    BY <1>10, <1>16, <1>17 DEF ChangesLoan, loan
<1>19. QED
    BY <1>1, <1>15, <1>18

LEMMA CorrectStep ==
    ASSUME HistoryInvariant, NEW r \in RepaymentIds, NEW amount \in RepaymentAmounts,
           correctRepaymentByID(r, amount)
    PROVE  HistoryInvariant' /\ ChangesLoan(repayments[r].loan)
<1> DEFINE row  == [repayments[r] EXCEPT !.amount = amount]
           rows == [repayments EXCEPT ![r] = row]
<1>1. /\ repayments[r].status = "recorded"
      /\ repayments' = rows
      /\ refreshLoanRepaymentScheduleTx(repayments[r].loan, rows)
      /\ suspensions' = suspensions
    BY DEF correctRepaymentByID
<1>2. row \in RepaymentRows /\ row.loan = repayments[r].loan
    <2>1. repayments[r] \in RepaymentRows /\ amount \in Nat
        BY <1>1, LoansAssumption
           DEF HistoryInvariant, HistoryOK, RepaymentTables, NoRepayment
    <2>2. QED
        BY <2>1 DEF RepaymentRows
<1>3. /\ rows \in RepaymentTables /\ rows[r] = row
      /\ \A k \in RepaymentIds \ {r} : rows[k] = repayments[k]
    <2> HIDE DEF row
    <2>1. repayments \in RepaymentTables
        BY DEF HistoryInvariant, HistoryOK
    <2>2. QED
        BY <1>2, <2>1 DEF RepaymentTables
<1> HIDE DEF row, rows
<1>4. QED
    BY <1>1, <1>2, <1>3, RefreshStep

LEMMA RemoveStep ==
    ASSUME HistoryInvariant, NEW r \in RepaymentIds, removeRepaymentByID(r)
    PROVE  HistoryInvariant' /\ ChangesLoan(repayments[r].loan)
<1> DEFINE row  == [repayments[r] EXCEPT !.status = "removed"]
           rows == [repayments EXCEPT ![r] = row]
<1>1. /\ repayments[r].status = "recorded"
      /\ repayments' = rows
      /\ refreshLoanRepaymentScheduleTx(repayments[r].loan, rows)
      /\ suspensions' = suspensions
    BY DEF removeRepaymentByID
<1>2. row \in RepaymentRows /\ row.loan = repayments[r].loan
    <2>1. repayments[r] \in RepaymentRows
        BY <1>1 DEF HistoryInvariant, HistoryOK, RepaymentTables, NoRepayment
    <2>2. QED
        BY <2>1 DEF RepaymentRows
<1>3. /\ rows \in RepaymentTables /\ rows[r] = row
      /\ \A k \in RepaymentIds \ {r} : rows[k] = repayments[k]
    <2> HIDE DEF row
    <2>1. repayments \in RepaymentTables
        BY DEF HistoryInvariant, HistoryOK
    <2>2. QED
        BY <1>2, <2>1 DEF RepaymentTables
<1> HIDE DEF row, rows
<1>4. QED
    BY <1>1, <1>2, <1>3, RefreshStep

LEMMA SuspendStep ==
    ASSUME HistoryInvariant, NEW l \in LoanIds, NEW month \in StatementMonths,
           applyLoanSuspensionTx(l, month)
    PROVE  HistoryInvariant' /\ ChangesLoan(l)
<1> DEFINE row   == loans[l]
           new   == Suspended(row, month)
           skips == suspensions \cup {<<l, month>>}
           total == TotalFor(repayments, l)
           skipped == Skipped(suspensions, l)
<1>1. /\ <<l, month>> \notin suspensions
      /\ row.status = "active" /\ row.remaining > 0 /\ MaySuspend(row, month)
      /\ loans' = [loans EXCEPT ![l] = new]
      /\ suspensions' = skips /\ repayments' = repayments
    BY DEF applyLoanSuspensionTx, Suspendable
<1>2. /\ HistoryOK(loans, repayments, suspensions) /\ repayments \in RepaymentTables
      /\ suspensions \subseteq LoanIds \X StatementMonths /\ IsFiniteSet(suspensions)
      /\ LoanOK(row, total, skipped)
    BY DEF HistoryInvariant, HistoryOK
<1>3. /\ skips \subseteq LoanIds \X StatementMonths /\ IsFiniteSet(skips)
    <2>1. skips \subseteq LoanIds \X StatementMonths
        BY <1>2
    <2>2. IsFiniteSet(skips)
        BY <1>2, FS_AddElement
    <2>3. QED
        BY <2>1, <2>2
<1>4. /\ Skipped(skips, l) = skipped \cup {<<l, month>>} /\ <<l, month>> \notin skipped
      /\ IsFiniteSet(skipped)
    <2>1. skipped \subseteq suspensions
        BY DEF Skipped
    <2>2. IsFiniteSet(skipped)
        BY <1>2, <2>1, FS_Subset
    <2>3. QED
        BY <1>1, <2>2 DEF Skipped
<1>5. \A other \in LoanIds \ {l} : Skipped(skips, other) = Skipped(suspensions, other)
    BY DEF Skipped
<1>6. RowOK(row) /\ row.remaining = row.obligation - total
      /\ row.finalDue = loanDueDate(row.start, Len(row.installments)) + 100 * Cardinality(skipped)
    BY <1>1, <1>2 DEF LoanOK
<1> HIDE DEF row, new, skips, total, skipped
<1>7. /\ RowOK(new) /\ SameTerms(new, row) /\ new.start = row.start
      /\ new.remaining = row.remaining /\ new.finalDue = row.finalDue + 100
      /\ \A n \in DOMAIN row.installments :
            row.installments[n].paid > 0 =>
                new.installments[n].due = row.installments[n].due
    BY <1>1, <1>6, SuspendedRow DEF new
<1>8. /\ Cardinality(Skipped(skips, l)) = Cardinality(skipped) + 1
      /\ Cardinality(skipped) \in Nat
    BY <1>4, FS_AddElement, FS_CardinalityType
<1>9. /\ loanDueDate(row.start, Len(row.installments)) \in Int
      /\ new.status = "active"
    <2>1. row.start \in Nat /\ Len(row.installments) \in Nat \ {0}
        BY <1>6, RowFacts DEF RowOK, Balanced
    <2>2. loanDueDate(row.start, Len(row.installments)) \in Nat
        BY <2>1, DueDates DEF Twentieth
    <2>3. row.remaining # 0
        BY <1>1, <1>6 DEF RowOK
    <2>4. QED
        BY <1>7, <2>2, <2>3 DEF RowOK
<1>10. new.finalDue = loanDueDate(new.start, Len(new.installments))
                      + 100 * Cardinality(Skipped(skips, l))
    <2>1. Len(new.installments) = Len(row.installments)
        BY <1>7 DEF SameTerms
    <2>2. QED
        BY <1>6, <1>7, <1>8, <1>9, <2>1
<1>11. LoanOK(new, total, Skipped(skips, l)) /\ new.status # "none"
    <2>1. new.remaining = new.obligation - total
        BY <1>6, <1>7 DEF SameTerms
    <2>2. QED
        BY <1>7, <1>9, <1>10, <2>1 DEF LoanOK
<1>12. HistoryOK(loans', repayments, skips)
    <2>1. LoanOK(new, TotalFor(repayments, l), Skipped(skips, l))
        BY <1>11 DEF total
    <2>2. QED
        BY <1>1, <1>2, <1>3, <1>5, <1>11, <2>1, OneLoan
<1>13. HistoryInvariant'
    BY <1>1, <1>12 DEF HistoryInvariant
<1>14. loans'[l] = new /\ \A other \in LoanIds \ {l} : loans'[other] = loans[other]
    BY <1>1, <1>2 DEF HistoryOK
<1>15. ChangesLoan(l)
    BY <1>1, <1>7, <1>11, <1>14 DEF ChangesLoan, row, skips
<1>16. QED
    BY <1>13, <1>15

LEMMA RestartStep ==
    ASSUME HistoryInvariant, NEW l \in LoanIds, NEW start \in StartDates,
           correctLoanStartDateByID(l, start)
    PROVE  HistoryInvariant' /\ ChangesLoan(l)
<1> DEFINE row   == loans[l]
           new   == Restarted(row, start)
           total == TotalFor(repayments, l)
           skipped == Skipped(suspensions, l)
<1>1. /\ row.status # "none" /\ Collectable(row)
      /\ \A month \in StatementMonths : <<l, month>> \notin suspensions
      /\ RecordedFor(repayments, l) = {}
      /\ loans' = [loans EXCEPT ![l] = new]
      /\ suspensions' = suspensions /\ repayments' = repayments
    BY DEF correctLoanStartDateByID, MayRestart
<1>2. /\ HistoryOK(loans, repayments, suspensions) /\ repayments \in RepaymentTables
      /\ suspensions \subseteq LoanIds \X StatementMonths /\ IsFiniteSet(suspensions)
      /\ LoanOK(row, total, skipped)
    BY DEF HistoryInvariant, HistoryOK
<1>3. total = 0 /\ skipped = {} /\ Cardinality({}) = 0
    <2>1. skipped = {}
        BY <1>1, <1>2 DEF Skipped
    <2>2. QED
        BY <1>1, <2>1, TotalZero, FS_EmptySet
<1>4. RowOK(row) /\ row.remaining = row.obligation - 0 /\ start \in Nat
    BY <1>1, <1>2, <1>3, LoansAssumption DEF LoanOK
<1>5. row.remaining = row.obligation
    <2>1. row.obligation \in Nat
        BY <1>4, RowFacts DEF RowOK
    <2>2. QED
        BY <1>4, <2>1
<1> HIDE DEF row, new, total, skipped
<1>7. /\ RowOK(new) /\ SameTerms(new, row) /\ new.remaining = row.remaining
      /\ new.start = start
      /\ new.finalDue = loanDueDate(start, Len(row.installments))
      /\ \A n \in DOMAIN row.installments : row.installments[n].paid = 0
    BY <1>4, <1>5, RestartedRow DEF new
<1>8. LoanOK(new, total, skipped) /\ new.status # "none"
    <2>1. /\ new.obligation \in Nat /\ new.finalDue \in Nat
          /\ new.status # "none"
        BY <1>7, RowFacts DEF RowOK
    <2>2. Len(new.installments) = Len(row.installments) /\ new.obligation = row.obligation
        BY <1>7 DEF SameTerms
    <2>3. new.remaining = new.obligation - 0 /\ new.finalDue = new.finalDue + 100 * 0
        BY <1>5, <1>7, <2>1, <2>2
    <2>4. QED
        BY <1>3, <1>7, <2>1, <2>2, <2>3 DEF LoanOK
<1>9. HistoryOK(loans', repayments, suspensions)
    <2>1. LoanOK(new, TotalFor(repayments, l), Skipped(suspensions, l))
        BY <1>8 DEF total, skipped
    <2>2. QED
        BY <1>1, <1>2, <1>8, <2>1, OneLoan
<1>10. HistoryInvariant'
    BY <1>1, <1>9 DEF HistoryInvariant
<1>11. loans'[l] = new /\ \A other \in LoanIds \ {l} : loans'[other] = loans[other]
    BY <1>1, <1>2 DEF HistoryOK
<1>12. row.status # "paid"
    BY <1>1 DEF Collectable
<1>13. ChangesLoan(l)
    BY <1>1, <1>7, <1>8, <1>11, <1>12 DEF ChangesLoan, row
<1>14. QED
    BY <1>10, <1>13

\* A loan that is paid out.
LEMMA OpenedLoan ==
    ASSUME NEW m \in Members, NEW type \in LoanTypes, NEW asked \in Nat, NEW start \in Nat,
           NEW principal, NEW duration, NEW t, GoodTerms(t, principal, duration, start),
           NEW new, new = NewLoan(m, type, asked, start, t)
    PROVE  LoanOK(new, 0, {}) /\ new.status # "none"
<1>1. /\ RowOK(new) /\ new.remaining = new.obligation /\ new.start = start
      /\ Len(new.installments) = duration /\ new.finalDue = loanDueDate(start, duration)
    BY NewLoanRow
<1>2. new.status # "none"
    BY <1>1 DEF RowOK
<1>3. Cardinality({}) = 0
    BY FS_EmptySet
<1>4. new.remaining \in Nat /\ new.obligation \in Nat /\ new.finalDue \in Nat
    BY <1>1, RowFacts DEF RowOK
<1>5. new.remaining = new.obligation - 0 /\ new.finalDue = new.finalDue + 100 * 0
    BY <1>1, <1>4
<1>6. QED
    BY <1>1, <1>2, <1>3, <1>5 DEF LoanOK

\* What a payment, a correction, a removal, a suspension or a new start does.
LEMMA LifeStep ==
    ASSUME HistoryInvariant, RepaymentStep \/ ScheduleStep
    PROVE  /\ HistoryInvariant'
           /\ \E l \in LoanIds : ChangesLoan(l) /\ loans[l].status # "none"
<1> DEFINE Life(l) == l \in LoanIds /\ HistoryInvariant' /\ ChangesLoan(l) /\ loans[l].status # "none"
<1>1. ASSUME NEW l \in LoanIds, NEW r \in RepaymentIds, NEW amount \in RepaymentAmounts,
             recordRepaymentTx(l, r, amount)
      PROVE  Life(l)
    BY <1>1, RecordStep DEF recordRepaymentTx
<1>2. ASSUME NEW r \in RepaymentIds, repayments[r].status = "recorded"
      PROVE  repayments[r].loan \in LoanIds /\ loans[repayments[r].loan].status # "none"
    BY <1>2, CountedFacts DEF HistoryInvariant, HistoryOK, RepaymentTables
<1>3. ASSUME NEW r \in RepaymentIds, NEW amount \in RepaymentAmounts,
             correctRepaymentByID(r, amount)
      PROVE  Life(repayments[r].loan)
    <2>1. repayments[r].status = "recorded"
        BY <1>3 DEF correctRepaymentByID
    <2>2. QED
        BY <1>2, <1>3, <2>1, CorrectStep
<1>4. ASSUME NEW r \in RepaymentIds, removeRepaymentByID(r)
      PROVE  Life(repayments[r].loan)
    <2>1. repayments[r].status = "recorded"
        BY <1>4 DEF removeRepaymentByID
    <2>2. QED
        BY <1>2, <1>4, <2>1, RemoveStep
<1>5. ASSUME NEW l \in LoanIds, NEW month \in StatementMonths, applyLoanSuspensionTx(l, month)
      PROVE  Life(l)
    BY <1>5, SuspendStep DEF applyLoanSuspensionTx, Suspendable
<1>6. ASSUME NEW l \in LoanIds, NEW start \in StartDates, correctLoanStartDateByID(l, start)
      PROVE  Life(l)
    BY <1>6, RestartStep DEF correctLoanStartDateByID
<1>7. QED
    BY <1>1, <1>3, <1>4, <1>5, <1>6 DEF RepaymentStep, ScheduleStep

-----------------------------------------------------------------------------
(***************************************************************************)
(* The steps of LoanRepayments.                                            *)
(***************************************************************************)
LEMMA ContractTerms ==
    ASSUME NEW type \in LoanTypes, NEW principal \in Nat, NEW duration \in Nat, NEW start \in Nat,
           NEW t, t = TermsOf(type, principal, duration, start), ~Refused(t)
    PROVE  GoodTerms(t, principal, duration, start)
<1>1. VoucherFee \in Nat \cup {NoFee}
    BY DEF VoucherFee
<1>2. CASE type = "regular"
    BY <1>2, RegularTerms DEF TermsOf
<1>3. CASE type = "secondary_goods"
    BY <1>3, SecondaryGoodsTerms DEF TermsOf
<1>4. CASE type = "goods_purchase_paylater"
    BY <1>4, PaylaterTerms DEF TermsOf
<1>5. CASE type = "voucher"
    BY <1>1, <1>5, VoucherTerms DEF TermsOf
<1>6. QED
    BY <1>2, <1>3, <1>4, <1>5 DEF LoanTypes

LEMMA OpenStep ==
    ASSUME HistoryInvariant, NEW l \in LoanIds, NEW c \in Contracts, openLoan(l, c)
    PROVE  HistoryInvariant' /\ ChangesLoan(l)
<1> DEFINE t == TermsOf(c.type, c.principal, c.duration, c.start)
           new == NewLoan(c.member, c.type, c.asked, c.start, t)
<1>1. /\ c.member \in Members /\ c.type \in LoanTypes /\ c.asked \in Nat /\ c.start \in Nat
      /\ c.principal \in Nat /\ c.duration \in Nat
    BY ContractsAssumption DEF Contract
<1>2. /\ loans[l].status = "none" /\ ~Refused(t)
      /\ loans' = [loans EXCEPT ![l] = new]
      /\ repayments' = repayments /\ suspensions' = suspensions
    BY DEF openLoan, insertLoan
<1>3. HistoryOK(loans, repayments, suspensions)
    BY DEF HistoryInvariant
<1> HIDE DEF t
<1>4. GoodTerms(t, c.principal, c.duration, c.start)
    BY <1>1, <1>2, ContractTerms DEF t
<1> HIDE DEF new
<1>5. LoanOK(new, 0, {}) /\ new.status # "none"
    BY <1>1, <1>4, OpenedLoan DEF new
<1>6. TotalFor(repayments, l) = 0 /\ Skipped(suspensions, l) = {}
    BY <1>2, <1>3 DEF HistoryOK, LoanOK
<1>8. LoanOK(new, TotalFor(repayments, l), Skipped(suspensions, l))
    BY <1>5, <1>6
<1>9. HistoryOK(loans', repayments, suspensions)
    BY <1>2, <1>3, <1>5, <1>8, OneLoan DEF HistoryOK
<1>10. HistoryInvariant'
    BY <1>2, <1>9 DEF HistoryInvariant
<1>11. ChangesLoan(l)
    BY <1>2 DEF ChangesLoan
<1>12. QED
    BY <1>10, <1>11

LEMMA HistoryStep ==
    ASSUME HistoryInvariant, [RepaymentsNext]_<<savingsVars, loansVars>>
    PROVE  /\ HistoryInvariant'
           /\ \/ UNCHANGED loansVars
              \/ \E l \in LoanIds : ChangesLoan(l)
<1>1. CASE UNCHANGED loansVars
    BY <1>1 DEF HistoryInvariant, HistoryOK, loansVars
<1>2. ASSUME NEW l \in LoanIds, NEW c \in Contracts, openLoan(l, c)
      PROVE  HistoryInvariant' /\ ChangesLoan(l)
    BY <1>2, OpenStep
<1>3. ASSUME NEW m \in Members, endMembership(m)
      PROVE  UNCHANGED loansVars
    BY <1>3 DEF endMembership
<1>4. QED
    BY <1>1, <1>2, <1>3, LifeStep DEF RepaymentsNext

\* The balance of a loan is its obligation less the recorded repayments, its
\* instalments have received exactly them, oldest first, and its end is where
\* its start and the suspensions put it, after any number of payments,
\* corrections, removals, suspensions and new starts.
THEOREM HistoryInvariantHolds == RepaymentsSpec => []HistoryInvariant
<1>1. RepaymentsInit => HistoryInvariant
    BY InitHistory DEF RepaymentsInit
<1>2. HistoryInvariant /\ [RepaymentsNext]_<<savingsVars, loansVars>> => HistoryInvariant'
    BY HistoryStep
<1>3. QED
    BY <1>1, <1>2, PTL DEF RepaymentsSpec

-----------------------------------------------------------------------------
\* No instalment is overpaid, and none receives money before the one before it has its own.
InOrder(items) ==
    \A n \in DOMAIN items :
        /\ Unpaid(items[n]) >= 0
        /\ n > 1 /\ items[n].paid > 0 => Unpaid(items[n - 1]) = 0

\* The instalments fall due in order.
Ordered(items) == \A n \in 1 .. Len(items) - 1 : items[n].due < items[n + 1].due

LEMMA RowExplained ==
    ASSUME HistoryInvariant, NEW l \in Lent,
           NEW row, row = loans[l], NEW items, items = row.installments,
           NEW amounts, amounts = AmountsFor(repayments, l)
    PROVE  /\ row.remaining = row.obligation - SumSeq(amounts)
           /\ row.remaining = UnpaidSum(items)
           /\ Scheduled(items) = row.obligation
           /\ items = allocateRepaymentsOldestFirst(items, amounts)
           /\ row.remaining >= 0 /\ InOrder(items)
           /\ row.status = "paid" <=> row.remaining = 0
           /\ row.nextDue = FirstUnpaidDue(items, EmptyDate)
           /\ row.finalDue = items[Len(items)].due
           /\ row.finalDue = loanDueDate(row.start, Len(items))
                             + 100 * Cardinality(Skipped(suspensions, l))
           /\ Ordered(items)
<1>1. /\ l \in LoanIds /\ row.status # "none"
      /\ repayments \in RepaymentTables
      /\ LoanOK(row, TotalFor(repayments, l), Skipped(suspensions, l))
    BY DEF Lent, HistoryInvariant, HistoryOK
<1>2. amounts \in Seq(Nat) /\ SumSeq(amounts) = TotalFor(repayments, l)
    BY <1>1, AmountsRecorded
<1> DEFINE total == SumSeq(amounts)
<1>3. /\ RowOK(row) /\ row.remaining = row.obligation - total
      /\ row.finalDue = loanDueDate(row.start, Len(items))
                        + 100 * Cardinality(Skipped(suspensions, l))
    BY <1>1, <1>2 DEF LoanOK
<1>4. /\ row \in LoanRows /\ Balanced(row) /\ Calendar(row)
      /\ row.status = (IF row.remaining = 0 THEN "paid" ELSE "active")
      /\ row.nextDue = FirstUnpaidDue(items, EmptyDate)
    BY <1>3 DEF RowOK
<1>5. row.obligation \in Nat /\ row.remaining \in Nat /\ items \in Items /\ total \in Nat
    BY <1>1, <1>2, <1>4, RowFacts, TotalIsNat
<1>6. row.obligation - row.remaining = total /\ total <= row.obligation
    BY <1>3, <1>5
<1>7. PaidUp(items, total) /\ Scheduled(items) = row.obligation
    BY <1>4, <1>6 DEF Balanced
<1> HIDE DEF total
<1>8. UnpaidSum(items) = row.obligation - total
    BY <1>5, <1>6, <1>7, UnpaidFacts
<1>9. InOrder(items)
    <2>1. \A n \in DOMAIN items :
              /\ Unpaid(items[n]) \in Nat
              /\ n > 1 /\ items[n].paid > 0 => Unpaid(items[n - 1]) = 0
        BY <1>5, <1>7, PaidOldestFirst
    <2>2. QED
        BY <2>1 DEF InOrder
<1>10. items = allocateRepaymentsOldestFirst(items, amounts)
    <2>1. SameSchedule(items, items)
        BY DEF SameSchedule
    <2>2. items = Spread(items, total)
        BY <1>5, <1>7, <2>1, PaidIsSpread
    <2>3. QED
        BY <1>2, <1>5, <2>2, ReplaySpreads DEF total
<1>11. row.finalDue = items[Len(items)].due /\ Ordered(items)
    BY <1>4 DEF Calendar, Ordered
<1>12. row.remaining = row.obligation - SumSeq(amounts)
    BY <1>3 DEF total
<1>13. QED
    BY <1>3, <1>4, <1>5, <1>7, <1>8, <1>9, <1>10, <1>11, <1>12

\* In whatever order payments are recorded, corrected and removed and months
\* are skipped, the rows of a loan are what its history says.
THEOREM HistoryExplainsLoanHolds == RepaymentsSpec => []HistoryExplainsLoan
<1>1. ASSUME HistoryInvariant
      PROVE  HistoryExplainsLoan
    <2>1. PaymentsReplay
        BY <1>1, RowExplained DEF PaymentsReplay
    <2>2. NeverOverpaid
        <3>1. \A l \in Lent : loans[l].remaining >= 0 /\ InOrder(loans[l].installments)
            BY <1>1, RowExplained
        <3>2. QED
            BY <3>1, Zenon DEF NeverOverpaid, InOrder
    <2>3. StatusFollowsBalance
        BY <1>1, RowExplained DEF StatusFollowsBalance
    <2>4. ScheduleExplained
        <3>1. \A l \in Lent :
                  LET items == loans[l].installments IN
                  /\ loans[l].finalDue = items[Len(items)].due
                  /\ items[Len(items)].due = loanDueDate(loans[l].start, Len(items))
                                             + 100 * Cardinality(Skipped(suspensions, l))
                  /\ Ordered(items)
            BY <1>1, RowExplained
        <3>2. QED
            BY <3>1, Zenon DEF ScheduleExplained, Skipped, Ordered
    <2>5. QED
        BY <2>1, <2>2, <2>3, <2>4 DEF HistoryExplainsLoan
<1>2. QED
    BY <1>1, HistoryInvariantHolds, PTL

\* No correction, suspension or new start moves a month that received money,
\* and none gives a member a second active loan.
THEOREM ChangesKeepWhatIsPaidHolds == RepaymentsSpec => ChangesKeepWhatIsPaid
<1> DEFINE Holds == PaidMonthsStay /\ ReopenedAlone
<1>1. ASSUME HistoryInvariant, [RepaymentsNext]_<<savingsVars, loansVars>>
      PROVE  [Holds]_<<savingsVars, loansVars>>
    <2>1. CASE UNCHANGED loansVars
        BY <2>1 DEF loansVars, PaidMonthsStay, ReopenedAlone
    <2>2. ASSUME NEW l \in LoanIds, ChangesLoan(l)
          PROVE  Holds
        <3>1. /\ suspensions \subseteq suspensions'
              /\ \A other \in LoanIds \ {l} : loans'[other] = loans[other]
            BY <2>2 DEF ChangesLoan
        <3>2. PaidMonthsStay
            BY <2>2, <3>1 DEF ChangesLoan, PaidMonthsStay, Lent
        <3>3. ReopenedAlone
            BY <2>2, <3>1 DEF ChangesLoan, ReopenedAlone, Lent, Alone
        <3>4. QED
            BY <3>2, <3>3
    <2>3. QED
        BY <1>1, <2>1, <2>2, HistoryStep
<1>2. QED
    BY <1>1, HistoryInvariantHolds, PTL DEF RepaymentsSpec, ChangesKeepWhatIsPaid


-----------------------------------------------------------------------------
(***************************************************************************)
(* Calculations: fees are rounded to the nearest rupiah, and no product or *)
(* sum that is not refused wraps around.                                   *)
(***************************************************************************)
LEMMA LeastOfTwo ==
    ASSUME NEW a \in Nat, NEW b \in Nat
    PROVE  Min({a, b}) = IF a <= b THEN a ELSE b
<1> DEFINE least == IF a <= b THEN a ELSE b
<1>1. \A x : (x \in {a, b} /\ \A y \in {a, b} : x <= y) <=> x = least
    OBVIOUS
<1> HIDE DEF least
<1>2. Min({a, b}) = CHOOSE x : x = least
    BY <1>1 DEF Min
<1>3. QED
    BY <1>2 DEF least

\* Within half a rupiah.
Rounded(amount, exact) == amount \in Nat /\ 2 * Abs(amount * 10000 - exact) <= 10000

LEMMA HalfUpRounds ==
    ASSUME NEW x \in Nat
    PROVE  Rounded(HalfUp(x, 10000), x)
BY DEF HalfUp, Rounded, Abs

LEMMA PercentRounds ==
    ASSUME NEW principal \in Nat, NEW percent \in {5, 20},
           calculatePercentAdminFee(principal, percent) # NoFee
    PROVE  Rounded(calculatePercentAdminFee(principal, percent), principal * (percent * 100))
<1>1. /\ percent \in Nat \ {0}
      /\ calculatePercentAdminFee(principal, percent) = (principal * percent + 50) \div 100
    BY PercentFee
<1>2. CASE percent = 5
    BY <1>1, <1>2 DEF Rounded, Abs
<1>3. CASE percent = 20
    BY <1>1, <1>3 DEF Rounded, Abs
<1>4. QED
    BY <1>2, <1>3

LEMMA MonthlyRounds ==
    ASSUME NEW principal \in Nat, NEW rate, NEW duration,
           calculateRegularLoanMonthlyAdminFeeV1(principal) # NoFee
    PROVE  Rounded(calculateRegularLoanMonthlyAdminFeeV1(principal),
                   ExactFee("regular", principal, rate, duration))
<1>1. FirstTierLimit \in Nat
    BY LoanScheduleAssumption
<1>2. PICK tier \in 0 .. principal :
        /\ (tier = principal /\ principal <= FirstTierLimit) \/ tier = FirstTierLimit
        /\ calculateRegularLoanMonthlyAdminFeeV1(principal)
               = HalfUp(tier * 100 + (principal - tier) * 150, 10000)
    BY MonthlyFee
<1>3. tier = Min({principal, FirstTierLimit})
    BY <1>1, <1>2, LeastOfTwo
<1>4. ExactFee("regular", principal, rate, duration) = tier * 100 + (principal - tier) * 150
    BY <1>3 DEF ExactFee
<1>5. tier * 100 + (principal - tier) * 150 \in Nat
    OBVIOUS
<1>6. QED
    BY <1>2, <1>4, <1>5, HalfUpRounds

LEMMA Reassociate ==
    ASSUME NEW a \in Nat, NEW b \in Nat, NEW c \in Nat
    PROVE  a * (b * c) = a * b * c /\ a * (b * c) \in Nat /\ b * c \in Nat
OBVIOUS

LEMMA InterestRounds ==
    ASSUME NEW principal \in Nat, NEW duration \in Nat, NEW rate \in Nat,
           LegacyInterest(principal, duration, rate) # NoFee
    PROVE  Rounded(LegacyInterest(principal, duration, rate), principal * rate * duration)
<1> DEFINE multiplier == rate * duration
           product    == principal * multiplier
<1>1. MaxInt64 \in Nat
    BY LoanScheduleAssumption
<1>2. multiplier \in Nat /\ product \in Nat /\ product = principal * rate * duration
    BY Reassociate
<1>3. /\ ~(multiplier # 0 /\ principal > MaxInt64 \div multiplier)
      /\ LegacyInterest(principal, duration, rate) = HalfUp(Int64(product), 10000)
    BY DEF LegacyInterest
<1>4. product <= MaxInt64
    <2>1. CASE multiplier = 0
        <3>1. product = 0
            BY <2>1
        <3>2. QED
            BY <1>1, <3>1
    <2>2. CASE multiplier # 0
        <3> HIDE DEF multiplier
        <3>1. principal <= MaxInt64 \div multiplier
            BY <1>1, <1>2, <1>3, <2>2
        <3>2. QED
            BY <1>1, <1>2, <2>2, <3>1, QuotientBound
    <2>3. QED
        BY <2>1, <2>2
<1> HIDE DEF product, multiplier
<1>5. Int64(product) = product
    BY <1>1, <1>2, <1>4, Int64Exact
<1>6. QED
    BY <1>2, <1>3, <1>5, HalfUpRounds

\* A calculation of loan_schedule.go and what it returned.
Calculated(type, t, principal, duration, start, extra) ==
    /\ principal \in Nat /\ duration \in Nat /\ start \in Nat /\ extra \in Nat
    /\ type \in LoanTypes \cup {"legacy"}
    /\ t = Quotable(type, principal, duration, start, extra)
    /\ ~Refused(t)

SnapshotOf(type, t) ==
    validateLoanFeeSnapshot(IF type = "legacy" THEN "legacy_flat_monthly" ELSE PolicyOf(type),
                            t.principal, t.duration, t.monthlyFee, t.fee, t.obligation)

\* Terms whose fee is exact and which the disbursement accepts.
FineTerms(type, t, principal, duration, start, extra) ==
    /\ GoodTerms(t, principal, duration, start)
    /\ Rounded(IF type = "regular" THEN t.monthlyFee ELSE t.fee,
               ExactFee(type, principal, extra, duration))
    /\ type = "regular" => t.fee = t.monthlyFee * duration
    /\ SnapshotOf(type, t)

LEMMA TotalsAgree ==
    ASSUME NEW t, NEW principal, NEW duration, NEW start,
           GoodTerms(t, principal, duration, start), Payable64(principal, t.fee)
    PROVE  SnapshotTotals(t.principal, t.duration, t.fee, t.obligation)
<1>1. MaxInt64 \in Nat
    BY LoanScheduleAssumption
<1>2. /\ t.principal = principal /\ t.duration = duration /\ t.obligation = principal + t.fee
      /\ principal \in Nat \ {0} /\ duration \in Nat \ {0} /\ t.fee \in Nat
    BY DEF GoodTerms
<1>3. principal <= MaxInt64 - t.fee
    BY DEF Payable64
<1>4. Int64(principal + t.fee) = principal + t.fee
    BY <1>1, <1>2, <1>3, Int64Exact
<1>5. QED
    BY <1>2, <1>3, <1>4 DEF SnapshotTotals

LEMMA RegularFine ==
    ASSUME NEW t, NEW principal, NEW duration, NEW start, NEW extra,
           Calculated("regular", t, principal, duration, start, extra)
    PROVE  FineTerms("regular", t, principal, duration, start, extra)
<1> DEFINE monthly == calculateRegularLoanMonthlyAdminFeeV1(principal)
           fee     == Int64(monthly * duration)
<1>1. MaxInt64 \in Nat
    BY LoanScheduleAssumption
<1>2. /\ t = calculateRegularLoanSchedule(principal, duration, start) /\ ~Refused(t)
      /\ principal \in Nat /\ duration \in Nat
    BY DEF Calculated, Quotable
<1>3. /\ duration \in 1 .. maxLoanDurationForType("regular")
      /\ monthly # NoFee /\ monthly <= MaxInt64 \div duration /\ Payable64(principal, fee)
      /\ t = Terms(principal, monthly, fee, duration, start)
    BY <1>2, NoTermsRefused DEF calculateRegularLoanSchedule
<1>4. duration \in 1 .. 24
    BY <1>3 DEF maxLoanDurationForType
<1>5. GoodTerms(t, principal, duration, start)
    BY <1>2, RegularTerms
<1>6. monthly \in Nat /\ Rounded(monthly, ExactFee("regular", principal, extra, duration))
    BY <1>2, <1>3, MonthlyFee, MonthlyRounds
<1>7. /\ t.principal = principal /\ t.duration = duration /\ t.monthlyFee = monthly /\ t.fee = fee
    BY <1>3 DEF Terms
<1>8. SnapshotTotals(t.principal, t.duration, t.fee, t.obligation)
    BY <1>3, <1>5, <1>7, TotalsAgree
<1> HIDE DEF monthly
<1>9. fee = monthly * duration
    <2>1. monthly * duration <= MaxInt64 /\ monthly * duration \in Nat
        BY <1>1, <1>3, <1>4, <1>6, QuotientBound
    <2>2. QED
        BY <1>1, <2>1, Int64Exact
<1>10. SnapshotOf("regular", t)
    <2>1. /\ t.monthlyFee # NoFee
          /\ t.monthlyFee = calculateRegularLoanMonthlyAdminFeeV1(t.principal)
          /\ t.monthlyFee <= MaxInt64 \div t.duration
          /\ Int64(t.monthlyFee * t.duration) = t.fee /\ t.duration <= 24
        BY <1>3, <1>4, <1>7 DEF monthly
    <2>2. QED
        BY <1>8, <2>1 DEF SnapshotOf, PolicyOf, validateLoanFeeSnapshot
<1>11. QED
    BY <1>5, <1>6, <1>7, <1>9, <1>10 DEF FineTerms

LEMMA SecondaryGoodsFine ==
    ASSUME NEW t, NEW principal, NEW duration, NEW start, NEW extra,
           Calculated("secondary_goods", t, principal, duration, start, extra)
    PROVE  FineTerms("secondary_goods", t, principal, duration, start, extra)
<1> DEFINE fee == calculatePercentAdminFee(principal, 20)
<1>1. /\ t = calculateSecondaryGoodsLoanSchedule(principal, duration, start) /\ ~Refused(t)
      /\ principal \in Nat /\ duration \in Nat
    BY DEF Calculated, Quotable
<1>2. /\ duration \in 1 .. maxLoanDurationForType("secondary_goods") /\ Payable64(principal, fee)
      /\ t = Terms(principal, NoFee, fee, duration, start)
    BY <1>1, NoTermsRefused DEF calculateSecondaryGoodsLoanSchedule
<1>3. duration <= 12
    BY <1>2 DEF maxLoanDurationForType
<1>4. GoodTerms(t, principal, duration, start)
    BY <1>1, SecondaryGoodsTerms
<1>5. t.principal = principal /\ t.duration = duration /\ t.monthlyFee = NoFee /\ t.fee = fee
    BY <1>2 DEF Terms
<1>6. Rounded(fee, ExactFee("secondary_goods", principal, extra, duration))
    <2>1. Rounded(fee, principal * (20 * 100))
        BY <1>1, <1>2, PercentRounds DEF Payable64
    <2>2. ExactFee("secondary_goods", principal, extra, duration) = principal * 2000
        BY DEF ExactFee
    <2>3. QED
        BY <2>1, <2>2
<1>7. SnapshotTotals(t.principal, t.duration, t.fee, t.obligation)
    BY <1>2, <1>4, <1>5, TotalsAgree
<1>8. SnapshotOf("secondary_goods", t)
    BY <1>3, <1>5, <1>7 DEF SnapshotOf, PolicyOf, validateLoanFeeSnapshot
<1>9. QED
    BY <1>4, <1>5, <1>6, <1>8 DEF FineTerms

LEMMA PaylaterFine ==
    ASSUME NEW t, NEW principal, NEW duration, NEW start, NEW extra,
           Calculated("goods_purchase_paylater", t, principal, duration, start, extra)
    PROVE  FineTerms("goods_purchase_paylater", t, principal, duration, start, extra)
<1> DEFINE fee == calculatePercentAdminFee(principal, 5)
<1>1. /\ t = calculatePaylaterLoanSchedule(principal, duration, start) /\ ~Refused(t)
      /\ principal \in Nat /\ duration \in Nat
    BY DEF Calculated, Quotable
<1>2. /\ duration = 1 /\ Payable64(principal, fee)
      /\ t = Terms(principal, NoFee, fee, duration, start)
    BY <1>1, NoTermsRefused DEF calculatePaylaterLoanSchedule
<1>3. GoodTerms(t, principal, duration, start)
    BY <1>1, PaylaterTerms
<1>4. t.principal = principal /\ t.duration = duration /\ t.monthlyFee = NoFee /\ t.fee = fee
    BY <1>2 DEF Terms
<1>5. Rounded(fee, ExactFee("goods_purchase_paylater", principal, extra, duration))
    <2>1. Rounded(fee, principal * (5 * 100))
        BY <1>1, <1>2, PercentRounds DEF Payable64
    <2>2. ExactFee("goods_purchase_paylater", principal, extra, duration) = principal * 500
        BY DEF ExactFee
    <2>3. QED
        BY <2>1, <2>2
<1>6. SnapshotTotals(t.principal, t.duration, t.fee, t.obligation)
    BY <1>2, <1>3, <1>4, TotalsAgree
<1>7. SnapshotOf("goods_purchase_paylater", t)
    BY <1>2, <1>4, <1>6 DEF SnapshotOf, PolicyOf, validateLoanFeeSnapshot
<1>8. QED
    BY <1>3, <1>4, <1>5, <1>7 DEF FineTerms

LEMMA VoucherFine ==
    ASSUME NEW t, NEW principal, NEW duration, NEW start, NEW extra,
           Calculated("voucher", t, principal, duration, start, extra)
    PROVE  FineTerms("voucher", t, principal, duration, start, extra)
<1>1. /\ t = calculateVoucherLoanSchedule(principal, extra, duration, start) /\ ~Refused(t)
      /\ principal \in Nat /\ duration \in Nat /\ extra \in Nat
    BY DEF Calculated, Quotable
<1>2. /\ duration = 1 /\ Payable64(principal, extra)
      /\ t = Terms(principal, NoFee, extra, duration, start)
    BY <1>1, NoTermsRefused DEF calculateVoucherLoanSchedule
<1>3. GoodTerms(t, principal, duration, start)
    BY <1>1, VoucherTerms
<1>4. t.principal = principal /\ t.duration = duration /\ t.monthlyFee = NoFee /\ t.fee = extra
    BY <1>2 DEF Terms
<1>5. Rounded(extra, ExactFee("voucher", principal, extra, duration))
    BY <1>1 DEF ExactFee, Rounded, Abs
<1>6. SnapshotTotals(t.principal, t.duration, t.fee, t.obligation)
    BY <1>2, <1>3, <1>4, TotalsAgree
<1>7. SnapshotOf("voucher", t)
    BY <1>2, <1>4, <1>6 DEF SnapshotOf, PolicyOf, validateLoanFeeSnapshot
<1>8. QED
    BY <1>3, <1>4, <1>5, <1>7 DEF FineTerms

LEMMA LegacyFine ==
    ASSUME NEW t, NEW principal, NEW duration, NEW start, NEW extra,
           Calculated("legacy", t, principal, duration, start, extra)
    PROVE  FineTerms("legacy", t, principal, duration, start, extra)
<1> DEFINE fee == LegacyInterest(principal, duration, extra)
<1>1. /\ t = calculateLoanScheduleWithMaxDuration(principal, duration, extra, start, 120)
      /\ ~Refused(t)
      /\ principal \in Nat /\ duration \in Nat /\ extra \in Nat
    BY DEF Calculated, Quotable, LoanTypes
<1>2. /\ principal > 0 /\ duration \in 1 .. 120 /\ Payable64(principal, fee)
      /\ t = Terms(principal, NoFee, fee, duration, start)
    BY <1>1, NoTermsRefused, SMTT(30) DEF calculateLoanScheduleWithMaxDuration
<1>3. Rounded(fee, principal * extra * duration)
    BY <1>1, <1>2, InterestRounds DEF Payable64
<1>4. fee \in Nat /\ principal \in Nat \ {0} /\ duration \in Nat \ {0} /\ NoFee \in Nat \cup {NoFee}
    BY <1>1, <1>2, <1>3 DEF Rounded
<1> HIDE DEF fee
<1>5. GoodTerms(t, principal, duration, start)
    BY <1>1, <1>2, <1>4, TermsAreGood
<1>6. t.principal = principal /\ t.duration = duration /\ t.monthlyFee = NoFee /\ t.fee = fee
    BY <1>2 DEF Terms
<1>7. ExactFee("legacy", principal, extra, duration) = principal * extra * duration
    BY DEF ExactFee
<1>8. SnapshotTotals(t.principal, t.duration, t.fee, t.obligation)
    BY <1>2, <1>5, <1>6, TotalsAgree
<1>9. SnapshotOf("legacy", t)
    BY <1>6, <1>8 DEF SnapshotOf, validateLoanFeeSnapshot
<1>10. QED
    BY <1>3, <1>5, <1>6, <1>7, <1>9 DEF FineTerms

LEMMA CalculatedIsFine ==
    ASSUME NEW type, NEW t, NEW principal, NEW duration, NEW start, NEW extra,
           Calculated(type, t, principal, duration, start, extra)
    PROVE  FineTerms(type, t, principal, duration, start, extra)
BY RegularFine, SecondaryGoodsFine, PaylaterFine, VoucherFine, LegacyFine DEF Calculated, LoanTypes

LEMMA OneAndTwo ==
    ASSUME NEW a \in Nat, NEW b \in Nat
    PROVE  /\ <<a>> \in Seq(Nat) /\ SumSeq(<<a>>) = a
           /\ <<a, b>> \in Seq(Nat) /\ SumSeq(<<a, b>>) = a + b
<1>1. ASSUME NEW f, NEW len \in Nat, DOMAIN f = 1 .. len, \A n \in 1 .. len : f[n] \in Nat
      PROVE  /\ len = 1 => SumSeq(f) = f[1]
             /\ len = 2 => SumSeq(f) = f[1] + f[2]
    <2> DEFINE Sum(n) == SumFunctionOnSet(f, 1 .. n - 1)
    <2>1. Sum(1) = 0 /\ \A n \in 1 .. len : Sum(n + 1) = Sum(n) + f[n]
        BY <1>1, PrefixSum
    <2>2. SumSeq(f) = Sum(len + 1)
        <3>1. 1 .. (len + 1) - 1 = DOMAIN f
            BY <1>1
        <3>2. QED
            BY <3>1 DEF SumSeq, SumFunction
    <2> HIDE DEF Sum
    <2>3. CASE len = 1
        BY <1>1, <2>1, <2>2, <2>3
    <2>4. CASE len = 2
        <3>1. Sum(1 + 1) = f[1] /\ Sum(2 + 1) = Sum(1 + 1) + f[2]
            BY <1>1, <2>1, <2>4
        <3>2. QED
            BY <2>2, <2>4, <3>1
    <2>5. QED
        BY <2>3, <2>4
<1>2. SumSeq(<<a>>) = a
    <2> DEFINE f == <<a>>
    <2>1. DOMAIN f = 1 .. 1 /\ f[1] = a /\ \A n \in 1 .. 1 : f[n] \in Nat
        OBVIOUS
    <2> HIDE DEF f
    <2>2. SumSeq(f) = f[1]
        BY <1>1, <2>1
    <2>3. QED
        BY <2>1, <2>2 DEF f
<1>3. SumSeq(<<a, b>>) = a + b
    <2> DEFINE f == <<a, b>>
    <2>1. DOMAIN f = 1 .. 2 /\ f[1] = a /\ f[2] = b /\ \A n \in 1 .. 2 : f[n] \in Nat
        OBVIOUS
    <2> HIDE DEF f
    <2>2. SumSeq(f) = f[1] + f[2]
        BY <1>1, <2>1
    <2>3. QED
        BY <2>1, <2>2 DEF f
<1>4. QED
    BY <1>2, <1>3

\* What the lemmas about schedules say of good terms.
LEMMA TermsFacts ==
    ASSUME NEW t, NEW principal, NEW duration, NEW start \in Nat,
           GoodTerms(t, principal, duration, start)
    PROVE  /\ t.obligation \in Nat \ {0} /\ duration \in Nat \ {0} /\ t.duration = duration
           /\ t.installments \in Items /\ Len(t.installments) = duration
           /\ DOMAIN t.installments = 1 .. duration
           /\ Scheduled(t.installments) = t.obligation /\ PaidUp(t.installments, 0)
           /\ \A n \in 1 .. duration : t.installments[n].due = loanDueDate(start, n)
           /\ t.installments = buildLoanScheduleFromObligation(t.obligation, duration, start)
           /\ t.obligation >= duration
<1>1. /\ principal \in Nat \ {0} /\ duration \in Nat \ {0} /\ t.fee \in Nat /\ t.duration = duration
      /\ t.obligation = principal + t.fee /\ t.obligation >= duration
      /\ t.installments = buildLoanScheduleFromObligation(t.obligation, duration, start)
    BY DEF GoodTerms
<1>2. t.obligation \in Nat \ {0}
    BY <1>1
<1>3. /\ t.installments \in Items /\ Len(t.installments) = duration
      /\ Scheduled(t.installments) = t.obligation /\ PaidUp(t.installments, 0)
      /\ \A n \in 1 .. duration : t.installments[n].due = loanDueDate(start, n)
    BY <1>1, <1>2, BuiltSchedule
<1>4. QED
    BY <1>1, <1>2, <1>3, ItemFacts

LEMMA EqualButTheLast ==
    ASSUME NEW t, NEW principal, NEW duration, NEW start \in Nat,
           GoodTerms(t, principal, duration, start), NEW s,
           s = [n \in DOMAIN t.installments |-> t.installments[n].scheduled]
    PROVE  /\ \A n \in DOMAIN s : s[n] >= 1
           /\ \A n \in 1 .. Len(s) - 1 : s[n] = s[1]
           /\ s[Len(s)] - s[1] \in 0 .. t.duration - 1
<1> DEFINE q == t.obligation \div duration
           r == t.obligation % duration
<1>1. /\ t.obligation \in Nat \ {0} /\ duration \in Nat \ {0} /\ t.duration = duration
      /\ DOMAIN t.installments = 1 .. duration /\ t.obligation >= duration
      /\ t.installments = buildLoanScheduleFromObligation(t.obligation, duration, start)
    BY TermsFacts
<1>2. q \in Nat \ {0} /\ r \in 0 .. duration - 1
    BY <1>1, Division
<1>3. \A n \in 1 .. duration : s[n] = q + (IF n = duration THEN r ELSE 0)
    BY <1>1 DEF buildLoanScheduleFromObligation
<1>4. s = [n \in 1 .. duration |-> s[n]]
    BY <1>1
<1> HIDE DEF q, r
<1>5. \A n \in 1 .. duration : s[n] \in Nat
    BY <1>2, <1>3
<1>6. Len(s) = duration /\ DOMAIN s = 1 .. duration
    <2>1. s \in [1 .. duration -> Nat]
        BY <1>4, <1>5
    <2>2. QED
        BY <1>1, <2>1, FunctionIsSequence
<1>7. /\ s[duration] = q + r
      /\ s[1] = q + (IF duration = 1 THEN r ELSE 0)
      /\ \A n \in 1 .. duration - 1 : s[n] = q
      /\ duration > 1 => s[1] = q
      /\ duration = 1 => r = 0
    BY <1>1, <1>2, <1>3
<1>8. ASSUME NEW n \in 1 .. duration - 1 PROVE s[n] = s[1]
    <2>1. duration > 1
        BY <1>1
    <2>2. s[1] = q /\ s[n] = q
        BY <1>7, <2>1
    <2>3. QED
        BY <2>2
<1>9. s[duration] - s[1] \in 0 .. duration - 1
    BY <1>1, <1>2, <1>7
<1>10. \A n \in 1 .. duration : s[n] >= 1
    BY <1>2, <1>3
<1>11. QED
    BY <1>1, <1>6, <1>8, <1>9, <1>10

LEMMA MonthByMonth ==
    ASSUME NEW t, NEW principal, NEW duration, NEW start \in Nat,
           GoodTerms(t, principal, duration, start), NEW items, items = t.installments
    PROVE  /\ items[1].due >= start + 100 /\ items[1].due < start + 200
           /\ \A n \in 1 .. Len(items) - 1 : MonthOf(items[n + 1].due) = MonthOf(items[n].due) + 1
<1>1. /\ duration \in Nat \ {0} /\ Len(items) = duration
      /\ \A n \in 1 .. duration : items[n].due = loanDueDate(start, n)
    BY TermsFacts
<1>2. items[1].due >= start + 100 /\ items[1].due < start + 200
    <2> DEFINE month == start \div 100
               day   == start % 100
    <2>1. month \in Nat /\ day \in 0 .. 99 /\ start = 100 * month + day
        OBVIOUS
    <2>2. loanDueDate(start, 1) = 100 * (month + (IF day > 20 THEN 2 ELSE 1) + 1 - 1) + 20
        BY DEF loanDueDate, Date, MonthOf, DayOf
    <2>3. items[1].due = loanDueDate(start, 1)
        BY <1>1
    <2> HIDE DEF month, day
    <2>4. QED
        BY <2>1, <2>2, <2>3
<1>3. ASSUME NEW n \in 1 .. Len(items) - 1
      PROVE  MonthOf(items[n + 1].due) = MonthOf(items[n].due) + 1
    <2>1. n \in 1 .. duration /\ n + 1 \in 1 .. duration /\ n \in Nat \ {0}
        BY <1>1
    <2>2. PICK k \in Nat : loanDueDate(start, n) = 100 * k + 20
        <3>1. loanDueDate(start, n) \in Nat /\ loanDueDate(start, n) % 100 = 20
            BY <2>1, DueDates DEF Twentieth, DayOf
        <3> DEFINE date == loanDueDate(start, n)
        <3> HIDE DEF date
        <3>2. date \in Nat /\ date % 100 = 20
            BY <3>1 DEF date
        <3>3. date \div 100 \in Nat /\ date = 100 * (date \div 100) + (date % 100)
            BY <3>2, Division
        <3>4. QED
            BY <3>2, <3>3 DEF date
    <2>3. loanDueDate(start, n + 1) = 100 * (k + 1) + 20
        <3>1. loanDueDate(start, n + 1) = loanDueDate(start, n) + 100
            BY <2>1, DueDates
        <3>2. QED
            BY <2>2, <3>1
    <2>4. /\ items[n].due = loanDueDate(start, n) /\ items[n + 1].due = loanDueDate(start, n + 1)
        BY <1>1, <2>1
    <2>5. QED
        BY <2>2, <2>3, <2>4 DEF MonthOf
<1>4. QED
    BY <1>2, <1>3

LEMMA InTwoParts ==
    ASSUME NEW items \in Items, NEW total \in Nat, Scheduled(items) = total,
           NEW part \in 1 .. total, NEW rest, rest = total - part,
           NEW first, first = allocateRepaymentsOldestFirst(items, <<part>>)
    PROVE  /\ PaidSum(first) = part
           /\ \A n \in 2 .. Len(first) : first[n].paid > 0 => Unpaid(first[n - 1]) = 0
           /\ UnpaidSum(PayOldestFirst(first, rest)) = 0
           /\ PayOldestFirst(first, rest) = allocateRepaymentsOldestFirst(items, <<rest, part>>)
<1>1. part \in Nat /\ rest \in Nat /\ part + rest = total /\ rest + part = total
    OBVIOUS
<1>2. first = Spread(items, part)
    <2>1. <<part>> \in Seq(Nat) /\ SumSeq(<<part>>) = part
        BY <1>1, OneAndTwo
    <2>2. QED
        BY <2>1, ReplaySpreads
<1>3. allocateRepaymentsOldestFirst(items, <<rest, part>>) = Spread(items, total)
    <2>1. <<rest, part>> \in Seq(Nat) /\ SumSeq(<<rest, part>>) = total
        BY <1>1, OneAndTwo
    <2>2. QED
        BY <2>1, ReplaySpreads
<1>4. PayOldestFirst(first, rest) = Spread(items, total)
    BY <1>1, <1>2, PaymentOnSpread
<1>5. ASSUME NEW amount \in 0 .. total
      PROVE  /\ Spread(items, amount) \in Items /\ PaidUp(Spread(items, amount), amount)
             /\ Scheduled(Spread(items, amount)) = total
             /\ PaidSum(Spread(items, amount)) = amount
    <2> DEFINE spread == Spread(items, amount)
    <2>1. spread \in Items /\ SameSchedule(spread, items) /\ PaidUp(spread, amount)
        BY SpreadIsPaid
    <2> HIDE DEF spread
    <2>2. Scheduled(spread) = total
        BY <2>1, SameBefore
    <2>3. PaidSum(spread) = Share(amount, total)
        BY <2>1, <2>2, PaidTotal
    <2>4. Share(amount, total) = amount
        BY DEF Share
    <2>5. QED
        BY <2>1, <2>2, <2>3, <2>4 DEF spread
<1>6. first \in Items /\ PaidUp(first, part) /\ PaidSum(first) = part
    BY <1>1, <1>2, <1>5
<1>7. UnpaidSum(PayOldestFirst(first, rest)) = 0
    <2>1. total \in 0 .. total
        OBVIOUS
    <2>2. Scheduled(Spread(items, total)) = total /\ PaidSum(Spread(items, total)) = total
        BY <1>5, <2>1
    <2>3. UnpaidSum(Spread(items, total)) = 0
        BY <2>2 DEF UnpaidSum
    <2>4. QED
        BY <1>4, <2>3
<1>8. \A n \in 2 .. Len(first) : first[n].paid > 0 => Unpaid(first[n - 1]) = 0
    <2>1. \A n \in DOMAIN first : n > 1 /\ first[n].paid > 0 => Unpaid(first[n - 1]) = 0
        BY <1>1, <1>6, PaidOldestFirst
    <2>2. Len(first) \in Nat /\ DOMAIN first = 1 .. Len(first)
        BY <1>6, ItemFacts
    <2>3. QED
        BY <2>1, <2>2
<1>9. QED
    BY <1>3, <1>4, <1>6, <1>7, <1>8

\* The last calculation is one of a type of loan.
QuoteFound ==
    \/ quote = NoQuote
    \/ \E type, t, principal, duration, start, extra :
          /\ Calculated(type, t, principal, duration, start, extra)
          /\ quote = [type |-> type, rate |-> extra, start |-> start, terms |-> t]

LEMMA FoundIsExact == QuoteFound => TermsAreExact
<1>1. CASE quote = NoQuote
    BY <1>1 DEF TermsAreExact, FeesAreExact, InstalmentsAddUp, DueMonthly, SnapshotsValidate,
                PaidInOrder, Quoted, NoQuote
<1>2. ASSUME NEW type, NEW t, NEW principal, NEW duration, NEW start, NEW extra,
             Calculated(type, t, principal, duration, start, extra),
             quote = [type |-> type, rate |-> extra, start |-> start, terms |-> t]
      PROVE  TermsAreExact
    <2>1. quote.type = type /\ quote.rate = extra /\ quote.start = start /\ quote.terms = t
        BY <1>2
    <2>2. FineTerms(type, t, principal, duration, start, extra) /\ start \in Nat
        BY <1>2, CalculatedIsFine DEF Calculated
    <2>3. GoodTerms(t, principal, duration, start)
        BY <2>2 DEF FineTerms
    <2>4. FeesAreExact
        <3>1. /\ t.principal = principal /\ t.duration = duration /\ t.fee \in Nat
              /\ t.obligation = principal + t.fee
            BY <2>3 DEF GoodTerms
        <3>2. /\ Rounded(IF type = "regular" THEN t.monthlyFee ELSE t.fee,
                         ExactFee(type, principal, extra, duration))
              /\ type = "regular" => t.fee = t.monthlyFee * duration
            BY <2>2 DEF FineTerms
        <3> DEFINE per   == IF type = "regular" THEN t.monthlyFee ELSE t.fee
                   exact == ExactFee(type, principal, extra, duration)
        <3>3. per \in Nat /\ per >= 0 /\ 2 * Abs(per * 10000 - exact) <= 10000
            BY <3>2 DEF Rounded
        <3>4. t.fee = IF type = "regular" THEN per * duration ELSE per
            BY <3>2
        <3> HIDE DEF exact
        <3>5. QED
            BY <2>1, <3>1, <3>3, <3>4 DEF FeesAreExact, exact
    <2>5. InstalmentsAddUp
        <3> DEFINE s == [n \in DOMAIN t.installments |-> t.installments[n].scheduled]
        <3>1. Scheduled(t.installments) = t.obligation
            BY <2>2, <2>3, TermsFacts
        <3>2. /\ \A n \in DOMAIN s : s[n] >= 1
              /\ \A n \in 1 .. Len(s) - 1 : s[n] = s[1]
              /\ s[Len(s)] - s[1] \in 0 .. t.duration - 1
            BY <2>2, <2>3, EqualButTheLast
        <3> HIDE DEF s
        <3>3. QED
            BY <2>1, <3>1, <3>2 DEF InstalmentsAddUp, s
    <2>6. DueMonthly
        <3> DEFINE items == t.installments
        <3>1. /\ items[1].due >= start + 100 /\ items[1].due < start + 200
              /\ \A n \in 1 .. Len(items) - 1 : MonthOf(items[n + 1].due) = MonthOf(items[n].due) + 1
            BY <2>2, <2>3, MonthByMonth
        <3>2. quote.terms.installments = items /\ quote.start = start
            BY <2>1
        <3> HIDE DEF items
        <3>3. QED
            BY <3>1, <3>2 DEF DueMonthly
    <2>7. SnapshotsValidate
        BY <2>1, <2>2 DEF FineTerms, SnapshotOf, SnapshotsValidate
    <2>8. PaidInOrder
        <3>1. /\ t.installments \in Items /\ t.obligation \in Nat \ {0}
              /\ Scheduled(t.installments) = t.obligation
            BY <2>2, <2>3, TermsFacts
        <3>2. {1, t.obligation \div 2, t.obligation - 1} \ {0} \subseteq 1 .. t.obligation
            BY <3>1
        <3>3. QED
            BY <2>1, <3>1, <3>2, InTwoParts DEF PaidInOrder
    <2>9. QED
        BY <2>4, <2>5, <2>6, <2>7, <2>8 DEF TermsAreExact
<1>3. QED
    BY <1>1, <1>2 DEF QuoteFound

(***************************************************************************)
(* Whatever the amount, the number of months, the day and the width of     *)
(* integers: what loan_schedule.go calculates and does not refuse is a fee *)
(* rounded to the nearest rupiah, instalments that add up to the debt, due *)
(* month by month, terms the disbursement accepts again, and two payments  *)
(* in whatever parts settle it.                                            *)
(***************************************************************************)
THEOREM TermsAreExactHolds == QuotesSpec => []TermsAreExact
<1>1. QuotesInit => QuoteFound
    BY DEF QuotesInit, QuoteFound
<1>2. ASSUME NEW type, NEW extras, type \in LoanTypes \cup {"legacy"}, extras \subseteq Nat,
             Quote(type, extras)
      PROVE  QuoteFound'
    <2>1. PICK principal \in Principals, duration \in Durations, start \in Starts, extra \in extras :
            LET t == Quotable(type, principal, duration, start, extra) IN
            ~Refused(t) /\ quote' = [type |-> type, rate |-> extra, start |-> start, terms |-> t]
        BY <1>2 DEF Quote
    <2>2. principal \in Nat /\ duration \in Nat /\ start \in Nat /\ extra \in Nat
        BY <1>2, LoanQuotesAssumption
    <2> DEFINE t == Quotable(type, principal, duration, start, extra)
    <2>3. Calculated(type, t, principal, duration, start, extra)
        BY <1>2, <2>1, <2>2 DEF Calculated
    <2>4. quote' = [type |-> type, rate |-> extra, start |-> start, terms |-> t]
        BY <2>1
    <2> HIDE DEF t
    <2>5. QED
        BY <2>3, <2>4 DEF QuoteFound
<1>3. QuoteFound /\ [QuotesNext]_quote => QuoteFound'
    <2>1. ASSUME QuotesNext PROVE QuoteFound'
        <3>1. {0} \subseteq Nat /\ VoucherFees \subseteq Nat /\ Rates \subseteq Nat
            BY LoanQuotesAssumption
        <3>2. QED
            BY <1>2, <2>1, <3>1 DEF QuotesNext, LoanTypes
    <2>2. CASE UNCHANGED quote
        BY <2>2 DEF QuoteFound
    <2>3. QED
        BY <2>1, <2>2
<1>4. QED
    BY <1>1, <1>3, FoundIsExact, PTL DEF QuotesSpec

-----------------------------------------------------------------------------
(***************************************************************************)
(* Requests, decisions and payoffs.                                        *)
(***************************************************************************)
-----------------------------------------------------------------------------
(***************************************************************************)
(* Terms: what is calculated and not refused is a proposal.                *)
(***************************************************************************)
\* Terms with a fee that fits are a proposal of the principal that was asked for.
AreTerms(terms, principal) ==
    /\ Proposal(terms) \in Proposals \ {NoProposal}
    /\ Proposal(terms).principal = principal
    /\ terms.principal = principal

LEMMA TermsPropose ==
    ASSUME NEW principal \in Nat \ {0}, NEW duration \in Nat, NEW monthly \in Nat \cup {NoFee},
           NEW fee \in Nat, Payable64(principal, fee), NEW start
    PROVE  AreTerms(Terms(principal, monthly, fee, duration, start), principal)
<1>1. MaxInt64 \in Nat
    BY LoanScheduleAssumption
<1>2. Int64(principal + fee) = principal + fee
    BY <1>1, Int64Exact DEF Payable64
<1> DEFINE terms == Terms(principal, monthly, fee, duration, start)
<1>3. /\ terms.principal = principal /\ terms.duration = duration
      /\ terms.monthlyFee = monthly /\ terms.fee = fee /\ terms.obligation = principal + fee
    BY <1>2 DEF Terms
<1> HIDE DEF terms
<1>4. Proposal(terms) = [principal |-> principal, duration |-> duration, monthlyFee |-> monthly,
                         fee |-> fee, obligation |-> principal + fee]
    BY <1>3 DEF Proposal, NoProposal
<1>5. QED
    BY <1>3, <1>4 DEF AreTerms, terms, Proposals, NoProposal

LEMMA LoanTermsPropose ==
    ASSUME NEW row, row.type \in LoanTypes, row.requestedFee \in Nat \cup {NoFee},
           NEW amount \in Nat, NEW duration \in Nat, ~Refused(LoanTerms(row, amount, duration))
    PROVE  AreTerms(LoanTerms(row, amount, duration), amount)
<1>1. Refused(NoTerms)
    BY DEF Refused, NoTerms
<1>2. MaxInt64 \in Nat
    BY LoanScheduleAssumption
<1>3. CASE row.type = "regular"
    <2> DEFINE monthly == calculateRegularLoanMonthlyAdminFeeV1(amount)
               fee     == Int64(monthly * duration)
    <2>1. LoanTerms(row, amount, duration) = calculateRegularLoanSchedule(amount, duration, Today)
        BY <1>3 DEF LoanTerms
    <2>2. /\ amount > 0 /\ duration \in 1 .. maxLoanDurationForType("regular")
          /\ monthly # NoFee /\ monthly <= MaxInt64 \div duration /\ Payable64(amount, fee)
          /\ LoanTerms(row, amount, duration) = Terms(amount, monthly, fee, duration, Today)
        BY <1>1, <2>1 DEF calculateRegularLoanSchedule
    <2>3. monthly \in Nat
        BY <2>2, MonthlyFee
    <2>4. duration \in Nat \ {0}
        BY <2>2 DEF maxLoanDurationForType
    <2> HIDE DEF monthly
    <2>5. monthly * duration <= MaxInt64 /\ monthly * duration \in Nat
        BY <1>2, <2>2, <2>3, <2>4, QuotientBound
    <2>6. fee \in Nat
        BY <1>2, <2>5, Int64Exact
    <2> HIDE DEF fee
    <2>7. QED
        BY <2>2, <2>3, <2>6, TermsPropose
<1>4. CASE row.type = "secondary_goods"
    <2> DEFINE fee == calculatePercentAdminFee(amount, 20)
    <2>1. LoanTerms(row, amount, duration)
              = calculateSecondaryGoodsLoanSchedule(amount, duration, Today)
        BY <1>4 DEF LoanTerms
    <2>2. /\ amount > 0 /\ Payable64(amount, fee)
          /\ LoanTerms(row, amount, duration) = Terms(amount, NoFee, fee, duration, Today)
        BY <1>1, <2>1 DEF calculateSecondaryGoodsLoanSchedule
    <2>3. fee \in Nat
        BY <2>2, PercentFee DEF Payable64
    <2> HIDE DEF fee
    <2>4. QED
        BY <2>2, <2>3, TermsPropose DEF NoFee
<1>5. CASE row.type = "goods_purchase_paylater"
    <2> DEFINE fee == calculatePercentAdminFee(amount, 5)
    <2>1. LoanTerms(row, amount, duration) = calculatePaylaterLoanSchedule(amount, duration, Today)
        BY <1>5 DEF LoanTerms
    <2>2. /\ amount > 0 /\ Payable64(amount, fee)
          /\ LoanTerms(row, amount, duration) = Terms(amount, NoFee, fee, duration, Today)
        BY <1>1, <2>1 DEF calculatePaylaterLoanSchedule
    <2>3. fee \in Nat
        BY <2>2, PercentFee DEF Payable64
    <2> HIDE DEF fee
    <2>4. QED
        BY <2>2, <2>3, TermsPropose DEF NoFee
<1>6. CASE row.type = "voucher"
    <2>1. LoanTerms(row, amount, duration)
              = calculateVoucherLoanSchedule(amount, row.requestedFee, duration, Today)
        BY <1>6 DEF LoanTerms
    <2>2. /\ amount > 0 /\ row.requestedFee >= 0 /\ Payable64(amount, row.requestedFee)
          /\ LoanTerms(row, amount, duration)
                 = Terms(amount, NoFee, row.requestedFee, duration, Today)
        BY <1>1, <2>1 DEF calculateVoucherLoanSchedule
    <2>3. row.requestedFee \in Nat
        BY <2>2 DEF NoFee
    <2>4. QED
        BY <2>2, <2>3, TermsPropose DEF NoFee
<1>7. QED
    BY <1>3, <1>4, <1>5, <1>6 DEF LoanTypes
-----------------------------------------------------------------------------
(***************************************************************************)
(* The rows of loan_requests.  Nothing here depends on loan_payoff_amount, *)
(* a sum over loans, so that it is left untyped.                           *)
(***************************************************************************)
RowsWithPayoff(p) ==
    [status : {"none", "pending", "approved", "rejected", "cancelled"},
     stage : Stages \cup {NoStage}, member : Members \cup {Nobody},
     source : {"member", "admin"}, imported : BOOLEAN,
     type : LoanTypes, requested : Nat, duration : Nat, requestedFee : Nat \cup {NoFee},
     proposed : Proposals, settle : BOOLEAN, payoff : {p}, reviewed : BOOLEAN,
     disbursed : Nat, loan : LoanIds \cup {NoLoanId}]

\* A well formed row.  The manager fixes the terms, the officers after the
\* manager decide on terms that are fixed, and nothing is paid out unapproved.
RequestOK(row) ==
    /\ row \in RowsWithPayoff(row.payoff)
    /\ row.status = "pending" =>
          row.stage \in Stages /\ (row.stage = "manager" <=> row.proposed = NoProposal)
    /\ row.disbursed # EmptyDate => row.status = "approved"
    /\ row.status = "none" => row.proposed = NoProposal

\* What is asked for stays what was asked for.
SameRequest(new, old) ==
    /\ new.member = old.member /\ new.source = old.source /\ new.imported = old.imported
    /\ new.type = old.type /\ new.requested = old.requested

\* A request on its way: terms once, an approval, one loan; or the end.
Moves(old, new) ==
    /\ SameRequest(new, old)
    /\ \/ /\ PhaseOf(old) = "asked" /\ PhaseOf(new) \in {"agreed", "approved"}
          /\ new.proposed \in Proposals \ {NoProposal}
       \/ /\ PhaseOf(old) = "agreed" /\ PhaseOf(new) \in {"agreed", "approved"}
          /\ new.proposed = old.proposed
       \/ /\ PhaseOf(old) = "approved" /\ PhaseOf(new) = "lent"
          /\ new.proposed = old.proposed
       \/ /\ PhaseOf(old) \in {"asked", "agreed", "approved"} /\ PhaseOf(new) = "closed"
          /\ new.proposed = old.proposed

LEMMA NoProposalType == NoProposal \in Proposals
BY DEF NoProposal, Proposals, NoFee

LEMMA PhaseFacts ==
    ASSUME NEW row
    PROVE  /\ row.status = "pending" /\ row.proposed = NoProposal => PhaseOf(row) = "asked"
           /\ row.status = "pending" /\ row.proposed # NoProposal => PhaseOf(row) = "agreed"
           /\ row.status = "approved" /\ row.disbursed = EmptyDate => PhaseOf(row) = "approved"
           /\ row.status = "approved" /\ row.disbursed # EmptyDate => PhaseOf(row) = "lent"
           /\ row.status \in {"rejected", "cancelled"} => PhaseOf(row) = "closed"
           /\ row.status = "none" => PhaseOf(row) = "none"
BY DEF PhaseOf

LEMMA NewRow ==
    ASSUME NEW m \in Members, NEW source \in {"member", "admin"}, NEW input \in LoanInput,
           NEW row, row = NewLoanRequest(m, source, input)
    PROVE  /\ RequestOK(row) /\ row.status = "pending" /\ row.proposed = NoProposal
           /\ row.member = m /\ row.source = source /\ row.type = input.type
           /\ row.requested = input.amount /\ ~row.imported
BY LoanRequestsAssumption, NoProposalType
   DEF NewLoanRequest, RequestOK, RowsWithPayoff, LoanInput, Stages, EmptyDate

LEMMA ApprovedRow ==
    ASSUME NEW row, RequestOK(row)
    PROVE  LET new == LoanApproved(row) IN
           /\ RequestOK(new) /\ SameRequest(new, row) /\ new.status = "approved"
           /\ new.proposed = row.proposed /\ new.disbursed = row.disbursed /\ new.loan = row.loan
BY DEF LoanApproved, RequestOK, RowsWithPayoff, SameRequest, NoStage

LEMMA ClosedRow ==
    ASSUME NEW row, RequestOK(row), row.status = "pending",
           NEW status \in {"rejected", "cancelled"}
    PROVE  LET new == LoanClosed(row, status) IN
           /\ RequestOK(new) /\ SameRequest(new, row) /\ new.status = status
           /\ new.proposed = row.proposed /\ new.disbursed = row.disbursed /\ new.loan = row.loan
BY ZenonT(60) DEF LoanClosed, RequestOK, RowsWithPayoff, SameRequest, NoStage

LEMMA ForwardedRow ==
    ASSUME NEW row, RequestOK(row), row.status = "pending", row.stage # "manager",
           NEW stage \in Stages \ {"manager"}
    PROVE  LET new == [row EXCEPT !.stage = stage] IN
           /\ RequestOK(new) /\ SameRequest(new, row) /\ new.status = "pending"
           /\ new.proposed = row.proposed
BY DEF RequestOK, RowsWithPayoff, SameRequest

LEMMA ProposedRow ==
    ASSUME NEW row, RequestOK(row), row.status = "pending", row.stage = "manager",
           NEW stage \in Stages \ {"manager"}, NEW terms, NEW settle \in BOOLEAN,
           Proposal(terms) \in Proposals \ {NoProposal}
    PROVE  LET new == [Proposed(row, terms, settle) EXCEPT !.stage = stage] IN
           /\ RequestOK(new) /\ SameRequest(new, row) /\ new.status = "pending"
           /\ new.proposed = Proposal(terms)
<1> DEFINE settles == settle /\ row.type = "regular"
           payoff  == IF settles THEN PayoffOf(OutstandingRegular(row.member)) ELSE 0
           deal    == Proposal(terms)
           new     == [Proposed(row, terms, settle) EXCEPT !.stage = stage]
<1>1. new = [[row EXCEPT !.proposed = deal, !.settle = settles, !.payoff = payoff]
                 EXCEPT !.stage = stage]
    BY DEF Proposed
<1>2. settles \in BOOLEAN
    OBVIOUS
<1> HIDE DEF settles, payoff, deal
<1>3. /\ new \in RowsWithPayoff(new.payoff)
      /\ new.status = row.status /\ new.stage = stage /\ new.proposed = deal
      /\ new.disbursed = row.disbursed /\ SameRequest(new, row)
    BY <1>1, <1>2, ZenonT(60) DEF RequestOK, RowsWithPayoff, SameRequest, deal
<1> HIDE DEF new
<1>4. QED
    BY <1>3 DEF RequestOK, new, deal

LEMMA DealtRow ==
    ASSUME NEW row, RequestOK(row), NEW deal \in Proposals \ {NoProposal}
    PROVE  LET new == LoanApproved([row EXCEPT !.proposed = deal]) IN
           /\ RequestOK(new) /\ SameRequest(new, row) /\ new.status = "approved"
           /\ new.proposed = deal /\ new.disbursed = row.disbursed /\ new.loan = row.loan
BY DEF LoanApproved, RequestOK, RowsWithPayoff, SameRequest, NoStage

\* A row that is paid out.
PaidOut(row, date, payoff, l) == [row EXCEPT !.disbursed = date, !.payoff = payoff, !.loan = l]

LEMMA LentRow ==
    ASSUME NEW row, RequestOK(row), row.status = "approved",
           NEW date \in Nat, NEW payoff, NEW l \in LoanIds,
           NEW new, new = PaidOut(row, date, payoff, l)
    PROVE  /\ RequestOK(new) /\ SameRequest(new, row) /\ new.status = "approved"
           /\ new.proposed = row.proposed /\ new.disbursed = date /\ new.loan = l
BY DEF PaidOut, RequestOK, RowsWithPayoff, SameRequest

-----------------------------------------------------------------------------
(***************************************************************************)
(* Each handler of a request asks anew or moves the request on its way.    *)
(***************************************************************************)
RequestsTyped ==
    /\ loanRequests = [q \in LoanRequestIds |-> loanRequests[q]]
    /\ \A q \in LoanRequestIds : RequestOK(loanRequests[q])

\* Only request q changes, as Moves says.
MovesOnly(q) ==
    /\ loanRequests' = [r \in LoanRequestIds |-> loanRequests'[r]]
    /\ \A other \in LoanRequestIds \ {q} : loanRequests'[other] = loanRequests[other]
    /\ RequestOK(loanRequests'[q]) /\ Moves(loanRequests[q], loanRequests'[q])

\* Request q is asked for m, who has nothing in flight.
AsksFor(q, m) ==
    /\ loanRequests[q].status = "none" /\ ~HasRequestInFlight(m)
    /\ loanRequests' = [r \in LoanRequestIds |-> loanRequests'[r]]
    /\ \A other \in LoanRequestIds \ {q} : loanRequests'[other] = loanRequests[other]
    /\ RequestOK(loanRequests'[q])
    /\ loanRequests'[q].member = m /\ loanRequests'[q].status = "pending"
    /\ loanRequests'[q].proposed = NoProposal

LEMMA StoredRow ==
    ASSUME RequestsTyped, NEW q \in LoanRequestIds, NEW row, Stored(q, row)
    PROVE  /\ loanRequests'[q] = row
           /\ \A other \in LoanRequestIds \ {q} : loanRequests'[other] = loanRequests[other]
           /\ loanRequests' = [r \in LoanRequestIds |-> loanRequests'[r]]
BY DEF RequestsTyped, Stored

LEMMA Asking ==
    ASSUME RequestsTyped, NEW q \in LoanRequestIds, NEW m \in Members, NEW input \in LoanInputs,
           insertLoanRequest(q, m, input) \/ createAdminLoanRequestFor(q, m, input)
    PROVE  AsksFor(q, m)
<1>1. PICK source \in {"member", "admin"} : Stored(q, NewLoanRequest(m, source, input))
    BY DEF insertLoanRequest, createAdminLoanRequestFor
<1>2. MayAsk(q, m)
    BY DEF insertLoanRequest, createAdminLoanRequestFor
<1>3. input \in LoanInput
    BY LoanRequestsAssumption
<1> DEFINE row == NewLoanRequest(m, source, input)
<1>4. /\ RequestOK(row) /\ row.status = "pending" /\ row.proposed = NoProposal
      /\ row.member = m
    <2> HIDE DEF row
    <2>1. row = NewLoanRequest(m, source, input)
        BY DEF row
    <2>2. QED
        BY <1>3, <2>1, NewRow
<1> HIDE DEF row
<1>5. QED
    BY <1>1, <1>2, <1>4, StoredRow DEF AsksFor, MayAsk, row

LEMMA LoanStages ==
    /\ NoStage \notin Stages
    /\ \A amount : nextLoanApprovalStageForAmount("manager", amount) = "ketua_ii"
    /\ \A stage \in Stages : \A amount :
          nextLoanApprovalStageForAmount(stage, amount) \in (Stages \ {"manager"}) \cup {NoStage}
BY DEF NoStage, Stages, nextLoanApprovalStageForAmount, nextLoanApprovalStage

LEMMA ManagerMoves ==
    ASSUME RequestsTyped, NEW q \in LoanRequestIds, NEW offer \in Offers, NEW settle \in BOOLEAN,
           LoanWaitsFor(q, "manager"), approveByManager(q, offer, settle)
    PROVE  MovesOnly(q)
<1> DEFINE row   == loanRequests[q]
           terms == LoanTerms(row, offer.amount, offer.duration)
           new   == [Proposed(row, terms, settle) EXCEPT !.stage = "ketua_ii"]
<1>1. /\ RequestOK(row) /\ row.status = "pending" /\ row.stage = "manager"
      /\ ~Refused(terms) /\ Stored(q, new)
    BY LoanStages DEF RequestsTyped, LoanWaitsFor, approveByManager
<1>2. offer.amount \in Nat /\ offer.duration \in Nat
    BY LoanRequestsAssumption
<1>3. row.type \in LoanTypes /\ row.requestedFee \in Nat \cup {NoFee}
    BY <1>1 DEF RequestOK, RowsWithPayoff
<1>4. Proposal(terms) \in Proposals \ {NoProposal}
    BY <1>1, <1>2, <1>3, LoanTermsPropose DEF AreTerms
<1> HIDE DEF terms
<1>5. /\ RequestOK(new) /\ SameRequest(new, row) /\ new.status = "pending"
      /\ new.proposed = Proposal(terms)
    BY <1>1, <1>4, ProposedRow DEF Stages
<1>6. PhaseOf(row) = "asked"
    BY <1>1, PhaseFacts DEF RequestOK
<1> HIDE DEF new
<1>7. PhaseOf(new) = "agreed"
    BY <1>4, <1>5, PhaseFacts
<1>8. QED
    BY <1>1, <1>4, <1>5, <1>6, <1>7, StoredRow DEF MovesOnly, Moves

LEMMA OfficersMove ==
    ASSUME RequestsTyped, NEW q \in LoanRequestIds, NEW stage, stage # "manager",
           LoanWaitsFor(q, stage), approveAfterManager(q, stage)
    PROVE  MovesOnly(q)
<1> DEFINE row  == loanRequests[q]
           next == nextLoanApprovalStageForAmount(stage, row.proposed.principal)
<1>1. /\ RequestOK(row) /\ row.status = "pending" /\ row.stage = stage /\ stage \in Stages
    BY DEF RequestsTyped, LoanWaitsFor, MayDecide
<1>2. row.proposed # NoProposal /\ PhaseOf(row) = "agreed"
    BY <1>1, PhaseFacts DEF RequestOK
<1>3. CASE next # NoStage
    <2> DEFINE new == [row EXCEPT !.stage = next]
    <2>1. Stored(q, new)
        BY <1>3 DEF approveAfterManager
    <2>2. next \in Stages \ {"manager"}
        BY <1>1, <1>3, LoanStages
    <2> HIDE DEF next
    <2>3. /\ RequestOK(new) /\ SameRequest(new, row) /\ new.status = "pending"
          /\ new.proposed = row.proposed
        BY <1>1, <2>2, ForwardedRow
    <2> HIDE DEF new
    <2>4. PhaseOf(new) = "agreed"
        BY <1>2, <2>3, PhaseFacts
    <2>5. QED
        BY <1>2, <2>1, <2>3, <2>4, StoredRow DEF MovesOnly, Moves
<1>4. CASE next = NoStage
    <2> DEFINE new == LoanApproved(row)
    <2>1. Stored(q, new)
        BY <1>4 DEF approveAfterManager
    <2>2. /\ RequestOK(new) /\ SameRequest(new, row) /\ new.status = "approved"
          /\ new.proposed = row.proposed /\ new.disbursed = row.disbursed
        BY <1>1, ApprovedRow
    <2> HIDE DEF new
    <2>3. new.disbursed = EmptyDate /\ PhaseOf(new) = "approved"
        BY <1>1, <2>2, PhaseFacts DEF RequestOK
    <2>4. QED
        BY <1>2, <2>1, <2>2, <2>3, StoredRow DEF MovesOnly, Moves
<1>5. QED
    BY <1>3, <1>4

\* The terms of a proposal are the proposal again.
LEMMA ProposalOfTerms ==
    ASSUME NEW p \in Proposals, NEW start
    PROVE  Proposal(TermsFrom(p, start)) = p /\ TermsFrom(p, start).principal = p.principal
<1> DEFINE terms == TermsFrom(p, start)
<1>1. /\ terms.principal = p.principal /\ terms.duration = p.duration
      /\ terms.monthlyFee = p.monthlyFee /\ terms.fee = p.fee /\ terms.obligation = p.obligation
    BY DEF TermsFrom
<1> HIDE DEF terms
<1>2. Proposal(terms) = p
    BY <1>1 DEF Proposal, NoProposal, Proposals
<1>3. QED
    BY <1>1, <1>2 DEF terms

LEMMA OverrideMoves ==
    ASSUME RequestsTyped, NEW q \in LoanRequestIds, NEW offer \in Offers,
           overrideLoanRequestByID(q, offer)
    PROVE  MovesOnly(q)
<1> DEFINE row   == loanRequests[q]
           terms == OverrideTerms(row, offer)
           new   == LoanApproved([row EXCEPT !.proposed = Proposal(terms)])
<1>1. /\ RequestOK(row) /\ row.status = "pending" /\ row.disbursed = EmptyDate
      /\ ~Refused(terms) /\ Stored(q, new)
    BY DEF RequestsTyped, RequestOK, overrideLoanRequestByID, LoanOverridden
<1>2. row \in RowsWithPayoff(row.payoff)
    BY <1>1 DEF RequestOK
<1>3. offer.amount \in Nat /\ offer.duration \in Nat
    BY LoanRequestsAssumption
<1>4. /\ Proposal(terms) \in Proposals \ {NoProposal}
      /\ row.proposed # NoProposal => Proposal(terms) = row.proposed
    <2>1. CASE row.proposed = NoProposal
        <3> DEFINE amount   == IF offer.amount > 0 THEN offer.amount ELSE row.requested
                   duration == IF offer.duration > 0 THEN offer.duration ELSE row.duration
        <3>1. terms = LoanTerms(row, amount, duration)
            BY <2>1 DEF OverrideTerms
        <3>2. /\ row.type \in LoanTypes /\ row.requestedFee \in Nat \cup {NoFee}
              /\ amount \in Nat /\ duration \in Nat
            BY <1>2, <1>3 DEF RowsWithPayoff
        <3> HIDE DEF terms, row, amount, duration
        <3>3. AreTerms(terms, amount)
            BY <1>1, <3>1, <3>2, LoanTermsPropose
        <3>4. QED
            BY <2>1, <3>3 DEF AreTerms
    <2>2. CASE row.proposed # NoProposal
        <3>1. terms \in {TermsFrom(row.proposed, Today), NoTerms}
            BY <2>2 DEF OverrideTerms
        <3>2. terms # NoTerms
            BY <1>1 DEF Refused, NoTerms
        <3>3. row.proposed \in Proposals
            BY <1>2 DEF RowsWithPayoff
        <3> HIDE DEF terms, row
        <3>4. QED
            BY <2>2, <3>1, <3>2, <3>3, ProposalOfTerms
    <2>3. QED
        BY <2>1, <2>2
<1> HIDE DEF terms
<1>5. /\ RequestOK(new) /\ SameRequest(new, row) /\ new.status = "approved"
      /\ new.proposed = Proposal(terms) /\ new.disbursed = row.disbursed
    BY <1>1, <1>4, DealtRow
<1>6. PhaseOf(row) = IF row.proposed = NoProposal THEN "asked" ELSE "agreed"
    BY <1>1, PhaseFacts
<1> HIDE DEF new
<1>7. PhaseOf(new) = "approved"
    BY <1>1, <1>5, PhaseFacts
<1>8. QED
    BY <1>1, <1>4, <1>5, <1>6, <1>7, StoredRow DEF MovesOnly, Moves

LEMMA ClosingMoves ==
    ASSUME RequestsTyped, NEW q \in LoanRequestIds, loanRequests[q].status = "pending",
           NEW status \in {"rejected", "cancelled"},
           Stored(q, LoanClosed(loanRequests[q], status))
    PROVE  MovesOnly(q)
<1> DEFINE row == loanRequests[q]
           new == LoanClosed(row, status)
<1>1. RequestOK(row)
    BY DEF RequestsTyped
<1>2. /\ RequestOK(new) /\ SameRequest(new, row) /\ new.status = status
      /\ new.proposed = row.proposed
    BY <1>1, ClosedRow
<1>3. PhaseOf(row) \in {"asked", "agreed"}
    BY PhaseFacts
<1> HIDE DEF new
<1>4. PhaseOf(new) = "closed"
    BY <1>2, PhaseFacts
<1>5. QED
    BY <1>2, <1>3, <1>4, StoredRow DEF MovesOnly, Moves, new

LEMMA DisbursementMoves ==
    ASSUME RequestsTyped, NEW q \in LoanRequestIds, NEW l \in LoanIds,
           NEW date \in DisbursementDates, NEW repaid, disburseLoanRequestByID(q, l, date, repaid)
    PROVE  MovesOnly(q)
<1> DEFINE row == loanRequests[q]
           payoff == PayoffOf(IF row.settle THEN OutstandingRegular(row.member) ELSE {})
           new == [row EXCEPT !.disbursed = date, !.payoff = payoff, !.loan = l]
<1>1. /\ RequestOK(row) /\ row.status = "approved" /\ row.disbursed = EmptyDate
      /\ Stored(q, new)
    BY DEF RequestsTyped, disburseLoanRequestByID
<1>2. date \in Nat /\ date # EmptyDate
    BY LoanRequestsAssumption DEF EmptyDate
<1>3. /\ RequestOK(new) /\ SameRequest(new, row) /\ new.status = "approved"
      /\ new.proposed = row.proposed /\ new.disbursed = date
    <2>1. new = PaidOut(row, date, payoff, l)
        BY DEF PaidOut
    <2>2. RequestOK(row) /\ row.status = "approved" /\ date \in Nat
        BY <1>1, <1>2
    <2> HIDE DEF new, row, payoff
    <2>3. QED
        BY <2>1, <2>2, LentRow
<1>4. PhaseOf(row) = "approved"
    BY <1>1, PhaseFacts
<1> HIDE DEF new
<1>5. PhaseOf(new) = "lent"
    BY <1>2, <1>3, PhaseFacts
<1>6. QED
    BY <1>1, <1>3, <1>4, <1>5, StoredRow DEF MovesOnly, Moves

LEMMA RequestStepMoves ==
    ASSUME RequestsTyped, NEW q \in LoanRequestIds, LoanRequestStep(q) \/ DisbursementStep(q)
    PROVE  (\E m \in Members : AsksFor(q, m)) \/ MovesOnly(q)
<1>1. CASE \E m \in Members, input \in LoanInputs :
               insertLoanRequest(q, m, input) \/ createAdminLoanRequestFor(q, m, input)
    BY <1>1, Asking
<1>2. ASSUME NEW role \in DecidingRoles, NEW offer \in Offers, NEW settle \in BOOLEAN,
             approveLoanRequestByID(q, role, offer, settle)
      PROVE  MovesOnly(q)
    BY <1>2, ManagerMoves, OfficersMove DEF approveLoanRequestByID
<1>3. CASE \/ \E role \in DecidingRoles : rejectLoanRequestByID(q, role)
           \/ \E m \in Members : cancelLoanRequestByID(q, m)
           \/ cancelAdminLoanRequest(q)
           \/ rejectLoanRequestBySuperAdmin(q)
    <2>1. loanRequests[q].status = "pending"
        BY <1>3 DEF rejectLoanRequestByID, cancelLoanRequestByID, cancelAdminLoanRequest,
                    rejectLoanRequestBySuperAdmin, LoanWaitsFor, LoanOverridden
    <2>2. PICK status \in {"rejected", "cancelled"} :
              Stored(q, LoanClosed(loanRequests[q], status))
        BY <1>3 DEF rejectLoanRequestByID, cancelLoanRequestByID, cancelAdminLoanRequest,
                    rejectLoanRequestBySuperAdmin
    <2>3. QED
        BY <2>1, <2>2, ClosingMoves
<1>4. CASE \E offer \in Offers : overrideLoanRequestByID(q, offer)
    BY <1>4, OverrideMoves
<1>5. CASE DisbursementStep(q)
    BY <1>5, DisbursementMoves DEF DisbursementStep
<1>6. QED
    BY <1>1, <1>2, <1>3, <1>4, <1>5 DEF LoanRequestStep

-----------------------------------------------------------------------------
(***************************************************************************)
(* The rows of a workbook: the recursion that drops the blank ones has a   *)
(* solution, by a smallest counterexample, and leaves rows of cells.       *)
(***************************************************************************)
Kept(g, book, n) ==
    IF n = 0 THEN << >>
    ELSE IF book[n] = BlankRow THEN g[n - 1] ELSE Append(g[n - 1], book[n])

LEMMA KeptExists ==
    ASSUME NEW book, NEW len \in Nat
    PROVE  \E g : g = [n \in 0 .. len |-> Kept(g, book, n)]
<1> DEFINE Good(k) == \E g : g = [n \in 0 .. k |-> Kept(g, book, n)]
           Bad == {k \in Nat : ~Good(k)}
<1>1. SUFFICES ASSUME Bad # {} PROVE FALSE
    OBVIOUS
<1>2. PICK k \in Bad : \A j \in Bad : k <= j
    <2> HIDE DEF Bad
    <2>1. Bad \subseteq Nat
        BY DEF Bad
    <2>2. QED
        BY <1>1, <2>1, LeastNumber
<1>3. k # 0
    <2> DEFINE g == [n \in 0 .. 0 |-> << >>]
    <2>1. g = [n \in 0 .. 0 |-> Kept(g, book, n)]
        BY DEF Kept
    <2>2. Good(0)
        BY <2>1
    <2>3. QED
        BY <2>2
<1>4. Good(k - 1)
    BY <1>2, <1>3
<1>5. PICK g : g = [n \in 0 .. k - 1 |-> Kept(g, book, n)]
    BY <1>4
<1> DEFINE h == [n \in 0 .. k |-> Kept(g, book, n)]
<1>6. \A n \in 0 .. k - 1 : h[n] = g[n]
    BY <1>2, <1>5
<1>7. \A n \in 0 .. k : Kept(g, book, n) = Kept(h, book, n)
    <2>1. \A n \in 0 .. k : n # 0 => n - 1 \in 0 .. k - 1
        BY <1>2
    <2> HIDE DEF h
    <2>2. QED
        BY <1>6, <2>1 DEF Kept
<1>8. h = [n \in 0 .. k |-> Kept(h, book, n)]
    <2>1. h = [n \in 0 .. k |-> Kept(g, book, n)]
        OBVIOUS
    <2> HIDE DEF h
    <2>2. QED
        BY <1>7, <2>1
<1>9. Good(k)
    <2> HIDE DEF h
    <2>1. QED
        BY <1>8
<1>10. QED
    BY <1>2, <1>9

LEMMA ParsedRows ==
    ASSUME NEW book \in Workbooks
    PROVE  parseAdminLoanWorkbook(book) \in Seq(WorkbookRow)
<1>1. book \in Seq(WorkbookRow \cup {BlankRow})
    BY LoanBatchesAssumption
<1>2. /\ Len(book) \in Nat
      /\ \A n \in 1 .. Len(book) : book[n] \in WorkbookRow \cup {BlankRow}
    BY <1>1, LenProperties, ElementOfSeq
<1> DEFINE kept == CHOOSE g : g = [n \in 0 .. Len(book) |-> Kept(g, book, n)]
<1>3. kept = [n \in 0 .. Len(book) |-> Kept(kept, book, n)]
    BY <1>2, KeptExists
<1>4. parseAdminLoanWorkbook(book) = kept[Len(book)]
    BY DEF parseAdminLoanWorkbook, Kept
<1> HIDE DEF kept
<1> DEFINE Bad == {n \in 0 .. Len(book) : kept[n] \notin Seq(WorkbookRow)}
<1>5. SUFFICES ASSUME Bad # {} PROVE FALSE
    BY <1>2, <1>4
<1>6. PICK k \in Bad : \A j \in Bad : k <= j
    <2>1. Bad \subseteq Nat
        BY <1>2
    <2> HIDE DEF Bad
    <2>2. QED
        BY <1>5, <2>1, LeastNumber
<1>7. k \in 0 .. Len(book) /\ kept[k] = Kept(kept, book, k)
    BY <1>3, <1>6
<1>8. k # 0
    BY <1>6, <1>7, EmptySeq DEF Kept
<1>9. kept[k - 1] \in Seq(WorkbookRow)
    BY <1>2, <1>6, <1>7, <1>8
<1>10. kept[k] \in Seq(WorkbookRow)
    BY <1>2, <1>7, <1>8, <1>9 DEF Kept
<1>11. QED
    BY <1>6, <1>10

-----------------------------------------------------------------------------
(***************************************************************************)
(* The requests that a commit makes, one for each row of the workbook.     *)
(***************************************************************************)
CreatedFrom(new, row) ==
    /\ RequestOK(new)
    /\ new.source = "admin" /\ new.member = row.member /\ new.member \in Members
    /\ new.type = row.type /\ new.requested = row.amount
    /\ new.imported <=> isAutoApprovedLoanImportType(row.type)
    /\ IF isAutoApprovedLoanImportType(row.type)
       THEN PhaseOf(new) = "lent" /\ new.proposed \in Proposals \ {NoProposal}
       ELSE PhaseOf(new) = "asked" /\ new.proposed = NoProposal

LEMMA RowInput ==
    ASSUME NEW row \in WorkbookRow, ~CellError(row)
    PROVE  InputOf(row) \in LoanInput
BY DEF WorkbookRow, CellError, InputOf, LoanInput

LEMMA ImportedTermsPropose ==
    ASSUME NEW row \in WorkbookRow, isAutoApprovedLoanImportType(row.type),
           ~Refused(ImportedTerms(row))
    PROVE  Proposal(ImportedTerms(row)) \in Proposals \ {NoProposal}
<1> DEFINE asked == [type |-> row.type, requestedFee |-> row.fee]
<1>1. /\ row.type \in {"voucher", "goods_purchase_paylater"}
      /\ row.amount \in Nat /\ row.duration \in Nat /\ row.fee \in Nat \cup {NoFee}
    BY DEF WorkbookRow, isAutoApprovedLoanImportType
<1>2. asked.type = row.type /\ asked.requestedFee = row.fee
    OBVIOUS
<1> HIDE DEF asked
<1>3. LoanTerms(asked, row.amount, row.duration) = ImportedTerms(row)
    BY <1>1, <1>2 DEF LoanTerms, ImportedTerms
<1>4. AreTerms(ImportedTerms(row), row.amount)
    BY <1>1, <1>2, <1>3, LoanTermsPropose DEF LoanTypes
<1>5. QED
    BY <1>4 DEF AreTerms

LEMMA ImportedRow ==
    ASSUME NEW row \in WorkbookRow, ~CellError(row), row.member \in Members,
           isAutoApprovedLoanImportType(row.type), NEW l \in LoanIds,
           ~Refused(ImportedTerms(row))
    PROVE  CreatedFrom(ImportedRequest(row, l), row)
<1> DEFINE asked == NewLoanRequest(row.member, "admin", InputOf(row))
           deal  == Proposal(ImportedTerms(row))
           new   == ImportedRequest(row, l)
<1>1. InputOf(row) \in LoanInput
    BY RowInput
<1>2. /\ RequestOK(asked) /\ asked.member = row.member /\ asked.source = "admin"
      /\ asked.type = row.type /\ asked.requested = row.amount
    <2>1. asked = NewLoanRequest(row.member, "admin", InputOf(row))
        OBVIOUS
    <2> HIDE DEF asked
    <2>2. /\ RequestOK(asked) /\ asked.member = row.member /\ asked.source = "admin"
          /\ asked.type = InputOf(row).type /\ asked.requested = InputOf(row).amount
        BY <1>1, <2>1, NewRow
    <2>3. QED
        BY <2>2 DEF InputOf
<1>3. deal \in Proposals \ {NoProposal}
    BY ImportedTermsPropose
<1>4. new = [asked EXCEPT !.status = "approved", !.stage = NoStage, !.imported = TRUE,
                          !.reviewed = TRUE, !.proposed = deal, !.disbursed = Today, !.loan = l]
    BY DEF ImportedRequest
<1>5. Today \in Nat \ {0}
    BY LoanRequestsAssumption
<1> HIDE DEF asked, deal, new
<1>6. /\ new.status = "approved" /\ new.disbursed = Today /\ new.proposed = deal
      /\ new.member = asked.member /\ new.source = asked.source /\ new.type = asked.type
      /\ new.requested = asked.requested /\ new.imported
      /\ new \in RowsWithPayoff(new.payoff)
    BY <1>2, <1>3, <1>4, <1>5, ZenonT(60) DEF RequestOK, RowsWithPayoff
<1>7. RequestOK(new) /\ PhaseOf(new) = "lent"
    BY <1>5, <1>6, PhaseFacts DEF RequestOK, EmptyDate
<1>8. CreatedFrom(new, row)
    BY <1>2, <1>3, <1>6, <1>7 DEF CreatedFrom, SameRequest
<1>9. QED
    BY <1>8 DEF new

LEMMA EnteredRow ==
    ASSUME NEW row \in WorkbookRow, ~CellError(row), row.member \in Members,
           ~isAutoApprovedLoanImportType(row.type)
    PROVE  CreatedFrom(NewLoanRequest(row.member, "admin", InputOf(row)), row)
<1> DEFINE new == NewLoanRequest(row.member, "admin", InputOf(row))
<1>1. InputOf(row) \in LoanInput
    BY RowInput
<1>2. new = NewLoanRequest(row.member, "admin", InputOf(row))
    OBVIOUS
<1> HIDE DEF new
<1>3. /\ RequestOK(new) /\ new.status = "pending" /\ new.proposed = NoProposal
      /\ new.member = row.member /\ new.source = "admin" /\ new.type = InputOf(row).type
      /\ new.requested = InputOf(row).amount /\ ~new.imported
    BY <1>1, <1>2, NewRow
<1>4. PhaseOf(new) = "asked"
    BY <1>3, PhaseFacts
<1>5. InputOf(row).type = row.type /\ InputOf(row).amount = row.amount
    BY DEF InputOf
<1>6. CreatedFrom(new, row)
    BY <1>3, <1>4, <1>5 DEF CreatedFrom, SameRequest
<1>7. QED
    BY <1>6 DEF new

\* What a commit finds and what it makes, of the requests with the ids given.
CommitMakes(b, ids) ==
    LET rows == RowsOfBatch(b) IN
    /\ rows \in Seq(WorkbookRow)
    /\ ids \in [DOMAIN rows -> LoanRequestIds] /\ IsInjective(ids)
    /\ \A n \in DOMAIN rows : validateAdminLoanRow(rows[n])
    /\ \A k, n \in DOMAIN rows : rows[k].member = rows[n].member => k = n
    /\ \A n \in DOMAIN rows :
          /\ loanRequests[ids[n]].status = "none"
          /\ CreatedFrom(loanRequests'[ids[n]], rows[n])
    /\ \A q \in LoanRequestIds : (\A n \in DOMAIN rows : ids[n] # q) =>
           loanRequests'[q] = loanRequests[q]
    /\ loanRequests' = [q \in LoanRequestIds |-> loanRequests'[q]]

Rows == BatchRows \cup {NoBatch}

LEMMA Committing ==
    ASSUME batches \in [BatchIds -> Rows], NEW b \in BatchIds, NEW officer, NEW acknowledge,
           NEW ids, NEW loanIds,
           ids \in [DOMAIN RowsOfBatch(b) -> LoanRequestIds],
           loanIds \in [{n \in DOMAIN RowsOfBatch(b) :
                             isAutoApprovedLoanImportType(RowsOfBatch(b)[n].type)} -> LoanIds],
           commitAdminLoanRequestBatch(b, officer, acknowledge, ids, loanIds)
    PROVE  CommitMakes(b, ids)
<1> DEFINE rows     == RowsOfBatch(b)
           imported == {n \in DOMAIN rows : isAutoApprovedLoanImportType(rows[n].type)}
<1>1. rows = parseAdminLoanWorkbook(batches[b].file)
    BY DEF RowsOfBatch
<1>2. batches[b].file \in Workbooks
    <2>1. batches[b].status = "preview"
        BY DEF commitAdminLoanRequestBatch, MayCommit
    <2>2. batches[b] # NoBatch
        BY <2>1 DEF NoBatch
    <2>3. QED
        BY <2>2 DEF Rows, BatchRows
<1>3. rows \in Seq(WorkbookRow)
    BY <1>1, <1>2, ParsedRows
<1>4. DOMAIN rows = 1 .. Len(rows) /\ Len(rows) \in Nat
      /\ \A n \in DOMAIN rows : rows[n] \in WorkbookRow
    BY <1>3, LenProperties, ElementOfSeq
<1>5. /\ AllValid(rows) /\ IsInjective(ids)
      /\ \A n \in DOMAIN rows : loanRequests[ids[n]].status = "none"
      /\ \A n \in imported : ~Refused(ImportedTerms(rows[n]))
      /\ loanRequests' = [q \in LoanRequestIds |-> createFromRow(rows, ids, loanIds, q)]
    BY <1>1 DEF commitAdminLoanRequestBatch, RowsHold
<1> HIDE DEF rows
<1>6. \A n \in DOMAIN rows :
          /\ \A k \in 1 .. n - 1 : rows[k].member # rows[n].member
          /\ validateAdminLoanRow(rows[n])
    BY <1>5 DEF AllValid, validateAdminLoanBatchRows
<1>7. \A k, n \in DOMAIN rows : rows[k].member = rows[n].member => k = n
    <2>1. SUFFICES ASSUME NEW k \in DOMAIN rows, NEW n \in DOMAIN rows, k < n
                   PROVE  rows[k].member # rows[n].member
        BY <1>4
    <2>2. QED
        BY <1>4, <1>6, <2>1
<1>8. ASSUME NEW n \in DOMAIN rows
      PROVE  CreatedFrom(loanRequests'[ids[n]], rows[n])
    <2> DEFINE q == ids[n]
               k == CHOOSE k \in DOMAIN rows : ids[k] = q
    <2>1. q \in LoanRequestIds /\ k = n
        BY <1>5 DEF rows, IsInjective
    <2>2. loanRequests'[q] = IF isAutoApprovedLoanImportType(rows[n].type)
                             THEN ImportedRequest(rows[n], loanIds[n])
                             ELSE NewLoanRequest(rows[n].member, "admin", InputOf(rows[n]))
        BY <1>5, <2>1 DEF createFromRow
    <2>3. rows[n] \in WorkbookRow /\ ~CellError(rows[n]) /\ rows[n].member \in Members
        BY <1>4, <1>6 DEF validateAdminLoanRow
    <2>4. CASE isAutoApprovedLoanImportType(rows[n].type)
        <3>1. loanIds[n] \in LoanIds /\ ~Refused(ImportedTerms(rows[n]))
            BY <1>5, <2>4 DEF rows
        <3>2. QED
            BY <2>2, <2>3, <2>4, <3>1, ImportedRow
    <2>5. CASE ~isAutoApprovedLoanImportType(rows[n].type)
        BY <2>2, <2>3, <2>5, EnteredRow
    <2>6. QED
        BY <2>4, <2>5
<1>9. \A q \in LoanRequestIds : (\A n \in DOMAIN rows : ids[n] # q) =>
          loanRequests'[q] = loanRequests[q]
    BY <1>5 DEF createFromRow
<1>10. QED
    BY <1>3, <1>5, <1>6, <1>7, <1>8, <1>9 DEF CommitMakes, rows

-----------------------------------------------------------------------------
(***************************************************************************)
(* What is asked for stays asked for, whatever is entered after it.        *)
(***************************************************************************)
RequestsKeep ==
    \A q \in LoanRequestIds : loanRequests[q].status # "none" =>
        /\ SameRequest(loanRequests'[q], loanRequests[q])
        /\ loanRequests'[q].status # "none"

LEMMA AskingKeeps ==
    ASSUME NEW q \in LoanRequestIds, NEW m, AsksFor(q, m)
    PROVE  RequestsKeep /\ (RequestsTyped => RequestsTyped')
BY DEF AsksFor, RequestsKeep, SameRequest, RequestsTyped

LEMMA MovingKeeps ==
    ASSUME NEW q \in LoanRequestIds, MovesOnly(q)
    PROVE  RequestsKeep /\ (RequestsTyped => RequestsTyped')
<1>1. loanRequests'[q].status # "none"
    BY PhaseFacts DEF MovesOnly, Moves
<1>2. SameRequest(loanRequests'[q], loanRequests[q])
    BY DEF MovesOnly, Moves
<1>3. RequestsKeep
    BY <1>1, <1>2 DEF MovesOnly, RequestsKeep, SameRequest
<1>4. RequestsTyped => RequestsTyped'
    BY DEF MovesOnly, RequestsTyped
<1>5. QED
    BY <1>3, <1>4

LEMMA CommittingKeeps ==
    ASSUME NEW b, NEW ids, CommitMakes(b, ids)
    PROVE  RequestsKeep /\ (RequestsTyped => RequestsTyped')
<1> DEFINE rows == RowsOfBatch(b)
<1>1. \A q \in LoanRequestIds : loanRequests[q].status # "none" =>
          loanRequests'[q] = loanRequests[q]
    BY DEF CommitMakes
<1>2. RequestsKeep
    BY <1>1 DEF RequestsKeep, SameRequest
<1>3. \A n \in DOMAIN rows : RequestOK(loanRequests'[ids[n]])
    BY DEF CommitMakes, CreatedFrom
<1>4. RequestsTyped => RequestsTyped'
    BY <1>3 DEF CommitMakes, RequestsTyped
<1>5. QED
    BY <1>2, <1>4

-----------------------------------------------------------------------------
(***************************************************************************)
(* The invariant of batches: each committed one as a whole.                *)
(***************************************************************************)
MadeFor(row, new) ==
    /\ new.status # "none" /\ new.source = "admin" /\ new.member = row.member
    /\ new.type = row.type /\ new.requested = row.amount
    /\ new.imported <=> isAutoApprovedLoanImportType(row.type)

\* A batch made the requests with the ids of its row.
Made(batch) ==
    LET rows == parseAdminLoanWorkbook(batch.file) ids == batch.requests IN
    /\ Len(ids) = Len(rows)
    /\ \A n \in DOMAIN rows : ids[n] \in LoanRequestIds /\ MadeFor(rows[n], loanRequests[ids[n]])
    /\ Range(ids) = {ids[n] : n \in DOMAIN rows}

Apart(batch, other) ==
    batch.file # other.file /\ Range(batch.requests) \cap Range(other.requests) = {}

BatchesHold ==
    /\ batches \in [BatchIds -> Rows]
    /\ \A b \in BatchIds : batches[b].status = "committed" => Made(batches[b])
    /\ \A b \in BatchIds : batches[b].status \notin {"none", "committed"} =>
           batches[b].requests = << >>
    /\ \A b, other \in BatchIds :
           batches[b].status = "committed" /\ batches[other].status = "committed" /\ b # other =>
               Apart(batches[b], batches[other])

LEMMA MadeStays ==
    ASSUME RequestsKeep, NEW batch, Made(batch)
    PROVE  Made(batch)'
<1>1. \A row : \A q \in LoanRequestIds :
          MadeFor(row, loanRequests[q]) => MadeFor(row, loanRequests'[q])
    BY DEF RequestsKeep, MadeFor, SameRequest
<1>2. QED
    BY <1>1 DEF Made

\* No batch is committed, and no committed one is touched.
BatchesKeep ==
    /\ batches' \in [BatchIds -> Rows]
    /\ \A b \in BatchIds : batches[b].status = "committed" => batches'[b] = batches[b]
    /\ \A b \in BatchIds : batches'[b].status = "committed" => batches[b].status = "committed"
    /\ \A b \in BatchIds : batches'[b].status \notin {"none", "committed"} =>
           batches'[b].requests = << >>

LEMMA BatchesStay ==
    ASSUME BatchesHold, RequestsKeep, BatchesKeep
    PROVE  BatchesHold'
<1>1. ASSUME NEW b \in BatchIds, batches'[b].status = "committed"
      PROVE  Made(batches[b])' /\ batches'[b] = batches[b] /\ batches[b].status = "committed"
    <2> DEFINE batch == batches[b]
    <2>1. Made(batch) /\ batches'[b] = batches[b] /\ batches[b].status = "committed"
        BY <1>1 DEF BatchesHold, BatchesKeep
    <2>2. QED
        BY <2>1, MadeStays DEF Made
<1>2. QED
    BY <1>1 DEF BatchesHold, BatchesKeep

LEMMA WholeFromHold == BatchesHold => BatchesAreWhole
<1> SUFFICES ASSUME BatchesHold PROVE BatchesAreWhole
    OBVIOUS
<1>1. ASSUME NEW b \in BatchIds, batches[b].status = "committed"
      PROVE  LET ids == batches[b].requests rows == RowsOfBatch(b) IN
             /\ Len(ids) = Len(rows)
             /\ \A n \in DOMAIN rows :
                   LET row == loanRequests[ids[n]] IN
                   /\ row.source = "admin" /\ row.member = rows[n].member
                   /\ row.type = rows[n].type /\ row.requested = rows[n].amount
                   /\ row.imported <=> isAutoApprovedLoanImportType(rows[n].type)
    BY <1>1 DEF BatchesHold, Made, MadeFor, RowsOfBatch
<1>2. \A b \in BatchIds : batches[b].status \notin {"none", "committed"} =>
          batches[b].requests = << >>
    BY DEF BatchesHold
<1>3. \A b, other \in BatchIds :
          batches[b].status = "committed" /\ batches[other].status = "committed" /\ b # other =>
              Apart(batches[b], batches[other])
    BY DEF BatchesHold
<1>4. QED
    BY <1>1, <1>2, <1>3 DEF BatchesAreWhole, Apart

\* A new row of loan_request_batches.
LEMMA PersistedKeeps ==
    ASSUME BatchesHold, NEW b \in BatchIds, batches[b].status = "none",
           NEW officer \in Officers, NEW book \in Workbooks,
           NEW status \in {"preview", "validation_failed"}, NEW warned \in BOOLEAN,
           persistAdminLoanBatch(b, officer, book, status, warned)
    PROVE  BatchesKeep
<1> DEFINE new == [status |-> status, creator |-> officer, file |-> book, expired |-> FALSE,
                   warned |-> warned, acknowledged |-> FALSE, requests |-> << >>]
<1>1. new \in BatchRows /\ new.status = status /\ new.requests = << >>
    BY EmptySeq DEF BatchRows
<1>2. batches' = [batches EXCEPT ![b] = new]
    BY DEF persistAdminLoanBatch
<1> HIDE DEF new
<1>3. QED
    BY <1>1, <1>2 DEF BatchesKeep, BatchesHold, Rows

LEMMA PreviewKeeps ==
    ASSUME BatchesHold, NEW b \in BatchIds, NEW officer \in Officers, NEW book \in Workbooks,
           adminLoanRequestBatchPreview(b, officer, book)
    PROVE  BatchesKeep
<1>1. batches[b].status = "none"
    BY DEF adminLoanRequestBatchPreview
<1> DEFINE rows  == parseAdminLoanWorkbook(book)
           first == activeManagerApproverWarning(rows)
           other == ~Readable(book) \/ activeManagerApproverWarning(rows)
<1>2. first \in BOOLEAN /\ other \in BOOLEAN
    BY DEF activeManagerApproverWarning
<1>3. \/ persistAdminLoanBatch(b, officer, book, "preview", first)
      \/ persistAdminLoanBatch(b, officer, book, "validation_failed", other)
    BY DEF adminLoanRequestBatchPreview
<1> HIDE DEF rows, first, other
<1>4. QED
    BY <1>1, <1>2, <1>3, PersistedKeeps

\* A preview that stays a row without requests.
LEMMA PreviewChanges ==
    ASSUME BatchesHold, NEW b \in BatchIds, batches[b].status = "preview",
           NEW new \in BatchRows, new.requests = batches[b].requests,
           new.status \in {"preview", "validation_failed"},
           batches' = [batches EXCEPT ![b] = new]
    PROVE  BatchesKeep
BY DEF BatchesKeep, BatchesHold, Rows

LEMMA PreviewTyped ==
    ASSUME BatchesHold, NEW b \in BatchIds, batches[b].status = "preview"
    PROVE  batches[b] \in BatchRows
BY DEF BatchesHold, Rows, NoBatch

LEMMA RefuseKeeps ==
    ASSUME BatchesHold, NEW b \in BatchIds, NEW officer, NEW acknowledge,
           refuseAdminLoanRequestBatch(b, officer, acknowledge)
    PROVE  BatchesKeep
<1> DEFINE row    == batches[b]
           warned == activeManagerApproverWarning(parseAdminLoanWorkbook(row.file))
<1>1. row \in BatchRows /\ row.status = "preview"
    BY PreviewTyped DEF refuseAdminLoanRequestBatch, MayCommit
<1>2. warned \in BOOLEAN
    BY DEF activeManagerApproverWarning
<1>3. \/ batches' = [batches EXCEPT ![b] =
                        [row EXCEPT !.status = "validation_failed", !.warned = warned]]
      \/ batches' = [batches EXCEPT ![b] = [row EXCEPT !.warned = TRUE]]
    BY DEF refuseAdminLoanRequestBatch
<1> HIDE DEF warned
<1> DEFINE failed == [row EXCEPT !.status = "validation_failed", !.warned = warned]
           told   == [row EXCEPT !.warned = TRUE]
<1>4. /\ failed \in BatchRows /\ failed.requests = row.requests
      /\ failed.status = "validation_failed"
      /\ told \in BatchRows /\ told.requests = row.requests /\ told.status = "preview"
    BY <1>1, <1>2 DEF BatchRows
<1>5. batches' = [batches EXCEPT ![b] = failed] \/ batches' = [batches EXCEPT ![b] = told]
    BY <1>3
<1> HIDE DEF failed, told
<1>6. QED
    BY <1>1, <1>4, <1>5, PreviewChanges

LEMMA ExpireKeeps ==
    ASSUME BatchesHold, NEW b \in BatchIds, ExpirePreview(b)
    PROVE  BatchesKeep
<1> DEFINE row == batches[b]
           new == [row EXCEPT !.expired = TRUE]
<1>1. row \in BatchRows /\ row.status = "preview"
    BY PreviewTyped DEF ExpirePreview
<1>2. new \in BatchRows /\ new.requests = row.requests /\ new.status = "preview"
    BY <1>1 DEF BatchRows
<1>3. batches' = [batches EXCEPT ![b] = new]
    BY DEF ExpirePreview
<1> HIDE DEF new
<1>4. QED
    BY <1>1, <1>2, <1>3, PreviewChanges

\* What a commit does to its batch.
CommittedBatch(b, acknowledge, ids) ==
    /\ batches[b].status = "preview" /\ ~batches[b].expired
    /\ batches'[b] \in BatchRows
    /\ batches'[b].status = "committed" /\ batches'[b].file = batches[b].file
    /\ batches'[b].requests = ids /\ batches'[b].acknowledged = acknowledge
    /\ \A other \in BatchIds \ {b} : batches'[other] = batches[other]
    /\ batches' = [c \in BatchIds |-> batches'[c]]

LEMMA CommittingBatch ==
    ASSUME BatchesHold, NEW b \in BatchIds, NEW officer, NEW acknowledge \in BOOLEAN,
           NEW ids, ids \in [DOMAIN RowsOfBatch(b) -> LoanRequestIds], NEW loanIds,
           CommitMakes(b, ids),
           commitAdminLoanRequestBatch(b, officer, acknowledge, ids, loanIds)
    PROVE  CommittedBatch(b, acknowledge, ids) /\ ids \in Seq(LoanRequestIds)
<1> DEFINE row    == batches[b]
           rows   == RowsOfBatch(b)
           warned == activeManagerApproverWarning(rows)
           new    == [row EXCEPT !.status = "committed", !.warned = warned,
                                 !.acknowledged = acknowledge, !.requests = ids]
<1>1. row \in BatchRows /\ row.status = "preview" /\ ~row.expired
    BY PreviewTyped DEF commitAdminLoanRequestBatch, MayCommit
<1>2. warned \in BOOLEAN
    BY DEF activeManagerApproverWarning
<1>3. batches' = [batches EXCEPT ![b] = new]
    BY DEF commitAdminLoanRequestBatch, RowsOfBatch
<1>4. ids \in Seq(LoanRequestIds)
    <2>1. rows \in Seq(WorkbookRow) /\ ids \in [DOMAIN rows -> LoanRequestIds]
        BY DEF CommitMakes
    <2>2. Len(rows) \in Nat /\ DOMAIN rows = 1 .. Len(rows)
        BY <2>1, LenProperties
    <2> HIDE DEF rows
    <2>3. QED
        BY <2>1, <2>2
<1> HIDE DEF warned
<1>5. /\ new \in BatchRows /\ new.status = "committed" /\ new.file = row.file
      /\ new.requests = ids /\ new.acknowledged = acknowledge
    BY <1>1, <1>2, <1>4 DEF BatchRows
<1> HIDE DEF new
<1>6. QED
    BY <1>1, <1>3, <1>4, <1>5 DEF CommittedBatch, BatchesHold

LEMMA CommittingHolds ==
    ASSUME BatchesHold, NEW b \in BatchIds, NEW officer, NEW acknowledge \in BOOLEAN,
           NEW ids, ids \in [DOMAIN RowsOfBatch(b) -> LoanRequestIds], NEW loanIds,
           CommitMakes(b, ids),
           commitAdminLoanRequestBatch(b, officer, acknowledge, ids, loanIds)
    PROVE  BatchesHold'
<1> DEFINE rows == RowsOfBatch(b)
<1>1. CommittedBatch(b, acknowledge, ids) /\ ids \in Seq(LoanRequestIds)
    BY CommittingBatch
<1>2. batches' \in [BatchIds -> Rows]
    BY <1>1 DEF CommittedBatch, BatchesHold, Rows
<1>3. Made(batches[b])'
    <2>1. parseAdminLoanWorkbook(batches'[b].file) = rows /\ batches'[b].requests = ids
        BY <1>1 DEF CommittedBatch, RowsOfBatch
    <2>2. rows \in Seq(WorkbookRow) /\ ids \in [DOMAIN rows -> LoanRequestIds]
        BY DEF CommitMakes
    <2>3. Len(ids) = Len(rows)
        <3>1. /\ DOMAIN rows = 1 .. Len(rows) /\ Len(rows) \in Nat
              /\ DOMAIN ids = 1 .. Len(ids) /\ Len(ids) \in Nat
            BY <1>1, <2>2, LenProperties
        <3>2. DOMAIN ids = DOMAIN rows
            BY <2>2
        <3>3. QED
            BY <3>1, <3>2
    <2>4. \A n \in DOMAIN rows : ids[n] \in LoanRequestIds
                                 /\ MadeFor(rows[n], loanRequests'[ids[n]])
        <3>1. \A n \in DOMAIN rows : CreatedFrom(loanRequests'[ids[n]], rows[n])
            BY DEF CommitMakes
        <3>2. ASSUME NEW new, NEW row, CreatedFrom(new, row) PROVE MadeFor(row, new)
            BY <3>2, PhaseFacts DEF CreatedFrom, MadeFor
        <3> HIDE DEF rows
        <3>3. QED
            BY <2>2, <3>1, <3>2
    <2>5. Range(ids) = {ids[n] : n \in DOMAIN rows}
        BY <2>2 DEF Range
    <2> HIDE DEF rows
    <2>6. QED
        BY <2>1, <2>3, <2>4, <2>5 DEF Made
<1>4. ASSUME NEW other \in BatchIds, other # b, batches'[other].status = "committed"
      PROVE  Made(batches[other])' /\ batches[other].status = "committed"
             /\ batches'[other] = batches[other]
    <2>1. batches'[other] = batches[other] /\ Made(batches[other])
        BY <1>1, <1>4 DEF CommittedBatch, BatchesHold
    <2>2. RequestsKeep
        BY CommittingKeeps
    <2>3. QED
        BY <1>4, <2>1, <2>2, MadeStays DEF Made
<1>5. ASSUME NEW other \in BatchIds, other # b, batches'[other].status = "committed"
      PROVE  Apart(batches'[b], batches'[other]) /\ Apart(batches'[other], batches'[b])
    <2>1. batches[other].status = "committed" /\ Made(batches[other])
          /\ batches'[other] = batches[other]
        BY <1>4, <1>5 DEF BatchesHold
    <2>2. \A q \in Range(batches[other].requests) :
              q \in LoanRequestIds /\ loanRequests[q].status # "none"
        BY <2>1 DEF Made, MadeFor
    <2>3. \A q \in Range(ids) : loanRequests[q].status = "none"
        BY DEF CommitMakes, Range
    <2>4. batches[other].file # batches[b].file
        BY <2>1 DEF commitAdminLoanRequestBatch, MayCommit, Committed
    <2>5. QED
        BY <1>1, <2>1, <2>2, <2>3, <2>4 DEF Apart, CommittedBatch
<1>6. ASSUME NEW other \in BatchIds, batches'[other].status \notin {"none", "committed"}
      PROVE  batches'[other].requests = << >>
    BY <1>1, <1>6 DEF CommittedBatch, BatchesHold
<1>7. ASSUME NEW x \in BatchIds, NEW y \in BatchIds, batches'[x].status = "committed",
             batches'[y].status = "committed", x # y
      PROVE  Apart(batches'[x], batches'[y])
    <2>1. CASE x = b \/ y = b
        BY <1>5, <1>7, <2>1
    <2>2. CASE x # b /\ y # b
        BY <1>4, <1>7, <2>2 DEF BatchesHold
    <2>3. QED
        BY <2>1, <2>2
<1>8. QED
    BY <1>2, <1>3, <1>4, <1>6, <1>7 DEF BatchesHold

-----------------------------------------------------------------------------
(***************************************************************************)
(* The inductive invariant: requests and batches as above, savings that    *)
(* can be summed, and each key the key of one request.                     *)
(***************************************************************************)
SavingsTyped == savings \in [SavingIds -> SavingRows]

CallsTyped == calls \in [Calls -> [key : Keys, member : Members, input : LoanInputs] \cup {IdleCall}]

KeysHold == keyOf \in [LoanRequestIds -> Keys \cup {NoKey}] /\ KeysMakeOneRequest

IntakeInvariant ==
    /\ RequestsTyped /\ SavingsTyped /\ CallsTyped
    /\ BatchesHold /\ KeysHold

LEMMA InitHolds == LoanBatchesInit => IntakeInvariant
<1> SUFFICES ASSUME LoanBatchesInit PROVE IntakeInvariant
    OBVIOUS
<1> USE DEF LoanBatchesInit, LoanRequestsInit, SavingsInit
<1>1. RequestsTyped
    <2>1. RequestOK(NoLoanRequest)
        BY NoProposalType DEF NoLoanRequest, NewLoanRequest, RequestOK, RowsWithPayoff, LoanTypes,
                              Stages, EmptyDate, NoFee
    <2>2. QED
        BY <2>1 DEF RequestsTyped
<1>2. SavingsTyped
    BY SavingsAssumption DEF SavingsTyped, NoSaving, SavingRows
<1>3. CallsTyped
    BY DEF CallsTyped
<1>4. BatchesHold
    BY DEF BatchesHold, Rows, NoBatch
<1>5. KeysHold
    BY DEF KeysHold, KeysMakeOneRequest
<1>6. QED
    BY <1>1, <1>2, <1>3, <1>4, <1>5 DEF IntakeInvariant

LEMMA UntouchedBatches == ASSUME BatchesHold, UNCHANGED batches PROVE BatchesKeep
BY DEF BatchesHold, BatchesKeep

\* A workbook is committed.
Commits(b) ==
    \E officer \in Officers, acknowledge \in BOOLEAN :
        LET rows == RowsOfBatch(b) IN
        \E ids \in [DOMAIN rows -> LoanRequestIds] :
        \E loanIds \in [{n \in DOMAIN rows : isAutoApprovedLoanImportType(rows[n].type)} -> LoanIds] :
            commitAdminLoanRequestBatch(b, officer, acknowledge, ids, loanIds)

LEMMA BatchSteps ==
    ASSUME BatchesHold, NEW b \in BatchIds, BatchStep(b)
    PROVE  Commits(b) \/ (BatchesKeep /\ UNCHANGED <<lendingVars, keyOf, calls>>)
<1>1. ASSUME NEW officer \in Officers, NEW book \in Workbooks,
             adminLoanRequestBatchPreview(b, officer, book)
      PROVE  BatchesKeep /\ UNCHANGED <<lendingVars, keyOf, calls>>
    BY <1>1, PreviewKeeps DEF adminLoanRequestBatchPreview
<1>2. ASSUME ExpirePreview(b)
      PROVE  BatchesKeep /\ UNCHANGED <<lendingVars, keyOf, calls>>
    BY <1>2, ExpireKeeps DEF ExpirePreview
<1>3. ASSUME NEW officer \in Officers, NEW acknowledge \in BOOLEAN,
             refuseAdminLoanRequestBatch(b, officer, acknowledge)
      PROVE  BatchesKeep /\ UNCHANGED <<lendingVars, keyOf, calls>>
    BY <1>3, RefuseKeeps DEF refuseAdminLoanRequestBatch
<1>4. QED
    BY <1>1, <1>2, <1>3 DEF BatchStep, Commits, RowsOfBatch

\* One request is asked for or moved.
OneRequest(q) == (\E m \in Members : AsksFor(q, m)) \/ MovesOnly(q)

LEMMA CallAsks ==
    ASSUME RequestsTyped, CallsTyped, NEW c \in Calls, NEW q \in LoanRequestIds, createUnderKey(c, q)
    PROVE  OneRequest(q) /\ UNCHANGED batches
<1> DEFINE call == calls[c]
<1>1. call.member \in Members /\ call.input \in LoanInputs
    BY DEF createUnderKey, CallsTyped
<1>2. createAdminLoanRequestFor(q, call.member, call.input) /\ UNCHANGED batches
    BY DEF createUnderKey
<1> HIDE DEF call
<1>3. QED
    BY <1>1, <1>2, Asking DEF OneRequest

\* What a step does to requests and batches.
LEMMA Steps ==
    ASSUME IntakeInvariant, [LoanBatchesNext]_intakeVars
    PROVE  \/ UNCHANGED loanRequests /\ BatchesKeep
           \/ BatchesKeep /\ \E q \in LoanRequestIds : OneRequest(q)
           \/ \E b \in BatchIds : Commits(b)
<1>1. ASSUME NEW b \in BatchIds, BatchStep(b)
      PROVE  Commits(b) \/ (BatchesKeep /\ UNCHANGED loanRequests)
    BY <1>1, BatchSteps DEF IntakeInvariant, lendingVars, loanRequestVars
<1>2. ASSUME NEW c \in Calls, KeyStep(c)
      PROVE  \/ UNCHANGED loanRequests /\ BatchesKeep
             \/ BatchesKeep /\ \E q \in LoanRequestIds : OneRequest(q)
    <2>1. CASE \E q \in LoanRequestIds : createUnderKey(c, q)
        BY <2>1, CallAsks, UntouchedBatches DEF IntakeInvariant
    <2>2. CASE ~\E q \in LoanRequestIds : createUnderKey(c, q)
        <3>1. UNCHANGED <<lendingVars, batches>>
            BY <1>2, <2>2 DEF KeyStep, lookUpIdempotencyKey, dropCall
        <3>2. QED
            BY <3>1, UntouchedBatches DEF IntakeInvariant, lendingVars, loanRequestVars
    <2>3. QED
        BY <2>1, <2>2
<1>3. CASE managerChanges
    BY <1>3, UntouchedBatches DEF managerChanges, IntakeInvariant, lendingVars, loanRequestVars
<1>4. CASE LoanRequestsNext /\ UNCHANGED batchVars
    <2>1. BatchesKeep
        BY <1>4, UntouchedBatches DEF batchVars, IntakeInvariant
    <2>2. CASE \E q \in LoanRequestIds : LoanRequestStep(q) \/ DisbursementStep(q)
        BY <2>1, <2>2, RequestStepMoves DEF IntakeInvariant, OneRequest
    <2>3. CASE ~\E q \in LoanRequestIds : LoanRequestStep(q) \/ DisbursementStep(q)
        <3>1. UNCHANGED loanRequests
            BY <1>4, <2>3 DEF LoanRequestsNext, DepositStep, updateMemberType, loanRequestVars
        <3>2. QED
            BY <2>1, <3>1
    <2>4. QED
        BY <2>2, <2>3
<1>5. CASE UNCHANGED intakeVars
    BY <1>5, UntouchedBatches
       DEF intakeVars, batchVars, IntakeInvariant, lendingVars, loanRequestVars
<1>6. QED
    BY <1>1, <1>2, <1>3, <1>4, <1>5 DEF LoanBatchesNext

LEMMA CommitsFact ==
    ASSUME BatchesHold, NEW b \in BatchIds, Commits(b)
    PROVE  /\ BatchesHold'
           /\ \E ids : CommitMakes(b, ids)
           /\ \E acknowledge \in BOOLEAN, ids \in Seq(LoanRequestIds) :
                  /\ CommitMakes(b, ids) /\ CommittedBatch(b, acknowledge, ids)
                  /\ activeManagerApproverWarning(RowsOfBatch(b)) => acknowledge
<1>1. PICK officer \in Officers, acknowledge \in BOOLEAN,
           ids \in [DOMAIN RowsOfBatch(b) -> LoanRequestIds],
           loanIds \in [{n \in DOMAIN RowsOfBatch(b) :
                             isAutoApprovedLoanImportType(RowsOfBatch(b)[n].type)} -> LoanIds] :
               commitAdminLoanRequestBatch(b, officer, acknowledge, ids, loanIds)
    BY DEF Commits
<1>2. CommitMakes(b, ids)
    BY <1>1, Committing DEF BatchesHold
<1>3. BatchesHold' /\ CommittedBatch(b, acknowledge, ids) /\ ids \in Seq(LoanRequestIds)
    BY <1>1, <1>2, CommittingHolds, CommittingBatch
<1>4. activeManagerApproverWarning(RowsOfBatch(b)) => acknowledge
    BY <1>1 DEF commitAdminLoanRequestBatch, RowsOfBatch
<1>5. QED
    BY <1>2, <1>3, <1>4

LEMMA KeyChanges ==
    ASSUME IntakeInvariant, [LoanBatchesNext]_intakeVars
    PROVE  \/ UNCHANGED <<keyOf, calls>>
           \/ \E c \in Calls, key \in Keys, m \in Members, input \in LoanInputs :
                  lookUpIdempotencyKey(c, key, m, input)
           \/ \E c \in Calls : dropCall(c)
           \/ \E c \in Calls, q \in LoanRequestIds : createUnderKey(c, q)
<1>1. ASSUME NEW b \in BatchIds, BatchStep(b) PROVE UNCHANGED <<keyOf, calls>>
    BY <1>1 DEF BatchStep, adminLoanRequestBatchPreview, ExpirePreview,
                refuseAdminLoanRequestBatch, commitAdminLoanRequestBatch
<1>2. QED
    BY <1>1 DEF LoanBatchesNext, KeyStep, managerChanges, intakeVars, batchVars

LEMMA CallsKeysHold ==
    ASSUME IntakeInvariant, [LoanBatchesNext]_intakeVars
    PROVE  CallsTyped' /\ KeysHold'
<1>1. CASE UNCHANGED <<keyOf, calls>>
    BY <1>1 DEF IntakeInvariant, CallsTyped, KeysHold, KeysMakeOneRequest
<1>2. ASSUME NEW c \in Calls, NEW key \in Keys, NEW m \in Members, NEW input \in LoanInputs,
             lookUpIdempotencyKey(c, key, m, input)
      PROVE  CallsTyped' /\ KeysHold'
    BY <1>2 DEF IntakeInvariant, CallsTyped, KeysHold, KeysMakeOneRequest, lookUpIdempotencyKey
<1>3. ASSUME NEW c \in Calls, dropCall(c)
      PROVE  CallsTyped' /\ KeysHold'
    BY <1>3 DEF IntakeInvariant, CallsTyped, KeysHold, KeysMakeOneRequest, dropCall
<1>4. ASSUME NEW c \in Calls, NEW q \in LoanRequestIds, createUnderKey(c, q)
      PROVE  CallsTyped' /\ KeysHold'
    <2>1. CallsTyped'
        BY <1>4 DEF IntakeInvariant, CallsTyped, createUnderKey
    <2>2. calls[c].key \in Keys /\ ~KeyUsed(calls[c].key)
        BY <1>4 DEF IntakeInvariant, CallsTyped, createUnderKey, MayUseKey
    <2>3. keyOf' = [keyOf EXCEPT ![q] = calls[c].key]
        BY <1>4 DEF createUnderKey
    <2>4. KeysHold'
        BY <2>2, <2>3 DEF IntakeInvariant, KeysHold, KeysMakeOneRequest, KeyUsed
    <2>5. QED
        BY <2>1, <2>4
<1>5. QED
    BY <1>1, <1>2, <1>3, <1>4, KeyChanges

LEMMA SavingsStay ==
    ASSUME SavingsTyped, [LoanBatchesNext]_intakeVars
    PROVE  SavingsTyped'
<1>1. CASE UNCHANGED savings
    BY <1>1 DEF SavingsTyped
<1>2. CASE DepositStep
    <2>1. ASSUME NEW s \in SavingIds, NEW m \in Members, NEW c \in Categories,
                 NEW amount \in DepositAmounts, insertSaving(s, m, c, amount)
          PROVE  SavingsTyped'
        BY <2>1, SavingsAssumption DEF insertSaving, SavingsTyped, SavingRows
    <2>2. ASSUME NEW s \in SavingIds, NEW amount \in DepositAmounts, correctSavingByID(s, amount)
          PROVE  SavingsTyped'
        BY <2>2, SavingsAssumption DEF correctSavingByID, SavingsTyped, SavingRows
    <2>3. ASSUME NEW s \in SavingIds, removeSavingByID(s)
          PROVE  SavingsTyped'
        BY <2>3 DEF removeSavingByID, SavingsTyped, SavingRows
    <2>4. QED
        BY <1>2, <2>1, <2>2, <2>3 DEF DepositStep
<1>3. ASSUME NEW q \in LoanRequestIds, LoanRequestStep(q) \/ DisbursementStep(q)
      PROVE  UNCHANGED savings
    BY <1>3 DEF LoanRequestStep, DisbursementStep, insertLoanRequest, createAdminLoanRequestFor,
                approveLoanRequestByID, rejectLoanRequestByID, cancelLoanRequestByID,
                cancelAdminLoanRequest, overrideLoanRequestByID, rejectLoanRequestBySuperAdmin,
                disburseLoanRequestByID, savingsVars
<1>4. ASSUME RepaymentStep \/ ScheduleStep
      PROVE  UNCHANGED savings
    BY <1>4 DEF RepaymentStep, ScheduleStep, recordRepaymentTx, correctRepaymentByID,
                removeRepaymentByID, applyLoanSuspensionTx, correctLoanStartDateByID, savingsVars
<1>5. ASSUME NEW b \in BatchIds, BatchStep(b)
      PROVE  UNCHANGED savings
    <2>1. ASSUME NEW officer \in Officers, NEW book \in Workbooks,
                 adminLoanRequestBatchPreview(b, officer, book)
          PROVE  UNCHANGED lendingVars
        BY <2>1 DEF adminLoanRequestBatchPreview
    <2>2. ASSUME ExpirePreview(b)
          PROVE  UNCHANGED lendingVars
        BY <2>2 DEF ExpirePreview
    <2>3. ASSUME NEW officer \in Officers, NEW acknowledge \in BOOLEAN,
                 refuseAdminLoanRequestBatch(b, officer, acknowledge)
          PROVE  UNCHANGED lendingVars
        BY <2>3 DEF refuseAdminLoanRequestBatch
    <2>4. ASSUME NEW officer, NEW acknowledge, NEW ids, NEW loanIds,
                 commitAdminLoanRequestBatch(b, officer, acknowledge, ids, loanIds)
          PROVE  UNCHANGED savingsVars
        BY <2>4 DEF commitAdminLoanRequestBatch
    <2>5. UNCHANGED lendingVars \/ UNCHANGED savingsVars
        BY <1>5, <2>1, <2>2, <2>3, <2>4 DEF BatchStep
    <2>6. QED
        BY <2>5 DEF lendingVars, savingsVars
<1>6. ASSUME NEW c \in Calls, KeyStep(c)
      PROVE  UNCHANGED savings
    BY <1>6 DEF KeyStep, lookUpIdempotencyKey, createUnderKey, createAdminLoanRequestFor, dropCall,
                lendingVars, savingsVars
<1>7. CASE LoanRequestsNext
    <2>1. CASE \E m \in Members, type \in MemberTypes : updateMemberType(m, type)
        BY <1>1, <2>1 DEF updateMemberType, savingsVars
    <2>2. QED
        BY <1>1, <1>2, <1>3, <1>4, <1>7, <2>1 DEF LoanRequestsNext
<1>8. CASE managerChanges
    BY <1>1, <1>8 DEF managerChanges, lendingVars, savingsVars
<1>9. CASE UNCHANGED intakeVars
    BY <1>1, <1>9 DEF intakeVars, lendingVars, savingsVars
<1>10. QED
    BY <1>1, <1>5, <1>6, <1>7, <1>8, <1>9 DEF LoanBatchesNext

LEMMA StepHolds ==
    ASSUME IntakeInvariant, [LoanBatchesNext]_intakeVars
    PROVE  IntakeInvariant'
<1>1. RequestsTyped /\ BatchesHold
    BY DEF IntakeInvariant
<1>2. RequestsTyped' /\ BatchesHold'
    <2>1. CASE UNCHANGED loanRequests /\ BatchesKeep
        <3>1. RequestsKeep
            BY <2>1 DEF RequestsKeep, SameRequest
        <3>2. RequestsTyped'
            BY <1>1, <2>1 DEF RequestsTyped
        <3>3. QED
            BY <1>1, <2>1, <3>1, <3>2, BatchesStay
    <2>2. ASSUME BatchesKeep, NEW q \in LoanRequestIds, OneRequest(q)
          PROVE  RequestsTyped' /\ BatchesHold'
        <3>1. RequestsKeep /\ RequestsTyped'
            BY <1>1, <2>2, AskingKeeps, MovingKeeps DEF OneRequest
        <3>2. QED
            BY <1>1, <2>2, <3>1, BatchesStay
    <2>3. ASSUME NEW b \in BatchIds, Commits(b)
          PROVE  RequestsTyped' /\ BatchesHold'
        BY <1>1, <2>3, CommitsFact, CommittingKeeps
    <2>4. QED
        BY <2>1, <2>2, <2>3, Steps
<1>3. SavingsTyped'
    BY SavingsStay DEF IntakeInvariant
<1>4. CallsTyped' /\ KeysHold'
    BY CallsKeysHold
<1>5. QED
    BY <1>2, <1>3, <1>4 DEF IntakeInvariant

\* The invariant holds in every state that can be reached, for any sets of
\* members, requests, workbooks and keys and any width of integers.
THEOREM IntakeInvariantHolds == LoanBatchesSpec => []IntakeInvariant
<1>1. IntakeInvariant /\ [LoanBatchesNext]_intakeVars => IntakeInvariant'
    BY StepHolds
<1>2. QED
    BY InitHolds, <1>1, PTL DEF LoanBatchesSpec

\* A workbook that is committed has made all its requests, one for each row, and
\* is committed once; a request that is sent again under its key is made once.
\* (commitAdminLoanRequestBatch, createAdminLoanRequestFor)
THEOREM EnteredOnceHolds == LoanBatchesSpec => []EnteredOnce
<1>1. IntakeInvariant => EnteredOnce
    BY WholeFromHold DEF IntakeInvariant, KeysHold, EnteredOnce
<1>2. QED
    BY IntakeInvariantHolds, <1>1, PTL

-----------------------------------------------------------------------------
(***************************************************************************)
(* What is committed holds at the commit, and what is lent is within the   *)
(* limit of that moment.                                                   *)
(***************************************************************************)
LEMMA CommitStepHolds ==
    ASSUME IntakeInvariant, [LoanBatchesNext]_intakeVars, NEW b \in BatchIds,
           batches[b].status # "committed", batches'[b].status = "committed"
    PROVE  LET rows == RowsOfBatch(b) IN
           /\ ~batches[b].expired
           /\ \A n \in DOMAIN rows :
                 /\ memberStatus[rows[n].member] = "active"
                 /\ \A q \in LoanRequestIds :
                       loanRequests[q].member = rows[n].member => ~InFlight(loanRequests[q])
                 /\ \A k \in DOMAIN rows : rows[k].member = rows[n].member => k = n
                 /\ (rows[n].type = "regular" /\ ~hasManager) => batches'[b].acknowledged
<1> DEFINE rows == RowsOfBatch(b)
<1>1. PICK c \in BatchIds : Commits(c)
    BY Steps DEF BatchesKeep
<1>2. PICK acknowledge \in BOOLEAN, ids \in Seq(LoanRequestIds) :
          /\ CommitMakes(c, ids) /\ CommittedBatch(c, acknowledge, ids)
          /\ activeManagerApproverWarning(RowsOfBatch(c)) => acknowledge
    BY <1>1, CommitsFact DEF IntakeInvariant
<1>3. b = c
    BY <1>2 DEF CommittedBatch
<1>4. ~batches[b].expired /\ batches'[b].acknowledged = acknowledge
    BY <1>2, <1>3 DEF CommittedBatch
<1>5. /\ \A n \in DOMAIN rows : validateAdminLoanRow(rows[n])
      /\ \A k, n \in DOMAIN rows : rows[k].member = rows[n].member => k = n
      /\ rows \in Seq(WorkbookRow)
    BY <1>2, <1>3 DEF CommitMakes
<1>6. activeManagerApproverWarning(rows) => acknowledge
    BY <1>2, <1>3
<1>7. DOMAIN rows = 1 .. Len(rows) /\ Len(rows) \in Nat
    BY <1>5, LenProperties
<1> HIDE DEF rows
<1>8. ASSUME NEW n \in DOMAIN rows
      PROVE  /\ memberStatus[rows[n].member] = "active"
             /\ \A q \in LoanRequestIds :
                   loanRequests[q].member = rows[n].member => ~InFlight(loanRequests[q])
             /\ (rows[n].type = "regular" /\ ~hasManager) => acknowledge
    <2>1. memberStatus[rows[n].member] = "active" /\ ~HasRequestInFlight(rows[n].member)
        BY <1>5 DEF validateAdminLoanRow
    <2>2. \A k \in 1 .. n - 1 : rows[k].member # rows[n].member
        BY <1>5, <1>7
    <2>3. validateAdminLoanBatchRows(rows)[n]
        BY <1>5, <2>2 DEF validateAdminLoanBatchRows
    <2>4. (rows[n].type = "regular" /\ ~hasManager) => activeManagerApproverWarning(rows)
        BY <2>3 DEF activeManagerApproverWarning, isAutoApprovedLoanImportType
    <2>5. QED
        BY <1>6, <2>1, <2>4 DEF HasRequestInFlight
<1>9. QED
    BY <1>4, <1>5, <1>8 DEF rows

\* A workbook is committed on what holds at the commit, however long ago it was
\* previewed: members active and without a request, nobody twice, and rows for
\* a manager acknowledged when there was none.  (commitAdminLoanRequestBatch)
THEOREM CommitsHoldNowHolds == LoanBatchesSpec => CommitsHoldNow
<1> DEFINE Holds ==
        \A b \in BatchIds :
            batches[b].status # "committed" /\ batches'[b].status = "committed" =>
            LET rows == RowsOfBatch(b) IN
            /\ ~batches[b].expired
            /\ \A n \in DOMAIN rows :
                  /\ memberStatus[rows[n].member] = "active"
                  /\ \A q \in LoanRequestIds :
                        loanRequests[q].member = rows[n].member => ~InFlight(loanRequests[q])
                  /\ \A k \in DOMAIN rows : rows[k].member = rows[n].member => k = n
                  /\ (rows[n].type = "regular" /\ ~hasManager) => batches'[b].acknowledged
<1>1. IntakeInvariant /\ [LoanBatchesNext]_intakeVars => [Holds]_intakeVars
    BY CommitStepHolds
<1>2. QED
    BY IntakeInvariantHolds, <1>1, PTL DEF LoanBatchesSpec, CommitsHoldNow

LEMMA LimitIsExact ==
    ASSUME NEW type, NEW wajib \in Int, NEW sukarela \in Int
    PROVE  maxLoanAmountForMemberSavings(type, wajib, sukarela)
               <= Multiplier(type) * (Positive(wajib) + Positive(sukarela))
<1> DEFINE w == Positive(wajib)
           s == Positive(sukarela)
           k == Multiplier(type)
<1>1. w \in Nat /\ s \in Nat
    BY DEF Positive
<1>2. k \in {1, 2, 4}
    BY DEF Multiplier
<1>3. MaxInt64 \in Nat
    BY LoanScheduleAssumption
<1>4. maxLoanAmountForMemberSavings(type, wajib, sukarela)
          = IF s > MaxInt64 - w \/ w + s > MaxInt64 \div k THEN MaxInt64 ELSE (w + s) * k
    BY DEF maxLoanAmountForMemberSavings
<1> HIDE DEF w, s, k
<1>5. (w + s) * k = k * (w + s)
    BY <1>1, <1>2
<1>6. s > MaxInt64 - w => MaxInt64 <= k * (w + s)
    BY <1>1, <1>2, <1>3
<1>7. w + s > MaxInt64 \div k => MaxInt64 <= k * (w + s)
    <2>1. CASE k = 1
        BY <1>1, <1>3, <2>1
    <2>2. CASE k = 2
        BY <1>1, <1>3, <2>2
    <2>3. CASE k = 4
        BY <1>1, <1>3, <2>3
    <2>4. QED
        BY <1>2, <2>1, <2>2, <2>3
<1>8. k * (w + s) \in Int
    BY <1>1, <1>2
<1>9. maxLoanAmountForMemberSavings(type, wajib, sukarela) <= k * (w + s)
    <2> DEFINE exact == k * (w + s)
    <2>1. maxLoanAmountForMemberSavings(type, wajib, sukarela) \in {MaxInt64, exact}
          /\ (maxLoanAmountForMemberSavings(type, wajib, sukarela) # exact => MaxInt64 <= exact)
        BY <1>4, <1>5, <1>6, <1>7
    <2> HIDE DEF exact
    <2>2. QED
        BY <1>3, <1>8, <2>1 DEF exact
<1>10. QED
    BY <1>9 DEF w, s, k

LEMMA BalanceType ==
    ASSUME SavingsTyped, NEW m, NEW c
    PROVE  categoryBalance(m, c) \in Int
<1> DEFINE amounts == [s \in SavingIds |-> savings[s].amount]
<1>1. \A s \in SavingIds : amounts[s] \in Int
    BY DEF SavingsTyped, SavingRows
<1>2. ASSUME NEW type PROVE AmountOf(RowsOf(m, c, type)) \in Int
    <2>1. RowsOf(m, c, type) \subseteq SavingIds /\ IsFiniteSet(RowsOf(m, c, type))
        BY SavingsAssumption, FS_Subset DEF RowsOf
    <2> HIDE DEF amounts
    <2>2. SumFunctionOnSet(amounts, RowsOf(m, c, type)) \in Int
        BY <1>1, <2>1, SumType
    <2>3. QED
        BY <2>2 DEF AmountOf, amounts
<1>3. QED
    BY <1>2 DEF categoryBalance

LEMMA LimitHolds ==
    ASSUME SavingsTyped, NEW m
    PROVE  LoanLimit(m) <= ExactLimit(m) /\ LoanLimit(m) \in Int /\ ExactLimit(m) \in Int
<1> DEFINE w == categoryBalance(m, "wajib")
           s == categoryBalance(m, "sukarela")
           k == Multiplier(memberType[m])
<1>1. w \in Int /\ s \in Int
    BY BalanceType
<1>2. LoanLimit(m) = maxLoanAmountForMemberSavings(memberType[m], w, s)
    BY DEF LoanLimit
<1>3. ExactLimit(m) = k * (Positive(w) + Positive(s))
    BY DEF ExactLimit, Multiplier
<1>4. k \in {1, 2, 4}
    BY DEF Multiplier
<1> HIDE DEF w, s
<1>5. maxLoanAmountForMemberSavings(memberType[m], w, s) <= k * (Positive(w) + Positive(s))
    BY <1>1, LimitIsExact
<1>6. Positive(w) \in Nat /\ Positive(s) \in Nat
    BY <1>1 DEF Positive
<1>7. maxLoanAmountForMemberSavings(memberType[m], w, s) \in Int
    <2>1. MaxInt64 \in Nat
        BY LoanScheduleAssumption
    <2> HIDE DEF k
    <2>2. (Positive(w) + Positive(s)) * k \in Int
        BY <1>4, <1>6
    <2>3. QED
        BY <2>1, <2>2 DEF maxLoanAmountForMemberSavings, k
<1> HIDE DEF k
<1>8. k * (Positive(w) + Positive(s)) \in Int
    BY <1>4, <1>6
<1>9. QED
    BY <1>2, <1>3, <1>5, <1>7, <1>8

LEMMA LendingStep ==
    ASSUME IntakeInvariant, [LoanBatchesNext]_intakeVars, NEW q \in Asked,
           loanRequests[q].disbursed = EmptyDate, loanRequests'[q].disbursed # EmptyDate
    PROVE  DisbursementStep(q)
<1>1. q \in LoanRequestIds /\ loanRequests[q].status # "none"
    BY DEF Asked
<1>2. ASSUME NEW r \in LoanRequestIds, LoanRequestStep(r) PROVE FALSE
    <2>1. OneRequest(r)
        BY <1>2, RequestStepMoves DEF IntakeInvariant, OneRequest
    <2>2. r = q /\ MovesOnly(q)
        BY <1>1, <2>1 DEF OneRequest, AsksFor, MovesOnly
    <2>3. PhaseOf(loanRequests'[q]) = "lent"
        BY <2>2, PhaseFacts DEF MovesOnly, RequestOK
    <2>4. PhaseOf(loanRequests[q]) = "approved"
        BY <2>2, <2>3 DEF MovesOnly, Moves
    <2>5. loanRequests[q].status = "pending"
        BY <1>1, <1>2, <2>2 DEF LoanRequestStep, insertLoanRequest, createAdminLoanRequestFor,
             MayAsk, approveLoanRequestByID, rejectLoanRequestByID, LoanWaitsFor,
             cancelLoanRequestByID, cancelAdminLoanRequest, overrideLoanRequestByID,
             rejectLoanRequestBySuperAdmin, LoanOverridden
    <2>6. QED
        BY <2>4, <2>5, PhaseFacts
<1>3. ASSUME NEW r \in LoanRequestIds, DisbursementStep(r) PROVE r = q
    <2>1. OneRequest(r)
        BY <1>3, RequestStepMoves DEF IntakeInvariant, OneRequest
    <2>2. QED
        BY <1>1, <2>1 DEF OneRequest, AsksFor, MovesOnly
<1>4. ASSUME NEW b \in BatchIds, BatchStep(b) PROVE loanRequests'[q] = loanRequests[q]
    <2>1. CASE Commits(b)
        <3>1. PICK ids : CommitMakes(b, ids)
            BY <2>1, CommitsFact DEF IntakeInvariant
        <3>2. QED
            BY <1>1, <3>1 DEF CommitMakes
    <2>2. CASE UNCHANGED lendingVars
        BY <2>2 DEF lendingVars, loanRequestVars
    <2>3. QED
        BY <1>4, <2>1, <2>2, BatchSteps DEF IntakeInvariant
<1>5. ASSUME NEW c \in Calls, KeyStep(c) PROVE loanRequests'[q] = loanRequests[q]
    <2>1. CASE \E r \in LoanRequestIds : createUnderKey(c, r)
        <3>1. PICK r \in LoanRequestIds : createUnderKey(c, r)
            BY <2>1
        <3>2. loanRequests[r].status = "none" /\
              \E row : Stored(r, row)
            BY <3>1 DEF createUnderKey, createAdminLoanRequestFor, MayAsk
        <3>3. QED
            BY <1>1, <3>2, StoredRow DEF IntakeInvariant
    <2>2. CASE UNCHANGED lendingVars
        BY <2>2 DEF lendingVars, loanRequestVars
    <2>3. QED
        BY <1>5, <2>1, <2>2 DEF KeyStep, lookUpIdempotencyKey, dropCall
<1>6. CASE LoanRequestsNext
    <2>1. CASE \E r \in LoanRequestIds : LoanRequestStep(r) \/ DisbursementStep(r)
        BY <1>2, <1>3, <2>1
    <2>2. CASE UNCHANGED loanRequests
        BY <2>2
    <2>3. QED
        BY <1>6, <2>1, <2>2 DEF LoanRequestsNext, DepositStep, updateMemberType, loanRequestVars
<1>7. CASE managerChanges \/ UNCHANGED intakeVars
    BY <1>7 DEF managerChanges, intakeVars, lendingVars, loanRequestVars
<1>8. QED
    BY <1>4, <1>5, <1>6, <1>7 DEF LoanBatchesNext

LEMMA LentStepHolds ==
    ASSUME IntakeInvariant, [LoanBatchesNext]_intakeVars, NEW q \in Asked,
           loanRequests[q].disbursed = EmptyDate, loanRequests'[q].disbursed # EmptyDate,
           loanRequests[q].source = "member"
    PROVE  /\ loanRequests[q].proposed.principal <= ExactLimit(loanRequests[q].member)
           /\ memberStatus[loanRequests[q].member] = "active"
<1> DEFINE row == loanRequests[q]
           principal == row.proposed.principal
<1>1. DisbursementStep(q)
    BY LendingStep
<1>2. memberStatus[row.member] = "active" /\ WithinLimit(row, principal)
    BY <1>1 DEF DisbursementStep, disburseLoanRequestByID
<1>3. principal <= LoanLimit(row.member)
    BY <1>2 DEF WithinLimit
<1>4. principal \in Nat
    BY DEF IntakeInvariant, RequestsTyped, RequestOK, RowsWithPayoff, Proposals, Asked
<1>5. SavingsTyped
    BY DEF IntakeInvariant
<1> DEFINE m == row.member
<1> HIDE DEF principal, m
<1>6. LoanLimit(m) <= ExactLimit(m) /\ LoanLimit(m) \in Int /\ ExactLimit(m) \in Int
    BY <1>5, LimitHolds
<1>7. principal <= ExactLimit(m)
    BY <1>3, <1>4, <1>6 DEF m
<1>8. QED
    BY <1>2, <1>7 DEF principal, m

\* Whoever asked for a loan is lent no more than a multiple of what the member
\* has saved by then, although the product is computed in 64 bits, and only
\* while active.  (disburseLoanRequestByID, maxLoanAmountForMemberSavings)
THEOREM LentWithinLimitHolds == LoanBatchesSpec => LentWithinLimit
<1> DEFINE Holds ==
        \A q \in Asked :
            /\ loanRequests[q].disbursed = EmptyDate /\ loanRequests'[q].disbursed # EmptyDate
            /\ loanRequests[q].source = "member"
            => /\ loanRequests[q].proposed.principal <= ExactLimit(loanRequests[q].member)
               /\ memberStatus[loanRequests[q].member] = "active"
<1>1. IntakeInvariant /\ [LoanBatchesNext]_intakeVars => [Holds]_lendingVars
    BY LentStepHolds
<1>2. QED
    BY IntakeInvariantHolds, <1>1, PTL DEF LoanBatchesSpec, LentWithinLimit

-----------------------------------------------------------------------------
(***************************************************************************)
(* The tables keep the promise: each step of the handlers is a step of     *)
(* LoanPromise or leaves phases, debtors and deals alone.                  *)
(***************************************************************************)
Phase  == [q \in LoanRequestIds |-> PhaseOf(loanRequests[q])]
Debtor == [q \in LoanRequestIds |-> loanRequests[q].member]
Deal   == [q \in LoanRequestIds |-> loanRequests[q].proposed]

LEMMA OpenIsInFlight ==
    ASSUME NEW row, PhaseOf(row) \in Promise!OpenPhases
    PROVE  InFlight(row)
BY DEF PhaseOf, Promise!OpenPhases, InFlight

LEMMA PromiseStarts == LoanBatchesInit => Promise!PromiseInit
BY DEF LoanBatchesInit, LoanRequestsInit, NoLoanRequest, NewLoanRequest, PhaseOf,
       Promise!PromiseInit

LEMMA AskingPromises ==
    ASSUME RequestsTyped, NEW q \in LoanRequestIds, NEW m \in Members, AsksFor(q, m)
    PROVE  Promise!Ask({q}, {})
<1>1. \A other \in LoanRequestIds \ {q} :
          loanRequests'[other] = loanRequests[other] /\
          (loanRequests[other].member = m => PhaseOf(loanRequests[other]) \notin Promise!OpenPhases)
    BY OpenIsInFlight DEF AsksFor, HasRequestInFlight
<1>2. /\ PhaseOf(loanRequests[q]) = "none" /\ loanRequests[q].proposed = NoProposal
      /\ PhaseOf(loanRequests'[q]) = "asked" /\ loanRequests'[q].proposed = NoProposal
      /\ loanRequests'[q].member = m
    BY PhaseFacts DEF AsksFor, RequestsTyped, RequestOK
<1>3. QED
    BY <1>1, <1>2 DEF Promise!Ask, Promise!DealsMade

LEMMA MovingPromises ==
    ASSUME NEW q \in LoanRequestIds, MovesOnly(q)
    PROVE  [Promise!PromiseNext]_(Promise!promiseVars)
<1> DEFINE old == loanRequests[q]
           new == loanRequests'[q]
<1>1. /\ \A other \in LoanRequestIds \ {q} : loanRequests'[other] = loanRequests[other]
      /\ new.member = old.member
      /\ \/ /\ PhaseOf(old) = "asked" /\ PhaseOf(new) \in {"agreed", "approved"}
            /\ new.proposed \in Proposals \ {NoProposal}
         \/ /\ PhaseOf(old) = "agreed" /\ PhaseOf(new) \in {"agreed", "approved"}
            /\ new.proposed = old.proposed
         \/ /\ PhaseOf(old) = "approved" /\ PhaseOf(new) = "lent"
            /\ new.proposed = old.proposed
         \/ /\ PhaseOf(old) \in {"asked", "agreed", "approved"} /\ PhaseOf(new) = "closed"
            /\ new.proposed = old.proposed
    BY DEF MovesOnly, Moves, SameRequest
<1>2. /\ Debtor' = Debtor
      /\ Phase' = [Phase EXCEPT ![q] = PhaseOf(new)]
      /\ Deal' = [Deal EXCEPT ![q] = new.proposed]
    BY <1>1 DEF Phase, Debtor, Deal
<1>3. Deal[q] = old.proposed /\ Phase[q] = PhaseOf(old)
    BY DEF Deal, Phase
<1> HIDE DEF old, new
<1>4. CASE PhaseOf(old) = "asked" /\ PhaseOf(new) \in {"agreed", "approved"}
           /\ new.proposed \in Proposals \ {NoProposal}
    <2>1. Promise!DealsMade({q})
        BY <1>2, <1>4 DEF Promise!DealsMade, Deal
    <2>2. Promise!Agree(q)
        BY <1>2, <1>3, <1>4, <2>1 DEF Promise!Agree, Promise!Enter, Phase, Debtor
    <2>3. QED
        BY <2>2 DEF Promise!PromiseNext
<1>5. CASE new.proposed = old.proposed
           /\ ~(PhaseOf(old) = "asked" /\ PhaseOf(new) \in {"agreed", "approved"})
    <2>1. Deal' = Deal
        BY <1>2, <1>3, <1>5 DEF Deal
    <2>2. CASE PhaseOf(new) = PhaseOf(old)
        <3>1. Phase' = Phase
            BY <1>2, <1>3, <2>2 DEF Phase
        <3>2. QED
            BY <1>2, <2>1, <3>1 DEF Promise!promiseVars, Phase, Debtor, Deal
    <2>3. CASE PhaseOf(old) = "agreed" /\ PhaseOf(new) = "approved"
        <3>1. Promise!Approve(q)
            BY <1>2, <1>3, <2>1, <2>3 DEF Promise!Approve, Promise!Enter, Phase, Debtor, Deal
        <3>2. QED
            BY <3>1 DEF Promise!PromiseNext
    <2>4. CASE PhaseOf(old) = "approved" /\ PhaseOf(new) = "lent"
        <3>1. Promise!Lend(q)
            BY <1>2, <1>3, <2>1, <2>4 DEF Promise!Lend, Promise!Enter, Phase, Debtor, Deal
        <3>2. QED
            BY <3>1 DEF Promise!PromiseNext
    <2>5. CASE PhaseOf(old) \in {"asked", "agreed", "approved"} /\ PhaseOf(new) = "closed"
        <3>1. Promise!Close(q)
            BY <1>2, <1>3, <2>1, <2>5
               DEF Promise!Close, Promise!Enter, Promise!OpenPhases, Phase, Debtor, Deal
        <3>2. QED
            BY <3>1 DEF Promise!PromiseNext
    <2>6. QED
        BY <1>1, <1>5, <2>2, <2>3, <2>4, <2>5 DEF old, new
<1>6. QED
    BY <1>1, <1>4, <1>5 DEF old, new

\* A commit asks for the requests of its rows, and lends at once what it imports.
LEMMA CommittingPromises ==
    ASSUME RequestsTyped, NEW b, NEW ids, CommitMakes(b, ids)
    PROVE  \E asked, lent \in SUBSET LoanRequestIds :
               asked \cap lent = {} /\ Promise!Ask(asked, lent)
<1> DEFINE rows  == RowsOfBatch(b)
           lends == {n \in DOMAIN rows : isAutoApprovedLoanImportType(rows[n].type)}
<1>1. /\ ids \in [DOMAIN rows -> LoanRequestIds] /\ IsInjective(ids)
      /\ \A k, n \in DOMAIN rows : rows[k].member = rows[n].member => k = n
      /\ \A q \in LoanRequestIds : (\A n \in DOMAIN rows : ids[n] # q) =>
             loanRequests'[q] = loanRequests[q]
      /\ \A n \in DOMAIN rows : loanRequests[ids[n]].status = "none"
      /\ \A n \in DOMAIN rows : CreatedFrom(loanRequests'[ids[n]], rows[n])
      /\ \A n \in DOMAIN rows : validateAdminLoanRow(rows[n])
    BY DEF CommitMakes
<1>2. ASSUME NEW n \in DOMAIN rows
      PROVE  /\ ids[n] \in LoanRequestIds
             /\ PhaseOf(loanRequests[ids[n]]) = "none"
             /\ loanRequests[ids[n]].proposed = NoProposal
             /\ loanRequests'[ids[n]].member = rows[n].member /\ rows[n].member \in Members
             /\ IF n \in lends
                THEN PhaseOf(loanRequests'[ids[n]]) = "lent"
                     /\ loanRequests'[ids[n]].proposed \in Proposals \ {NoProposal}
                ELSE PhaseOf(loanRequests'[ids[n]]) = "asked"
                     /\ loanRequests'[ids[n]].proposed = NoProposal
    <2>1. /\ ids[n] \in LoanRequestIds /\ loanRequests[ids[n]].status = "none"
          /\ CreatedFrom(loanRequests'[ids[n]], rows[n])
        BY <1>1
    <2>2. /\ PhaseOf(loanRequests[ids[n]]) = "none"
          /\ loanRequests[ids[n]].proposed = NoProposal
        BY <2>1, PhaseFacts DEF RequestsTyped, RequestOK
    <2> HIDE DEF rows
    <2>3. QED
        BY <2>1, <2>2 DEF CreatedFrom
<1>3. ASSUME NEW n \in DOMAIN rows, NEW other \in LoanRequestIds,
             loanRequests[other].member = rows[n].member
      PROVE  PhaseOf(loanRequests[other]) \notin Promise!OpenPhases
    BY <1>1, <1>3, OpenIsInFlight DEF validateAdminLoanRow, HasRequestInFlight
<1> HIDE DEF rows
<1>4. PICK paid, fresh : /\ paid = {ids[n] : n \in lends}
                         /\ fresh = {ids[n] : n \in DOMAIN rows \ lends}
    OBVIOUS
<1>5. fresh \subseteq LoanRequestIds /\ paid \subseteq LoanRequestIds
    BY <1>2, <1>4
<1>6. fresh \cap paid = {}
    BY <1>1, <1>4 DEF IsInjective
<1>7. fresh \cup paid = {ids[n] : n \in DOMAIN rows}
    BY <1>4
<1>8. \A q \in LoanRequestIds \ (fresh \cup paid) : loanRequests'[q] = loanRequests[q]
    BY <1>1, <1>7
<1>9. \A q \in paid : /\ PhaseOf(loanRequests'[q]) = "lent"
                      /\ loanRequests'[q].proposed \in Proposals \ {NoProposal}
    BY <1>2, <1>4
<1>10. \A q \in fresh : /\ PhaseOf(loanRequests'[q]) = "asked" /\ PhaseOf(loanRequests[q]) = "none"
                       /\ loanRequests'[q].proposed = loanRequests[q].proposed
    BY <1>2, <1>4
<1>11. ASSUME NEW q \in fresh \cup paid
       PROVE  /\ PhaseOf(loanRequests[q]) = "none" /\ loanRequests'[q].member \in Members
              /\ \A other \in LoanRequestIds \ {q} :
                    loanRequests'[other].member = loanRequests'[q].member =>
                        /\ other \notin fresh \cup paid
                        /\ PhaseOf(loanRequests[other]) \notin Promise!OpenPhases
    <2>1. PICK n \in DOMAIN rows : q = ids[n]
        BY <1>7
    <2>2. /\ PhaseOf(loanRequests[q]) = "none" /\ loanRequests'[q].member = rows[n].member
          /\ rows[n].member \in Members
        BY <1>2, <2>1
    <2>3. ASSUME NEW other \in LoanRequestIds \ {q},
                 loanRequests'[other].member = loanRequests'[q].member
          PROVE  /\ other \notin fresh \cup paid
                 /\ PhaseOf(loanRequests[other]) \notin Promise!OpenPhases
        <3>1. other \notin fresh \cup paid
            <4>1. SUFFICES ASSUME other \in fresh \cup paid PROVE FALSE
                OBVIOUS
            <4>2. PICK k \in DOMAIN rows : other = ids[k]
                BY <1>7, <4>1
            <4>3. loanRequests'[other].member = rows[k].member
                BY <1>2, <4>2
            <4>4. QED
                BY <1>1, <2>1, <2>2, <2>3, <4>2, <4>3
        <3>2. loanRequests'[other] = loanRequests[other]
            BY <1>8, <3>1
        <3>3. QED
            BY <1>3, <2>2, <2>3, <3>1, <3>2
    <2>4. QED
        BY <2>2, <2>3
<1>12. Promise!DealsMade(paid)
    BY <1>5, <1>8, <1>9, <1>10 DEF Promise!DealsMade
<1>13. Promise!Ask(fresh, paid)
    BY <1>5, <1>6, <1>8, <1>9, <1>10, <1>11, <1>12 DEF Promise!Ask
<1>14. QED
    BY <1>5, <1>6, <1>13

LEMMA PromiseSteps ==
    ASSUME IntakeInvariant, [LoanBatchesNext]_intakeVars
    PROVE  [Promise!PromiseNext]_(Promise!promiseVars)
<1>1. RequestsTyped
    BY DEF IntakeInvariant
<1>2. CASE UNCHANGED loanRequests
    BY <1>2 DEF Promise!promiseVars
<1>3. ASSUME NEW q \in LoanRequestIds, OneRequest(q)
      PROVE  [Promise!PromiseNext]_(Promise!promiseVars)
    <2>1. CASE MovesOnly(q)
        BY <2>1, MovingPromises
    <2>2. ASSUME NEW m \in Members, AsksFor(q, m)
          PROVE  [Promise!PromiseNext]_(Promise!promiseVars)
        <3>1. Promise!Ask({q}, {})
            BY <1>1, <2>2, AskingPromises
        <3>2. \E asked, lent \in SUBSET LoanRequestIds :
                  asked \cap lent = {} /\ Promise!Ask(asked, lent)
            BY <3>1
        <3>3. QED
            BY <3>2 DEF Promise!PromiseNext
    <2>3. QED
        BY <1>3, <2>1, <2>2 DEF OneRequest
<1>4. ASSUME NEW b \in BatchIds, Commits(b)
      PROVE  [Promise!PromiseNext]_(Promise!promiseVars)
    <2>1. PICK ids : CommitMakes(b, ids)
        BY <1>4, CommitsFact DEF IntakeInvariant
    <2>2. \E asked, lent \in SUBSET LoanRequestIds :
              asked \cap lent = {} /\ Promise!Ask(asked, lent)
        BY <1>1, <2>1, CommittingPromises
    <2>3. QED
        BY <2>2 DEF Promise!PromiseNext
<1>5. QED
    BY <1>2, <1>3, <1>4, Steps

\* Whoever enters, decides on, overrides or pays out a request: terms are agreed
\* on once and never change afterwards, what was approved is lent once or not at
\* all, and no member has two requests open at a time.
THEOREM ImplementsPromiseHolds == LoanBatchesSpec => ImplementsPromise
<1>1. IntakeInvariant /\ [LoanBatchesNext]_intakeVars
          => [Promise!PromiseNext]_(Promise!promiseVars)
    BY PromiseSteps
<1>2. QED
    BY IntakeInvariantHolds, PromiseStarts, <1>1, PTL
       DEF LoanBatchesSpec, ImplementsPromise, Promise!PromiseSpec

-----------------------------------------------------------------------------
(***************************************************************************)
(* The stages of the chain, one after the other.                           *)
(***************************************************************************)
LEMMA StagesInOrder ==
    /\ LoanStagesBefore("manager") = {}
    /\ LoanStagesBefore("ketua_ii") = {"manager"}
    /\ LoanStagesBefore("ketua_i") = LoanStagesBefore("ketua_ii") \cup {"ketua_ii"}
    /\ LoanStagesBefore("ketua_utama") = LoanStagesBefore("ketua_i") \cup {"ketua_i"}
    /\ LoanStagesBefore("ketua_utama") = Stages \ {"ketua_utama"}
    /\ Stages = (Stages \ {"ketua_utama"}) \cup {"ketua_utama"}
BY DEF LoanStagesBefore, Stages

LEMMA NobodyApproved == ApprovedBy({}) = EmptyHistory
BY DEF ApprovedBy, EmptyHistory

LEMMA OneMoreApproved ==
    ASSUME NEW stages, NEW x \in Stages
    PROVE  insertApprovalDecision(ApprovedBy(stages), x, "approved") = ApprovedBy(stages \cup {x})
BY DEF insertApprovalDecision, ApprovedBy

-----------------------------------------------------------------------------
(***************************************************************************)
(* The inductive invariant.  It adds to what a run checks that decisions,  *)
(* overrides and notices are those of nothing before a request is asked    *)
(* for, that a pending request has no override, and that an imported one   *)
(* was paid out at once.                                                   *)
(***************************************************************************)
StoryOK(row, history, override) ==
    /\ row.status = "none" => history = EmptyHistory /\ override = NoStage
    /\ row.imported => row.status = "approved" /\ row.disbursed # EmptyDate
    /\ row.status = "pending" => override = NoStage
    /\ row.status # "none" => ChainOf(row, history, override)

ToldOK(row, notices, batch) ==
    row.status # "none" =>
        notices = LoanNoticesFor(row) \ (IF batch /\ row.status = "pending" THEN {"manager"} ELSE {})

StoriesHold ==
    /\ loanApprovals = [q \in LoanRequestIds |-> loanApprovals[q]]
    /\ loanOverrides = [q \in LoanRequestIds |-> loanOverrides[q]]
    /\ loanNotices = [q \in LoanRequestIds |-> loanNotices[q]]
    /\ \A q \in LoanRequestIds :
          /\ StoryOK(loanRequests[q], loanApprovals[q], loanOverrides[q])
          /\ ToldOK(loanRequests[q], loanNotices[q], FromBatch(q))

\* What a pending request has behind it.
LEMMA Pending ==
    ASSUME NEW row, RequestOK(row), row.status = "pending",
           NEW history, NEW override, StoryOK(row, history, override)
    PROVE  /\ override = NoStage /\ ~row.imported /\ row.stage \in Stages
           /\ row.disbursed = EmptyDate
           /\ history = ApprovedBy(LoanStagesBefore(row.stage))
           /\ row.stage # "manager" => row.stage \in StagesFor(row)
<1>1. /\ override = NoStage /\ row.stage \in Stages
      /\ row.disbursed = EmptyDate /\ ~row.imported
    BY DEF StoryOK, RequestOK
<1>2. ChainOf(row, history, override)
    BY DEF StoryOK
<1>3. QED
    BY <1>1, <1>2 DEF ChainOf

\* A request that waits at a stage after the manager's.
LEMMA WaitingStory ==
    ASSUME NEW row, row.status = "pending", ~row.imported,
           row.stage \in Stages, row.stage \in StagesFor(row)
    PROVE  StoryOK(row, ApprovedBy(LoanStagesBefore(row.stage)), NoStage)
BY DEF StoryOK, ChainOf

\* A request that all officers approved.
LEMMA AgreedStory ==
    ASSUME NEW row, row.status = "approved", ~row.imported
    PROVE  StoryOK(row, ApprovedBy(StagesFor(row)), NoStage)
BY DEF StoryOK, ChainOf

\* A request on which a super admin had the last word.
LEMMA OverriddenStory ==
    ASSUME NEW row, row.status \in {"approved", "rejected"}, ~row.imported,
           NEW stage \in Stages, stage # "manager" => stage \in StagesFor(row)
    PROVE  StoryOK(row, ApprovedBy(LoanStagesBefore(stage)), stage)
BY DEF StoryOK, ChainOf, NoStage, Stages

\* A request that an officer turned down.
LEMMA RejectedStory ==
    ASSUME NEW row, row.status = "rejected", ~row.imported, NEW stage \in Stages
    PROVE  StoryOK(row, insertApprovalDecision(ApprovedBy(LoanStagesBefore(stage)), stage, "rejected"),
                   NoStage)
BY DEF StoryOK, ChainOf

\* A request that was taken back.
LEMMA CancelledStory ==
    ASSUME NEW row, row.status = "cancelled", ~row.imported, NEW stage \in Stages
    PROVE  StoryOK(row, ApprovedBy(LoanStagesBefore(stage)), NoStage)
BY DEF StoryOK, ChainOf

\* A request that was just asked for.
LEMMA AskedStory ==
    ASSUME NEW row, row.status = "pending", row.stage = "manager", ~row.imported
    PROVE  StoryOK(row, EmptyHistory, NoStage)
BY StagesInOrder, NobodyApproved DEF StoryOK, ChainOf, Stages

LEMMA ImportedStory ==
    ASSUME NEW row, row.status = "approved", row.imported, row.disbursed # EmptyDate
    PROVE  StoryOK(row, EmptyHistory, NoStage)
BY DEF StoryOK, ChainOf

\* A request whose status, stage and terms did not change has the same story.
LEMMA SameStory ==
    ASSUME NEW row, NEW history, NEW override, StoryOK(row, history, override), NEW new,
           new.status = row.status, new.stage = row.stage, new.imported = row.imported,
           new.proposed = row.proposed, row.disbursed # EmptyDate => new.disbursed # EmptyDate
    PROVE  StoryOK(new, history, override)
BY DEF StoryOK, ChainOf, StagesFor

-----------------------------------------------------------------------------
(***************************************************************************)
(* The columns that a handler leaves alone.                                *)
(***************************************************************************)
SameAsked(new, old) ==
    /\ SameRequest(new, old)
    /\ new.duration = old.duration /\ new.disbursed = old.disbursed /\ new.loan = old.loan

LEMMA ApprovedColumns ==
    ASSUME NEW row, RequestOK(row), NEW new, new = LoanApproved(row)
    PROVE  /\ SameAsked(new, row) /\ new.status = "approved" /\ new.proposed = row.proposed
BY DEF LoanApproved, RequestOK, RowsWithPayoff, SameAsked, SameRequest

LEMMA ClosedColumns ==
    ASSUME NEW row, RequestOK(row), NEW status, NEW new, new = LoanClosed(row, status)
    PROVE  /\ SameAsked(new, row) /\ new.status = status /\ new.proposed = row.proposed
BY DEF LoanClosed, RequestOK, RowsWithPayoff, SameAsked, SameRequest

LEMMA AskedColumns ==
    ASSUME NEW m, NEW source, NEW input, NEW new, new = NewLoanRequest(m, source, input)
    PROVE  /\ new.status = "pending" /\ new.stage = "manager" /\ new.source = source
           /\ ~new.imported /\ new.disbursed = EmptyDate /\ new.loan = NoLoanId
BY DEF NewLoanRequest

LEMMA ImportedColumns ==
    ASSUME NEW row, NEW l, NEW new, new = ImportedRequest(row, l)
    PROVE  /\ new.status = "approved" /\ new.imported /\ new.disbursed = Today /\ new.loan = l
           /\ new.member = row.member /\ new.type = row.type
           /\ new.proposed = Proposal(ImportedTerms(row))
<1> DEFINE asked == NewLoanRequest(row.member, "admin", InputOf(row))
<1>1. new = [asked EXCEPT !.status = "approved", !.stage = NoStage, !.imported = TRUE,
                          !.reviewed = TRUE, !.proposed = Proposal(ImportedTerms(row)),
                          !.disbursed = Today, !.loan = l]
    BY DEF ImportedRequest
<1>2. asked.member = row.member /\ asked.type = row.type
      /\ DOMAIN asked = {"status", "stage", "member", "source", "imported", "type", "requested",
                         "duration", "requestedFee", "proposed", "settle", "payoff", "reviewed",
                         "disbursed", "loan"}
    BY DEF NewLoanRequest, InputOf
<1> DEFINE deal == Proposal(ImportedTerms(row))
<1> HIDE DEF asked, deal
<1>3. new = [asked EXCEPT !.status = "approved", !.stage = NoStage, !.imported = TRUE,
                          !.reviewed = TRUE, !.proposed = deal, !.disbursed = Today, !.loan = l]
    BY <1>1 DEF deal
<1>4. /\ new.status = "approved" /\ new.imported /\ new.disbursed = Today /\ new.loan = l
      /\ new.member = row.member /\ new.type = row.type /\ new.proposed = deal
    BY <1>2, <1>3
<1>5. QED
    BY <1>4 DEF deal

-----------------------------------------------------------------------------
(***************************************************************************)
(* Whom the new notices address.                                           *)
(***************************************************************************)
LEMMA Notices ==
    \A notices, audiences :
        createNotifications(resolveRequestNotifications(notices), audiences) = audiences
BY DEF createNotifications, resolveRequestNotifications

LEMMA ForwardedTold ==
    ASSUME NEW row, row.status = "pending", row.stage \in Stages \ {"manager", "ketua_ii"},
           NEW batch
    PROVE  ToldOK(row, {row.stage}, batch)
BY DEF ToldOK, LoanNoticesFor

LEMMA ManagerTold ==
    ASSUME NEW row, row.status = "pending", row.stage = "ketua_ii", NEW batch
    PROVE  ToldOK(row, {"ketua_ii"} \cup IF TermsChanged(row) THEN {"member"} ELSE {}, batch)
<1>1. LoanNoticesFor(row) = {"ketua_ii"} \cup (IF TermsChanged(row) THEN {"member"} ELSE {})
    BY DEF LoanNoticesFor
<1>2. QED
    BY <1>1 DEF ToldOK

LEMMA OutcomeTold ==
    ASSUME NEW row, row.disbursed = EmptyDate, NEW batch
    PROVE  /\ row.status = "approved" => ToldOK(row, {"member", "bendahara"}, batch)
           /\ row.status = "rejected" => ToldOK(row, {"member"}, batch)
           /\ row.status = "cancelled" => ToldOK(row, {}, batch)
BY DEF ToldOK, LoanNoticesFor

LEMMA LentTold ==
    ASSUME NEW row, row.status = "approved", row.disbursed # EmptyDate, NEW batch
    PROVE  ToldOK(row, {"member"}, batch)
BY DEF ToldOK, LoanNoticesFor

LEMMA AskedTold ==
    ASSUME NEW row, row.status = "pending", row.stage = "manager"
    PROVE  /\ row.source = "member" => ToldOK(row, {"manager"}, FALSE)
           /\ row.source = "admin" =>
                 ToldOK(row, {"manager", "member"}, FALSE) /\ ToldOK(row, {"member"}, TRUE)
BY DEF ToldOK, LoanNoticesFor

-----------------------------------------------------------------------------
(***************************************************************************)
(* A handler that decides on one request.                                  *)
(***************************************************************************)
\* A column or table of requests changes in one place.
OnlyAt(new, old, q, value) ==
    /\ new = [r \in LoanRequestIds |-> new[r]] /\ new[q] = value
    /\ \A r \in LoanRequestIds \ {q} : new[r] = old[r]

\* Request q, its decisions, override and notices change, and agree afterwards.
StoryMove(q, new) ==
    /\ OnlyAt(loanRequests', loanRequests, q, new)
    /\ OnlyAt(loanApprovals', loanApprovals, q, loanApprovals'[q])
    /\ OnlyAt(loanOverrides', loanOverrides, q, loanOverrides'[q])
    /\ OnlyAt(loanNotices', loanNotices, q, loanNotices'[q])
    /\ StoryOK(new, loanApprovals'[q], loanOverrides'[q])
    /\ \A batch \in BOOLEAN : (batch => loanRequests[q].status # "none") =>
           ToldOK(new, loanNotices'[q], batch)

LEMMA StoredAt ==
    ASSUME RequestsTyped, NEW q \in LoanRequestIds, NEW row, Stored(q, row)
    PROVE  OnlyAt(loanRequests', loanRequests, q, row)
BY StoredRow DEF OnlyAt

LEMMA DecidedAt ==
    ASSUME StoriesHold, NEW q \in LoanRequestIds, NEW stage, NEW decision,
           LoanDecided(q, stage, decision)
    PROVE  OnlyAt(loanApprovals', loanApprovals, q,
                  insertApprovalDecision(loanApprovals[q], stage, decision))
BY DEF StoriesHold, LoanDecided, OnlyAt

LEMMA OverriddenAt ==
    ASSUME StoriesHold, NEW q \in LoanRequestIds, LoanOverridden(q)
    PROVE  OnlyAt(loanOverrides', loanOverrides, q, loanRequests[q].stage)
BY DEF StoriesHold, LoanOverridden, OnlyAt

LEMMA NotifiedAt ==
    ASSUME StoriesHold, NEW q \in LoanRequestIds, NEW audiences, LoanNotified(q, audiences)
    PROVE  OnlyAt(loanNotices', loanNotices, q, audiences)
BY Notices DEF StoriesHold, LoanNotified, OnlyAt

LEMMA UntouchedAt ==
    ASSUME StoriesHold, NEW q \in LoanRequestIds
    PROVE  /\ UNCHANGED loanApprovals => OnlyAt(loanApprovals', loanApprovals, q, loanApprovals[q])
           /\ UNCHANGED loanOverrides => OnlyAt(loanOverrides', loanOverrides, q, loanOverrides[q])
BY DEF StoriesHold, OnlyAt

LEMMA MoveOf ==
    ASSUME NEW q \in LoanRequestIds, NEW new, NEW history, NEW override, NEW audiences,
           OnlyAt(loanRequests', loanRequests, q, new),
           OnlyAt(loanApprovals', loanApprovals, q, history),
           OnlyAt(loanOverrides', loanOverrides, q, override),
           OnlyAt(loanNotices', loanNotices, q, audiences),
           StoryOK(new, history, override),
           \A batch \in BOOLEAN : (batch => loanRequests[q].status # "none") =>
               ToldOK(new, audiences, batch)
    PROVE  StoryMove(q, new)
<1>1. /\ loanApprovals'[q] = history /\ loanOverrides'[q] = override
      /\ loanNotices'[q] = audiences
    BY DEF OnlyAt
<1>2. QED
    BY <1>1 DEF StoryMove

\* The manager fixes the terms.
LEMMA ManagerStory ==
    ASSUME RequestsTyped, StoriesHold, NEW q \in LoanRequestIds,
           NEW offer \in Offers, NEW settle \in BOOLEAN,
           LoanWaitsFor(q, "manager"), LoanDecided(q, "manager", "approved"),
           approveByManager(q, offer, settle), UNCHANGED loanOverrides
    PROVE  \E new : StoryMove(q, new) /\ SameAsked(new, loanRequests[q])
<1> DEFINE row   == loanRequests[q]
           terms == LoanTerms(row, offer.amount, offer.duration)
           mid   == Proposed(row, terms, settle)
           new   == [mid EXCEPT !.stage = "ketua_ii"]
           told  == {"ketua_ii"} \cup IF TermsChanged(mid) THEN {"member"} ELSE {}
<1>1. /\ RequestOK(row) /\ row.status = "pending" /\ row.stage = "manager"
      /\ Stored(q, new) /\ LoanNotified(q, told)
    BY LoanStages DEF RequestsTyped, LoanWaitsFor, approveByManager
<1>2. /\ loanOverrides[q] = NoStage /\ ~row.imported
      /\ loanApprovals[q] = ApprovedBy(LoanStagesBefore("manager"))
    <2>1. StoryOK(row, loanApprovals[q], loanOverrides[q])
        BY DEF StoriesHold
    <2> HIDE DEF row
    <2>2. QED
        BY <1>1, <2>1, Pending
<1>3. /\ SameAsked(new, row) /\ new.stage = "ketua_ii" /\ new.status = row.status
      /\ TermsChanged(new) <=> TermsChanged(mid)
    <2> DEFINE settles == settle /\ row.type = "regular"
               payoff  == IF settles THEN PayoffOf(OutstandingRegular(row.member)) ELSE 0
               deal    == Proposal(terms)
    <2>1. mid = [row EXCEPT !.proposed = deal, !.settle = settles, !.payoff = payoff]
        BY DEF Proposed
    <2>2. RequestOK(row)
        BY <1>1
    <2> HIDE DEF row, terms, settles, payoff, deal, mid
    <2>3. SameAsked(mid, row) /\ mid.proposed = deal
        BY <2>1, <2>2 DEF RequestOK, RowsWithPayoff, SameAsked, SameRequest
    <2>4. new = [row EXCEPT !.proposed = deal, !.settle = settles, !.payoff = payoff,
                            !.stage = "ketua_ii"]
        BY <2>1
    <2> HIDE DEF new
    <2>5. /\ SameAsked(new, row) /\ new.stage = "ketua_ii" /\ new.status = row.status
          /\ new.proposed = deal
        BY <2>2, <2>4 DEF RequestOK, RowsWithPayoff, SameAsked, SameRequest
    <2>6. TermsChanged(new) <=> TermsChanged(mid)
        BY <2>3, <2>5 DEF TermsChanged, SameAsked, SameRequest
    <2>7. QED
        BY <2>5, <2>6
<1> HIDE DEF new, mid, terms
<1>4. insertApprovalDecision(loanApprovals[q], "manager", "approved")
          = ApprovedBy(LoanStagesBefore("ketua_ii"))
    <2>1. insertApprovalDecision(ApprovedBy(LoanStagesBefore("manager")), "manager", "approved")
              = ApprovedBy(LoanStagesBefore("manager") \cup {"manager"})
        BY OneMoreApproved DEF Stages
    <2>2. LoanStagesBefore("manager") \cup {"manager"} = LoanStagesBefore("ketua_ii")
        BY StagesInOrder
    <2>3. QED
        BY <1>2, <2>1, <2>2
<1>5. StoryOK(new, ApprovedBy(LoanStagesBefore("ketua_ii")), NoStage)
    <2>1. /\ new.status = "pending" /\ ~new.imported /\ new.stage \in Stages
          /\ new.stage \in StagesFor(new)
        BY <1>1, <1>2, <1>3 DEF SameAsked, SameRequest, Stages, StagesFor
    <2>2. QED
        BY <1>3, <2>1, WaitingStory
<1>6. \A batch : ToldOK(new, told, batch)
    BY <1>1, <1>3, ManagerTold
<1> HIDE DEF told
<1>7. StoryMove(q, new)
    BY <1>1, <1>2, <1>4, <1>5, <1>6, MoveOf, StoredAt, DecidedAt, NotifiedAt, UntouchedAt
<1>8. QED
    BY <1>3, <1>7

\* A stage after the manager's approves.
LEMMA NextStages ==
    ASSUME NEW row, row.proposed.principal \in Nat,
           NEW stage \in Stages, stage \in StagesFor(row), stage # "manager",
           NEW next, next = nextLoanApprovalStageForAmount(stage, row.proposed.principal)
    PROVE  /\ next = NoStage => LoanStagesBefore(stage) \cup {stage} = StagesFor(row)
           /\ next # NoStage =>
                 /\ LoanStagesBefore(stage) \cup {stage} = LoanStagesBefore(next)
                 /\ next \in Stages \ {"manager", "ketua_ii"} /\ next \in StagesFor(row)
<1>1. CASE stage = "ketua_ii"
    <2>1. next = "ketua_i"
        BY <1>1 DEF nextLoanApprovalStageForAmount, nextLoanApprovalStage
    <2>2. QED
        BY <1>1, <2>1, StagesInOrder DEF StagesFor, Stages, NoStage
<1>2. CASE stage = "ketua_i"
    <2>1. next = IF row.proposed.principal < ketuaUtamaLoanApprovalThreshold THEN NoStage
                 ELSE "ketua_utama"
        BY <1>2 DEF nextLoanApprovalStageForAmount, nextLoanApprovalStage
    <2>2. row.proposed.principal < ketuaUtamaLoanApprovalThreshold
              <=> ~(row.proposed.principal >= ketuaUtamaLoanApprovalThreshold)
        BY LoanRequestsAssumption
    <2>3. CASE row.proposed.principal < ketuaUtamaLoanApprovalThreshold
        BY <1>2, <2>1, <2>2, <2>3, StagesInOrder DEF StagesFor
    <2>4. CASE ~(row.proposed.principal < ketuaUtamaLoanApprovalThreshold)
        <3>1. next = "ketua_utama" /\ StagesFor(row) = Stages
            BY <2>1, <2>2, <2>4 DEF StagesFor
        <3>2. QED
            BY <1>2, <3>1, StagesInOrder DEF Stages, NoStage
    <2>5. QED
        BY <2>3, <2>4
<1>3. CASE stage = "ketua_utama"
    <2>1. next = NoStage
        BY <1>3 DEF nextLoanApprovalStageForAmount, nextLoanApprovalStage
    <2>2. StagesFor(row) = Stages
        BY <1>3 DEF StagesFor
    <2>3. QED
        BY <1>3, <2>1, <2>2, StagesInOrder
<1>4. QED
    BY <1>1, <1>2, <1>3 DEF Stages

LEMMA OfficerStory ==
    ASSUME RequestsTyped, StoriesHold, NEW q \in LoanRequestIds, NEW stage, stage # "manager",
           LoanWaitsFor(q, stage), LoanDecided(q, stage, "approved"),
           approveAfterManager(q, stage), UNCHANGED loanOverrides
    PROVE  \E new : StoryMove(q, new) /\ SameAsked(new, loanRequests[q])
<1> DEFINE row     == loanRequests[q]
           next    == nextLoanApprovalStageForAmount(stage, row.proposed.principal)
           history == insertApprovalDecision(loanApprovals[q], stage, "approved")
<1>1. RequestOK(row) /\ row.status = "pending" /\ row.stage = stage
    BY DEF RequestsTyped, LoanWaitsFor
<1>2. /\ loanOverrides[q] = NoStage /\ ~row.imported /\ row.disbursed = EmptyDate
      /\ loanApprovals[q] = ApprovedBy(LoanStagesBefore(stage))
      /\ stage \in Stages /\ stage \in StagesFor(row)
    <2>1. StoryOK(row, loanApprovals[q], loanOverrides[q])
        BY DEF StoriesHold
    <2> HIDE DEF row
    <2>2. QED
        BY <1>1, <2>1, Pending
<1>3. history = ApprovedBy(LoanStagesBefore(stage) \cup {stage})
    BY <1>2, OneMoreApproved
<1>4. /\ next = NoStage => LoanStagesBefore(stage) \cup {stage} = StagesFor(row)
      /\ next # NoStage =>
            /\ LoanStagesBefore(stage) \cup {stage} = LoanStagesBefore(next)
            /\ next \in Stages \ {"manager", "ketua_ii"} /\ next \in StagesFor(row)
    <2>1. row.proposed.principal \in Nat
        BY <1>1 DEF RequestOK, RowsWithPayoff, Proposals
    <2> HIDE DEF row
    <2>2. QED
        BY <1>2, <2>1, NextStages
<1> HIDE DEF history
<1>5. /\ OnlyAt(loanApprovals', loanApprovals, q, history)
      /\ OnlyAt(loanOverrides', loanOverrides, q, NoStage)
    BY <1>2, DecidedAt, UntouchedAt DEF history
<1>6. CASE next # NoStage
    <2> DEFINE new == [row EXCEPT !.stage = next]
    <2>1. Stored(q, new) /\ LoanNotified(q, {next})
        BY <1>6 DEF approveAfterManager
    <2> HIDE DEF row, next
    <2>2. /\ SameAsked(new, row) /\ new.stage = next /\ new.status = row.status
          /\ new.proposed = row.proposed
        BY <1>1 DEF RequestOK, RowsWithPayoff, SameAsked, SameRequest
    <2> HIDE DEF new
    <2>3. StoryOK(new, history, NoStage)
        <3>1. /\ new.status = "pending" /\ ~new.imported /\ new.stage \in Stages
              /\ new.stage \in StagesFor(new)
            BY <1>1, <1>2, <1>4, <1>6, <2>2 DEF SameAsked, SameRequest, StagesFor
        <3>2. history = ApprovedBy(LoanStagesBefore(new.stage))
            BY <1>3, <1>4, <1>6, <2>2
        <3>3. QED
            BY <3>1, <3>2, WaitingStory
    <2>4. \A batch : ToldOK(new, {next}, batch)
        BY <1>1, <1>4, <1>6, <2>2, ForwardedTold
    <2>5. StoryMove(q, new)
        BY <1>5, <2>1, <2>3, <2>4, MoveOf, StoredAt, NotifiedAt
    <2>6. QED
        BY <2>2, <2>5 DEF row
<1>7. CASE next = NoStage
    <2> DEFINE new == LoanApproved(row)
    <2>1. Stored(q, new) /\ LoanNotified(q, {"member", "bendahara"})
        BY <1>7 DEF approveAfterManager
    <2>2. SameAsked(new, row) /\ new.status = "approved" /\ new.proposed = row.proposed
        BY <1>1, ApprovedColumns
    <2> HIDE DEF new
    <2>3. StoryOK(new, history, NoStage)
        <3>1. StagesFor(new) = StagesFor(row) /\ ~new.imported
            BY <1>2, <2>2 DEF StagesFor, SameAsked, SameRequest
        <3>2. history = ApprovedBy(StagesFor(new))
            BY <1>3, <1>4, <1>7, <3>1
        <3>3. QED
            BY <2>2, <3>1, <3>2, AgreedStory
    <2>4. \A batch : ToldOK(new, {"member", "bendahara"}, batch)
        BY <1>2, <2>2, OutcomeTold DEF SameAsked
    <2>5. StoryMove(q, new)
        BY <1>5, <2>1, <2>3, <2>4, MoveOf, StoredAt, NotifiedAt
    <2>6. QED
        BY <2>2, <2>5
<1>8. QED
    BY <1>6, <1>7

\* An officer or the super admin turns a request down, or it is taken back.
LEMMA RejectionStory ==
    ASSUME RequestsTyped, StoriesHold, NEW q \in LoanRequestIds, NEW role,
           rejectLoanRequestByID(q, role)
    PROVE  \E new : StoryMove(q, new) /\ SameAsked(new, loanRequests[q])
<1> DEFINE row     == loanRequests[q]
           stage   == row.stage
           new     == LoanClosed(row, "rejected")
           history == insertApprovalDecision(loanApprovals[q], stage, "rejected")
<1>1. /\ RequestOK(row) /\ row.status = "pending" /\ LoanDecided(q, stage, "rejected")
      /\ Stored(q, new) /\ LoanNotified(q, {"member"}) /\ UNCHANGED loanOverrides
    BY DEF RequestsTyped, rejectLoanRequestByID, LoanWaitsFor
<1>2. /\ loanOverrides[q] = NoStage /\ ~row.imported /\ row.disbursed = EmptyDate
      /\ loanApprovals[q] = ApprovedBy(LoanStagesBefore(stage)) /\ stage \in Stages
    <2>1. StoryOK(row, loanApprovals[q], loanOverrides[q])
        BY DEF StoriesHold
    <2> HIDE DEF row
    <2>2. QED
        BY <1>1, <2>1, Pending
<1>3. SameAsked(new, row) /\ new.status = "rejected"
    BY <1>1, ClosedColumns
<1> HIDE DEF new
<1>4. StoryOK(new, history, NoStage)
    BY <1>2, <1>3, RejectedStory DEF SameAsked, SameRequest
<1>5. \A batch : ToldOK(new, {"member"}, batch)
    BY <1>2, <1>3, OutcomeTold DEF SameAsked
<1> HIDE DEF history
<1>6. StoryMove(q, new)
    BY <1>1, <1>2, <1>4, <1>5, MoveOf, StoredAt, DecidedAt, NotifiedAt, UntouchedAt DEF history
<1>7. QED
    BY <1>3, <1>6

LEMMA CancellationStory ==
    ASSUME RequestsTyped, StoriesHold, NEW q \in LoanRequestIds,
           loanRequests[q].status = "pending",
           Stored(q, LoanClosed(loanRequests[q], "cancelled")), LoanNotified(q, {}),
           UNCHANGED <<loanApprovals, loanOverrides>>
    PROVE  \E new : StoryMove(q, new) /\ SameAsked(new, loanRequests[q])
<1> DEFINE row     == loanRequests[q]
           stage   == row.stage
           new     == LoanClosed(row, "cancelled")
<1>1. RequestOK(row) /\ row.status = "pending" /\ Stored(q, new)
    BY DEF RequestsTyped
<1>2. /\ loanOverrides[q] = NoStage /\ ~row.imported /\ row.disbursed = EmptyDate
      /\ loanApprovals[q] = ApprovedBy(LoanStagesBefore(stage)) /\ stage \in Stages
    <2>1. StoryOK(row, loanApprovals[q], loanOverrides[q])
        BY DEF StoriesHold
    <2> HIDE DEF row
    <2>2. QED
        BY <1>1, <2>1, Pending
<1>3. SameAsked(new, row) /\ new.status = "cancelled"
    BY <1>1, ClosedColumns
<1> HIDE DEF new
<1>4. StoryOK(new, loanApprovals[q], NoStage)
    BY <1>2, <1>3, CancelledStory DEF SameAsked, SameRequest
<1>5. \A batch : ToldOK(new, {}, batch)
    BY <1>2, <1>3, OutcomeTold DEF SameAsked
<1>6. StoryMove(q, new)
    BY <1>1, <1>2, <1>4, <1>5, MoveOf, StoredAt, NotifiedAt, UntouchedAt
<1>7. QED
    BY <1>3, <1>6

\* A super admin has the last word on a pending request.
LEMMA OverrideStory ==
    ASSUME RequestsTyped, StoriesHold, NEW q \in LoanRequestIds, LoanOverridden(q),
           NEW new, Stored(q, new), SameAsked(new, loanRequests[q]),
           new.status \in {"approved", "rejected"},
           loanRequests[q].stage # "manager" => new.proposed = loanRequests[q].proposed,
           LoanNotified(q, IF new.status = "approved" THEN {"member", "bendahara"} ELSE {"member"}),
           UNCHANGED loanApprovals
    PROVE  StoryMove(q, new)
<1> DEFINE row  == loanRequests[q]
           told == IF new.status = "approved" THEN {"member", "bendahara"} ELSE {"member"}
<1>1. RequestOK(row) /\ row.status = "pending"
    BY DEF RequestsTyped, LoanOverridden
<1>2. /\ ~row.imported /\ row.disbursed = EmptyDate /\ row.stage \in Stages
      /\ loanApprovals[q] = ApprovedBy(LoanStagesBefore(row.stage))
      /\ row.stage # "manager" => row.stage \in StagesFor(row)
    <2>1. StoryOK(row, loanApprovals[q], loanOverrides[q])
        BY DEF StoriesHold
    <2> HIDE DEF row
    <2>2. QED
        BY <1>1, <2>1, Pending
<1>3. StoryOK(new, ApprovedBy(LoanStagesBefore(row.stage)), row.stage)
    <2>1. row.stage # "manager" => row.stage \in StagesFor(new)
        BY <1>2 DEF StagesFor
    <2>2. ~new.imported
        BY <1>2 DEF SameAsked, SameRequest
    <2> HIDE DEF row
    <2>3. QED
        BY <1>2, <2>1, <2>2, OverriddenStory
<1>4. \A batch : ToldOK(new, told, batch)
    BY <1>2, OutcomeTold DEF SameAsked
<1> HIDE DEF told
<1>5. LoanNotified(q, told)
    BY DEF told
<1>6. QED
    BY <1>2, <1>3, <1>4, <1>5, MoveOf, StoredAt, OverriddenAt, NotifiedAt, UntouchedAt

LEMMA OverridesStory ==
    ASSUME RequestsTyped, StoriesHold, NEW q \in LoanRequestIds, NEW offer \in Offers,
           overrideLoanRequestByID(q, offer)
    PROVE  \E new : StoryMove(q, new) /\ SameAsked(new, loanRequests[q])
<1> DEFINE row  == loanRequests[q]
           deal == Proposal(OverrideTerms(row, offer))
           new  == LoanApproved([row EXCEPT !.proposed = deal])
<1>1. /\ LoanOverridden(q) /\ Stored(q, new) /\ RequestOK(row)
      /\ LoanNotified(q, {"member", "bendahara"}) /\ UNCHANGED loanApprovals
    BY DEF overrideLoanRequestByID, RequestsTyped
<1>2. MovesOnly(q)
    BY OverrideMoves
<1>3. loanRequests'[q] = new
    BY <1>1, StoredRow
<1> HIDE DEF deal
<1>4. SameAsked(new, row) /\ new.status = "approved"
    BY <1>1 DEF LoanApproved, RequestOK, RowsWithPayoff, SameAsked, SameRequest
<1> HIDE DEF new
<1>5. row.stage # "manager" => new.proposed = row.proposed
    <2>1. SUFFICES ASSUME row.stage # "manager" PROVE new.proposed = row.proposed
        OBVIOUS
    <2>2. row.status = "pending" /\ row.proposed # NoProposal
        BY <1>1, <2>1 DEF LoanOverridden, RequestOK
    <2>3. PhaseOf(row) = "agreed"
        BY <2>2, PhaseFacts
    <2>4. QED
        BY <1>2, <1>3, <2>3 DEF MovesOnly, Moves
<1>6. StoryMove(q, new)
    BY <1>1, <1>4, <1>5, OverrideStory
<1>7. QED
    BY <1>4, <1>6

LEMMA OverrideRejectionStory ==
    ASSUME RequestsTyped, StoriesHold, NEW q \in LoanRequestIds, rejectLoanRequestBySuperAdmin(q)
    PROVE  \E new : StoryMove(q, new) /\ SameAsked(new, loanRequests[q])
<1> DEFINE row == loanRequests[q]
           new == LoanClosed(row, "rejected")
<1>1. /\ LoanOverridden(q) /\ Stored(q, new) /\ RequestOK(row)
      /\ LoanNotified(q, {"member"}) /\ UNCHANGED loanApprovals
    BY DEF rejectLoanRequestBySuperAdmin, RequestsTyped
<1>2. SameAsked(new, row) /\ new.status = "rejected" /\ new.proposed = row.proposed
    BY <1>1, ClosedColumns
<1> HIDE DEF new
<1>3. StoryMove(q, new)
    BY <1>1, <1>2, OverrideStory
<1>4. QED
    BY <1>2, <1>3

\* A request is asked for, by a member or by an officer.
LEMMA AskingStory ==
    ASSUME RequestsTyped, StoriesHold, NEW q \in LoanRequestIds, NEW m \in Members,
           NEW input \in LoanInputs,
           insertLoanRequest(q, m, input) \/ createAdminLoanRequestFor(q, m, input)
    PROVE  \E new : StoryMove(q, new) /\ new.disbursed = EmptyDate /\ new.loan = NoLoanId
<1>1. PICK source \in {"member", "admin"} :
          /\ Stored(q, NewLoanRequest(m, source, input))
          /\ LoanNotified(q, IF source = "member" THEN {"manager"} ELSE {"manager", "member"})
    BY DEF insertLoanRequest, createAdminLoanRequestFor
<1>2. loanRequests[q].status = "none" /\ UNCHANGED <<loanApprovals, loanOverrides>>
    BY DEF insertLoanRequest, createAdminLoanRequestFor, MayAsk
<1>3. loanApprovals[q] = EmptyHistory /\ loanOverrides[q] = NoStage
    BY <1>2 DEF StoriesHold, StoryOK
<1> DEFINE new  == NewLoanRequest(m, source, input)
           told == IF source = "member" THEN {"manager"} ELSE {"manager", "member"}
<1>4. /\ new.status = "pending" /\ new.stage = "manager" /\ new.source = source
      /\ ~new.imported /\ new.disbursed = EmptyDate /\ new.loan = NoLoanId
    BY AskedColumns
<1> HIDE DEF new
<1>5. StoryOK(new, EmptyHistory, NoStage)
    BY <1>4, AskedStory
<1>6. ToldOK(new, told, FALSE)
    BY <1>4, AskedTold
<1> HIDE DEF told
<1>7. \A batch \in BOOLEAN : (batch => loanRequests[q].status # "none") => ToldOK(new, told, batch)
    BY <1>2, <1>6
<1>8. Stored(q, new) /\ LoanNotified(q, told)
    BY <1>1 DEF new, told
<1>9. StoryMove(q, new)
    BY <1>2, <1>3, <1>5, <1>7, <1>8, MoveOf, StoredAt, NotifiedAt, UntouchedAt
<1>10. QED
    BY <1>4, <1>9

-----------------------------------------------------------------------------
(***************************************************************************)
(* Requests and the loans made from them.  Of a loan, what was agreed on   *)
(* stays: repayments, suspensions and a new start keep its terms.          *)
(***************************************************************************)
LoanFits(loan, row) ==
    /\ loan.member = row.member /\ loan.type = row.type
    /\ row.proposed = [principal |-> loan.principal, fee |-> loan.fee,
                       duration |-> Len(loan.installments),
                       monthlyFee |-> loan.monthlyFee, obligation |-> loan.obligation]

RequestFits(row) ==
    IF row.disbursed = EmptyDate THEN row.loan = NoLoanId
    ELSE /\ row.loan \in LoanIds /\ loans[row.loan].status # "none"
         /\ LoanFits(loans[row.loan], row)

LoansFit ==
    /\ \A q \in LoanRequestIds : RequestFits(loanRequests[q])
    /\ \A l \in LoanIds : loans[l].status # "none" =>
           \E q \in LoanRequestIds : loanRequests[q].loan = l
    /\ \A q, r \in LoanRequestIds :
           loanRequests[q].loan = loanRequests[r].loan => q = r \/ loanRequests[q].loan = NoLoanId

\* Loans keep their terms, and at most those in L are new.
KeepsLoans(L) ==
    \A l \in LoanIds :
        /\ loans[l].status # "none" =>
              loans'[l].status # "none" /\ SameTerms(loans'[l], loans[l])
        /\ loans[l].status = "none" /\ loans'[l].status # "none" => l \in L

\* A request that has no loan, and one that gets one.
NotLent(row) == row.disbursed = EmptyDate /\ row.loan = NoLoanId

GetsLoan(row, L) ==
    /\ row.disbursed # EmptyDate /\ row.loan \in L
    /\ loans'[row.loan].status # "none" /\ LoanFits(loans'[row.loan], row)

LEMMA FitsKeep ==
    ASSUME NEW row, NEW old, LoanFits(old, row), NEW new, SameTerms(new, old)
    PROVE  LoanFits(new, row)
BY DEF LoanFits, SameTerms

LEMMA LoansFitAfter ==
    ASSUME LoansFit, NEW L, L \subseteq LoanIds, KeepsLoans(L),
           \A q \in LoanRequestIds :
               \/ loanRequests'[q] = loanRequests[q]
               \/ NotLent(loanRequests[q]) /\ NotLent(loanRequests'[q])
               \/ NotLent(loanRequests[q]) /\ GetsLoan(loanRequests'[q], L),
           \A l \in L : loans[l].status = "none" /\ \E q \in LoanRequestIds : loanRequests'[q].loan = l,
           \A q, r \in LoanRequestIds :
               loanRequests'[q].loan \in L /\ loanRequests'[q].loan = loanRequests'[r].loan => q = r
    PROVE  LoansFit'
<1>1. NoLoanId \notin LoanIds
    BY LoanRequestsAssumption
<1>2. ASSUME NEW q \in LoanRequestIds PROVE RequestFits(loanRequests[q])'
    <2>1. CASE loanRequests'[q] = loanRequests[q]
        <3> DEFINE row == loanRequests[q]
        <3>1. RequestFits(row)
            BY DEF LoansFit
        <3>2. CASE row.disbursed = EmptyDate
            BY <2>1, <3>1, <3>2 DEF RequestFits
        <3>3. CASE row.disbursed # EmptyDate
            <4>1. /\ row.loan \in LoanIds /\ loans[row.loan].status # "none"
                  /\ LoanFits(loans[row.loan], row)
                BY <3>1, <3>3 DEF RequestFits
            <4>2. loans'[row.loan].status # "none" /\ SameTerms(loans'[row.loan], loans[row.loan])
                BY <4>1 DEF KeepsLoans
            <4> HIDE DEF row
            <4>3. LoanFits(loans'[row.loan], row)
                BY <4>1, <4>2, FitsKeep
            <4>4. QED
                BY <2>1, <3>3, <4>1, <4>2, <4>3 DEF RequestFits, LoanFits, row
        <3>4. QED
            BY <3>2, <3>3
    <2>2. CASE NotLent(loanRequests'[q])
        BY <2>2 DEF NotLent, RequestFits
    <2>3. CASE GetsLoan(loanRequests'[q], L)
        BY <2>3 DEF GetsLoan, RequestFits, LoanFits
    <2>4. QED
        BY <2>1, <2>2, <2>3
<1>3. ASSUME NEW l \in LoanIds, loans'[l].status # "none"
      PROVE  \E q \in LoanRequestIds : loanRequests'[q].loan = l
    <2>1. CASE l \in L
        BY <2>1
    <2>2. CASE l \notin L
        <3>1. loans[l].status # "none"
            BY <1>3, <2>2 DEF KeepsLoans
        <3>2. PICK q \in LoanRequestIds : loanRequests[q].loan = l
            BY <3>1 DEF LoansFit
        <3>3. loanRequests'[q] = loanRequests[q]
            BY <1>1, <3>2 DEF NotLent
        <3>4. QED
            BY <3>2, <3>3
    <2>3. QED
        BY <2>1, <2>2
<1>4. ASSUME NEW q \in LoanRequestIds, NEW r \in LoanRequestIds,
             loanRequests'[q].loan = loanRequests'[r].loan, loanRequests'[q].loan # NoLoanId
      PROVE  q = r
    <2>1. CASE loanRequests'[q].loan \in L
        BY <1>4, <2>1
    <2>2. CASE loanRequests'[q].loan \notin L
        <3>1. loanRequests'[q] = loanRequests[q] /\ loanRequests'[r] = loanRequests[r]
            BY <1>4, <2>2 DEF NotLent, GetsLoan
        <3>2. QED
            BY <1>4, <3>1 DEF LoansFit
    <2>3. QED
        BY <2>1, <2>2
<1>5. QED
    BY <1>2, <1>3, <1>4 DEF LoansFit

\* Loans stay as they are, and so does what their requests say of them.
LEMMA LoansStay ==
    ASSUME LoansFit, UNCHANGED loans,
           \A q \in LoanRequestIds :
               \/ loanRequests'[q] = loanRequests[q]
               \/ NotLent(loanRequests[q]) /\ NotLent(loanRequests'[q])
    PROVE  LoansFit'
<1>1. KeepsLoans({})
    BY DEF KeepsLoans, SameTerms
<1>2. QED
    BY <1>1, LoansFitAfter

\* Every handler that pays nothing out.
LEMMA RequestStepStory ==
    ASSUME RequestsTyped, StoriesHold, LoansFit, NEW q \in LoanRequestIds, LoanRequestStep(q)
    PROVE  (\E new : StoryMove(q, new) /\ NotLent(new)) /\ NotLent(loanRequests[q])
<1>1. loanRequests[q].disbursed = EmptyDate => loanRequests[q].loan = NoLoanId
    BY DEF LoansFit, RequestFits
<1>2. loanRequests[q].status \in {"none", "pending"} => loanRequests[q].disbursed = EmptyDate
    BY DEF RequestsTyped, RequestOK
<1>3. ASSUME NEW m \in Members, NEW input \in LoanInputs,
             insertLoanRequest(q, m, input) \/ createAdminLoanRequestFor(q, m, input)
      PROVE  (\E new : StoryMove(q, new) /\ NotLent(new)) /\ NotLent(loanRequests[q])
    <2>1. loanRequests[q].status = "none"
        BY <1>3 DEF insertLoanRequest, createAdminLoanRequestFor, MayAsk
    <2>2. QED
        BY <1>1, <1>2, <1>3, <2>1, AskingStory DEF NotLent
<1>4. ASSUME NEW role \in DecidingRoles, NEW offer \in Offers, NEW settle \in BOOLEAN,
             approveLoanRequestByID(q, role, offer, settle)
      PROVE  /\ \E new : StoryMove(q, new) /\ SameAsked(new, loanRequests[q])
             /\ loanRequests[q].status = "pending"
    <2> DEFINE stage == approvalStageForOfficer(role)
    <2>1. /\ LoanWaitsFor(q, stage) /\ LoanDecided(q, stage, "approved")
          /\ UNCHANGED loanOverrides
          /\ IF stage = "manager" THEN approveByManager(q, offer, settle)
                                  ELSE approveAfterManager(q, stage)
        BY <1>4 DEF approveLoanRequestByID
    <2> HIDE DEF stage
    <2>2. loanRequests[q].status = "pending"
        BY <2>1 DEF LoanWaitsFor
    <2>3. CASE stage = "manager"
        BY <2>1, <2>2, <2>3, ManagerStory
    <2>4. CASE stage # "manager"
        BY <2>1, <2>2, <2>4, OfficerStory
    <2>5. QED
        BY <2>3, <2>4
<1>5. ASSUME \/ \E role \in DecidingRoles : rejectLoanRequestByID(q, role)
             \/ \E m \in Members : cancelLoanRequestByID(q, m)
             \/ cancelAdminLoanRequest(q)
             \/ \E offer \in Offers : overrideLoanRequestByID(q, offer)
             \/ rejectLoanRequestBySuperAdmin(q)
      PROVE  /\ \E new : StoryMove(q, new) /\ SameAsked(new, loanRequests[q])
             /\ loanRequests[q].status = "pending"
    <2>1. CASE \E role \in DecidingRoles : rejectLoanRequestByID(q, role)
        BY <2>1, RejectionStory DEF rejectLoanRequestByID, LoanWaitsFor
    <2>2. CASE (\E m \in Members : cancelLoanRequestByID(q, m)) \/ cancelAdminLoanRequest(q)
        <3>1. /\ loanRequests[q].status = "pending"
              /\ Stored(q, LoanClosed(loanRequests[q], "cancelled")) /\ LoanNotified(q, {})
              /\ UNCHANGED <<loanApprovals, loanOverrides>>
            BY <2>2 DEF cancelLoanRequestByID, cancelAdminLoanRequest
        <3>2. QED
            BY <3>1, CancellationStory
    <2>3. CASE \E offer \in Offers : overrideLoanRequestByID(q, offer)
        BY <2>3, OverridesStory DEF overrideLoanRequestByID, LoanOverridden
    <2>4. CASE rejectLoanRequestBySuperAdmin(q)
        BY <2>4, OverrideRejectionStory DEF rejectLoanRequestBySuperAdmin, LoanOverridden
    <2>5. QED
        BY <1>5, <2>1, <2>2, <2>3, <2>4
<1>6. ASSUME \E new : StoryMove(q, new) /\ SameAsked(new, loanRequests[q]),
             loanRequests[q].status = "pending"
      PROVE  (\E new : StoryMove(q, new) /\ NotLent(new)) /\ NotLent(loanRequests[q])
    BY <1>1, <1>2, <1>6 DEF SameAsked, NotLent
<1>7. QED
    BY <1>3, <1>4, <1>5, <1>6 DEF LoanRequestStep

-----------------------------------------------------------------------------
(***************************************************************************)
(* Loans that a disbursement or a commit opens, and those it pays off.     *)
(***************************************************************************)
LEMMA OpenHistory ==
    ASSUME NEW ls, NEW rs, NEW ss, HistoryOK(ls, rs, ss),
           NEW ls2, ls2 = [k \in LoanIds |-> ls2[k]],
           \A k \in LoanIds :
               \/ ls2[k] = ls[k]
               \/ ls[k].status = "none" /\ ls2[k].status # "none" /\ LoanOK(ls2[k], 0, {})
    PROVE  HistoryOK(ls2, rs, ss)
<1>1. ASSUME NEW k \in LoanIds PROVE LoanOK(ls2[k], TotalFor(rs, k), Skipped(ss, k))
    <2>1. LoanOK(ls[k], TotalFor(rs, k), Skipped(ss, k))
        BY DEF HistoryOK
    <2>2. CASE ls2[k] = ls[k]
        BY <2>1, <2>2
    <2>3. CASE ls[k].status = "none" /\ ls2[k].status # "none" /\ LoanOK(ls2[k], 0, {})
        <3>1. TotalFor(rs, k) = 0 /\ Skipped(ss, k) = {}
            BY <2>1, <2>3 DEF LoanOK
        <3>2. QED
            BY <2>3, <3>1
    <2>4. QED
        BY <2>2, <2>3
<1>2. ASSUME NEW r \in RepaymentIds, rs[r].status = "recorded"
      PROVE  ls2[rs[r].loan].status # "none"
    <2>1. rs[r].loan \in LoanIds
        BY <1>2, CountedFacts DEF HistoryOK, RepaymentTables
    <2>2. QED
        BY <1>2, <2>1 DEF HistoryOK
<1>3. QED
    BY <1>1, <1>2 DEF HistoryOK

\* Each settled loan has a repayment of its own, in a row that was free.
Settles(settled, repaid) ==
    /\ settled \subseteq LoanIds /\ repaid \in [settled -> RepaymentIds]
    /\ \A k, other \in settled : repaid[k] = repaid[other] => k = other
    /\ \A k \in settled : /\ repayments[repaid[k]].status = "none"
                          /\ loans[k].status # "none" /\ loans[k].remaining > 0
    /\ PayOff(settled, repaid)

LEMMA SettledRows ==
    ASSUME HistoryInvariant, NEW settled, NEW repaid, Settles(settled, repaid)
    PROVE  /\ \A k \in settled :
                 /\ loans[k].remaining \in Nat
                 /\ repayments'[repaid[k]] \in RepaymentRows
                 /\ repayments'[repaid[k]].status = "recorded"
                 /\ repayments'[repaid[k]].loan = k
                 /\ repayments'[repaid[k]].amount = loans[k].remaining
           /\ \A r \in RepaymentIds : (\A k \in settled : repaid[k] # r) =>
                  repayments'[r] = repayments[r]
           /\ repayments' = [r \in RepaymentIds |-> repayments'[r]]
<1>1. ASSUME NEW k \in settled
      PROVE  /\ loans[k].remaining \in Nat
             /\ repayments'[repaid[k]] \in RepaymentRows
             /\ repayments'[repaid[k]].status = "recorded"
             /\ repayments'[repaid[k]].loan = k
             /\ repayments'[repaid[k]].amount = loans[k].remaining
    <2> DEFINE r == repaid[k]
               l == CHOOSE l \in settled : repaid[l] = r
    <2>1. r \in RepaymentIds /\ l = k /\ k \in LoanIds
        BY DEF Settles
    <2>2. repayments'[r] = [status |-> "recorded", loan |-> l, amount |-> loans[l].remaining]
        BY <2>1 DEF Settles, PayOff
    <2>3. loans[k] \in LoanRows
        BY <2>1 DEF HistoryInvariant, HistoryOK, LoanOK, Settles, RowOK
    <2>4. loans[k].remaining \in Nat
        BY <2>3, RowFacts
    <2>5. [status |-> "recorded", loan |-> k, amount |-> loans[k].remaining] \in RepaymentRows
        BY <2>1, <2>4 DEF RepaymentRows
    <2> HIDE DEF l
    <2>6. repayments'[r] = [status |-> "recorded", loan |-> k, amount |-> loans[k].remaining]
        BY <2>1, <2>2
    <2>7. QED
        BY <2>4, <2>5, <2>6
<1>2. QED
    BY <1>1 DEF Settles, PayOff

LEMMA SettledTotals ==
    ASSUME HistoryInvariant, NEW settled, NEW repaid, Settles(settled, repaid)
    PROVE  /\ repayments' \in RepaymentTables
           /\ \A l \in LoanIds :
                 TotalFor(repayments', l) = TotalFor(repayments, l)
                     + (IF l \in settled THEN loans[l].remaining ELSE 0)
<1> DEFINE rows == repayments'
<1>1. repayments \in RepaymentTables /\ settled \subseteq LoanIds
      /\ \A k \in settled : repaid[k] \in RepaymentIds /\ repayments[repaid[k]].status = "none"
    BY DEF HistoryInvariant, HistoryOK, Settles
<1>2. /\ \A k \in settled :
            /\ loans[k].remaining \in Nat
            /\ rows[repaid[k]] \in RepaymentRows
            /\ rows[repaid[k]].status = "recorded"
            /\ rows[repaid[k]].loan = k
            /\ rows[repaid[k]].amount = loans[k].remaining
      /\ \A r \in RepaymentIds : (\A k \in settled : repaid[k] # r) => rows[r] = repayments[r]
      /\ rows = [r \in RepaymentIds |-> rows[r]]
    BY SettledRows
<1>3. \A k \in settled : loans[k].remaining \in Nat
    BY <1>2
<1> HIDE DEF rows
<1>4. rows \in RepaymentTables
    <2>1. ASSUME NEW r \in RepaymentIds PROVE rows[r] \in RepaymentRows \cup {NoRepayment}
        <3>1. CASE \E k \in settled : repaid[k] = r
            BY <1>2, <3>1
        <3>2. CASE \A k \in settled : repaid[k] # r
            BY <1>1, <1>2, <3>2 DEF RepaymentTables
        <3>3. QED
            BY <3>1, <3>2
    <2>2. QED
        BY <1>2, <2>1 DEF RepaymentTables
<1>5. ASSUME NEW l \in LoanIds, l \notin settled
      PROVE  TotalFor(rows, l) = TotalFor(repayments, l)
    <2>1. ASSUME NEW r \in RepaymentIds PROVE Counted(rows[r], l) = Counted(repayments[r], l)
        <3>1. CASE \E k \in settled : repaid[k] = r
            BY <1>1, <1>2, <1>5, <3>1 DEF Counted
        <3>2. CASE \A k \in settled : repaid[k] # r
            BY <1>2, <3>2
        <3>3. QED
            BY <3>1, <3>2
    <2>2. QED
        BY <2>1, TotalSame
<1>6. ASSUME NEW l \in settled
      PROVE  TotalFor(rows, l) = TotalFor(repayments, l) + loans[l].remaining
    <2> DEFINE own == repaid[l]
    <2>1. own \in RepaymentIds
        BY <1>1
    <2>2. Counted(rows[own], l) = loans[l].remaining /\ Counted(repayments[own], l) = 0
        BY <1>1, <1>2 DEF Counted
    <2>3. ASSUME NEW r \in RepaymentIds \ {own} PROVE Counted(rows[r], l) = Counted(repayments[r], l)
        <3>1. CASE \E k \in settled : repaid[k] = r
            <4>1. PICK k \in settled : repaid[k] = r
                BY <3>1
            <4>2. k # l
                BY <4>1
            <4>3. QED
                BY <1>1, <1>2, <4>1, <4>2 DEF Counted
        <3>2. CASE \A k \in settled : repaid[k] # r
            BY <1>2, <3>2
        <3>3. QED
            BY <3>1, <3>2
    <2> HIDE DEF own
    <2>4. /\ TotalFor(repayments, l) \in Nat
          /\ TotalFor(rows, l) = TotalFor(repayments, l)
                 + (Counted(rows[own], l) - Counted(repayments[own], l))
        BY <1>1, <1>4, <2>1, <2>3, TotalMoves
    <2>5. QED
        BY <1>3, <2>2, <2>4
<1>7. \A l \in LoanIds : TotalFor(repayments, l) \in Nat
    BY <1>1, TotalIsNat
<1>8. QED
    BY <1>4, <1>5, <1>6, <1>7 DEF rows

LEMMA SettleHistory ==
    ASSUME HistoryInvariant, NEW settled, NEW repaid, Settles(settled, repaid),
           NEW ls, ls = [k \in LoanIds |-> ls[k]],
           \A k \in settled : ls[k] = Repaid(loans[k], loans[k].remaining),
           \A k \in LoanIds \ settled : ls[k] = loans[k]
    PROVE  /\ HistoryOK(ls, repayments', suspensions)
           /\ \A k \in settled : /\ ls[k].status # "none" /\ SameTerms(ls[k], loans[k])
                                 /\ ls[k].remaining = 0
<1>1. /\ repayments' \in RepaymentTables
      /\ \A l \in LoanIds :
            TotalFor(repayments', l) = TotalFor(repayments, l)
                + (IF l \in settled THEN loans[l].remaining ELSE 0)
    BY SettledTotals
<1>2. repayments \in RepaymentTables /\ settled \subseteq LoanIds
      /\ \A l \in LoanIds : LoanOK(loans[l], TotalFor(repayments, l), Skipped(suspensions, l))
    BY DEF HistoryInvariant, HistoryOK, Settles
<1>3. ASSUME NEW k \in settled
      PROVE  /\ LoanOK(ls[k], TotalFor(repayments', k), Skipped(suspensions, k))
             /\ ls[k].status # "none" /\ SameTerms(ls[k], loans[k]) /\ ls[k].remaining = 0
    <2> DEFINE row    == loans[k]
               new    == ls[k]
               before == TotalFor(repayments, k)
               total  == TotalFor(repayments', k)
    <2>1. /\ LoanOK(row, before, Skipped(suspensions, k)) /\ row.status # "none"
          /\ row.remaining > 0 /\ RowOK(row) /\ row.remaining = row.obligation - before
        BY <1>2 DEF Settles, LoanOK
    <2>2. row.remaining \in Nat /\ row.obligation \in Nat /\ before \in Nat
        BY <1>2, <2>1, RowFacts, TotalIsNat DEF RowOK
    <2>3. total = before + row.remaining /\ new = Repaid(row, row.remaining)
        BY <1>1, <1>2
    <2> HIDE DEF row, new, before, total
    <2>4. PaidRow(new, row, row.remaining - row.remaining)
        BY <2>1, <2>2, <2>3, RepaidRow
    <2>5. row.remaining - row.remaining = 0 /\ 0 = row.obligation - total
        BY <2>1, <2>2, <2>3
    <2>6. PaidRow(new, row, 0)
        BY <2>4, <2>5
    <2>7. /\ LoanOK(new, total, Skipped(suspensions, k)) /\ new.status # "none"
          /\ SameTerms(new, row)
        BY <2>1, <2>5, <2>6, PaidLoan
    <2>8. new.remaining = 0
        BY <2>6 DEF PaidRow
    <2>9. QED
        BY <2>7, <2>8 DEF row, new, total
<1>4. ASSUME NEW k \in LoanIds \ settled
      PROVE  LoanOK(ls[k], TotalFor(repayments', k), Skipped(suspensions, k))
    <2>1. TotalFor(repayments', k) = TotalFor(repayments, k)
        BY <1>1, <1>2, TotalIsNat
    <2>2. QED
        BY <1>2, <2>1
<1>5. \A k \in LoanIds : loans[k].status # "none" => ls[k].status # "none"
    BY <1>3
<1>6. ASSUME NEW r \in RepaymentIds, repayments'[r].status = "recorded"
      PROVE  ls[repayments'[r].loan].status # "none"
    <2>1. CASE \E k \in settled : repaid[k] = r
        <3>1. PICK k \in settled : repaid[k] = r
            BY <2>1
        <3>2. repayments'[r].loan = k
            BY <3>1, SettledRows
        <3>3. QED
            BY <1>3, <3>2
    <2>2. CASE \A k \in settled : repaid[k] # r
        <3>1. repayments'[r] = repayments[r]
            BY <2>2, SettledRows
        <3>2. repayments[r].loan \in LoanIds
            BY <1>2, <1>6, <3>1, CountedFacts DEF RepaymentTables
        <3>3. loans[repayments[r].loan].status # "none"
            BY <1>6, <3>1 DEF HistoryInvariant, HistoryOK
        <3>4. QED
            BY <1>5, <3>1, <3>2, <3>3
    <2>3. QED
        BY <2>1, <2>2
<1>7. suspensions \subseteq LoanIds \X StatementMonths /\ IsFiniteSet(suspensions)
    BY DEF HistoryInvariant, HistoryOK
<1>8. HistoryOK(ls, repayments', suspensions)
    BY <1>1, <1>3, <1>4, <1>6, <1>7 DEF HistoryOK
<1>9. QED
    BY <1>3, <1>8

\* Terms that passed the check of the snapshot are those of a loan.
LEMMA SnapshotTerms ==
    ASSUME NEW p \in Proposals, SnapshotTotals(p.principal, p.duration, p.fee, p.obligation),
           NEW date, ~Refused(TermsFrom(p, date))
    PROVE  /\ GoodTerms(TermsFrom(p, date), p.principal, p.duration, date)
           /\ TermsFrom(p, date).monthlyFee = p.monthlyFee /\ TermsFrom(p, date).fee = p.fee
           /\ TermsFrom(p, date).obligation = p.obligation
<1> DEFINE t == TermsFrom(p, date)
<1>1. /\ t.principal = p.principal /\ t.duration = p.duration /\ t.monthlyFee = p.monthlyFee
      /\ t.fee = p.fee /\ t.obligation = p.obligation
      /\ t.installments = buildLoanScheduleFromObligation(p.obligation, p.duration, date)
      /\ t.installments # NoSchedule
    BY DEF TermsFrom, Refused
<1> HIDE DEF t
<1>2. /\ p.principal \in Nat \ {0} /\ p.duration \in Nat \ {0} /\ p.fee \in Nat
      /\ p.monthlyFee \in Nat \cup {NoFee} /\ p.obligation \in Nat
    BY DEF SnapshotTotals, Proposals
<1>3. p.obligation = p.principal + p.fee
    <2>1. MaxInt64 \in Nat
        BY LoanScheduleAssumption
    <2>2. Int64(p.principal + p.fee) = p.principal + p.fee
        BY <1>2, <2>1, Int64Exact DEF SnapshotTotals
    <2>3. QED
        BY <2>2 DEF SnapshotTotals
<1>4. p.obligation >= p.duration
    BY <1>1, <1>2 DEF buildLoanScheduleFromObligation
<1>5. GoodTerms(t, p.principal, p.duration, date)
    BY <1>1, <1>2, <1>3, <1>4 DEF GoodTerms
<1>6. QED
    BY <1>1, <1>5 DEF t

\* What a disbursement finds and what it does.
Settled(row) == IF row.settle THEN OutstandingRegular(row.member) ELSE {}

OwnersKnown == \A q \in LoanRequestIds :
    loanRequests[q].status # "none" => loanRequests[q].member \in Members

Disburses(q, l, date, repaid) ==
    /\ l \in LoanIds /\ date \in DisbursementDates
    /\ \E settled \in SUBSET LoanIds : repaid \in [settled -> RepaymentIds]
    /\ disburseLoanRequestByID(q, l, date, repaid)

LEMMA DisbursementSettles ==
    ASSUME NEW q, NEW l, NEW date, NEW repaid, Disburses(q, l, date, repaid), HistoryInvariant
    PROVE  Settles(Settled(loanRequests[q]), repaid)
<1> DEFINE settled == Settled(loanRequests[q])
<1>1. /\ DOMAIN repaid = settled /\ PayOff(settled, repaid)
      /\ \A k \in settled : repayments[repaid[k]].status = "none"
      /\ \A k, other \in settled : repaid[k] = repaid[other] => k = other
    BY DEF Disburses, disburseLoanRequestByID, Settled
<1>2. \A k \in settled : k \in LoanIds /\ loans[k].status # "none" /\ loans[k].remaining > 0
    BY DEF Settled, OutstandingRegular
<1> HIDE DEF settled
<1>3. repaid \in [settled -> RepaymentIds]
    BY <1>1 DEF Disburses
<1>4. QED
    BY <1>1, <1>2, <1>3 DEF Settles, settled

LEMMA DisbursedLoan ==
    ASSUME RequestsTyped, OwnersKnown, NEW q \in LoanRequestIds, NEW l, NEW date, NEW repaid,
           Disburses(q, l, date, repaid)
    PROVE  /\ LoanOK(loans'[l], 0, {}) /\ loans'[l].status # "none" /\ loans[l].status = "none"
           /\ LoanFits(loans'[l], loanRequests[q])
<1> DEFINE row == loanRequests[q]
           p   == row.proposed
           t   == TermsFrom(p, date)
           new == NewLoan(row.member, row.type, Today, date, t)
<1>1. /\ RequestOK(row) /\ row.status = "approved" /\ row.member \in Members
      /\ SnapshotValid(row) /\ ~Refused(t) /\ loans[l].status = "none" /\ l \in LoanIds
    BY DEF RequestsTyped, OwnersKnown, Disburses, disburseLoanRequestByID
<1>2. loans'[l] = new
    BY <1>1 DEF Disburses, disburseLoanRequestByID
<1>3. row.type \in LoanTypes /\ p \in Proposals /\ Today \in Nat /\ date \in Nat
    BY <1>1, LoanRequestsAssumption DEF RequestOK, RowsWithPayoff, Disburses
<1>4. SnapshotTotals(p.principal, p.duration, p.fee, p.obligation)
    BY <1>1 DEF SnapshotValid, validateLoanFeeSnapshot
<1> HIDE DEF p
<1>5. /\ GoodTerms(t, p.principal, p.duration, date)
      /\ t.monthlyFee = p.monthlyFee /\ t.fee = p.fee /\ t.obligation = p.obligation
    BY <1>1, <1>3, <1>4, SnapshotTerms
<1> HIDE DEF t, row, new
<1>6. /\ RowOK(new) /\ new.member = row.member /\ new.type = row.type
      /\ new.principal = p.principal /\ new.monthlyFee = t.monthlyFee /\ new.fee = t.fee
      /\ new.obligation = t.obligation /\ Len(new.installments) = p.duration
    BY <1>1, <1>3, <1>5, NewLoanRow DEF new
<1>7. LoanOK(new, 0, {}) /\ new.status # "none"
    BY <1>1, <1>3, <1>5, OpenedLoan DEF new
<1>8. p = [principal |-> new.principal, fee |-> new.fee, duration |-> Len(new.installments),
           monthlyFee |-> new.monthlyFee, obligation |-> new.obligation]
    BY <1>3, <1>5, <1>6 DEF Proposals
<1>9. LoanFits(new, row)
    BY <1>6, <1>8 DEF LoanFits, p
<1>10. QED
    BY <1>1, <1>2, <1>7, <1>9 DEF row

LEMMA DisbursementHistory ==
    ASSUME RequestsTyped, OwnersKnown, HistoryInvariant, NEW q \in LoanRequestIds,
           NEW l, NEW date, NEW repaid, Disburses(q, l, date, repaid)
    PROVE  /\ HistoryInvariant' /\ KeepsLoans({l})
           /\ \A k \in Settled(loanRequests[q]) : loans'[k].remaining = 0
           /\ \A k \in LoanIds \ {l} : k \notin Settled(loanRequests[q]) => loans'[k] = loans[k]
<1> DEFINE settled == Settled(loanRequests[q])
           ls == [k \in LoanIds |-> IF k \in settled THEN Repaid(loans[k], loans[k].remaining)
                                                     ELSE loans[k]]
<1>1. Settles(settled, repaid)
    BY DisbursementSettles
<1>2. LoanOK(loans'[l], 0, {}) /\ loans'[l].status # "none" /\ loans[l].status = "none"
    BY DisbursedLoan
<1>3. l \in LoanIds /\ l \notin settled /\ settled \subseteq LoanIds
    BY <1>1, <1>2 DEF Settles, Disburses
<1>4. /\ loans' = [k \in LoanIds |-> loans'[k]] /\ suspensions' = suspensions
      /\ \A k \in settled : loans'[k] = Repaid(loans[k], loans[k].remaining)
      /\ \A k \in LoanIds \ {l} : k \notin settled => loans'[k] = loans[k]
    BY <1>3 DEF Disburses, disburseLoanRequestByID, Settled
<1> HIDE DEF settled
<1>5. /\ ls = [k \in LoanIds |-> ls[k]]
      /\ \A k \in settled : ls[k] = Repaid(loans[k], loans[k].remaining)
      /\ \A k \in LoanIds \ settled : ls[k] = loans[k]
    BY <1>3
<1> HIDE DEF ls
<1>6. /\ HistoryOK(ls, repayments', suspensions)
      /\ \A k \in settled : /\ ls[k].status # "none" /\ SameTerms(ls[k], loans[k])
                            /\ ls[k].remaining = 0
    BY <1>1, <1>5, SettleHistory
<1>7. \A k \in LoanIds \ {l} : loans'[k] = ls[k]
    BY <1>3, <1>4, <1>5
<1>8. ls[l].status = "none"
    BY <1>2, <1>3, <1>5
<1>9. HistoryOK(loans', repayments', suspensions)
    <2>1. \A k \in LoanIds :
              \/ loans'[k] = ls[k]
              \/ ls[k].status = "none" /\ loans'[k].status # "none" /\ LoanOK(loans'[k], 0, {})
        BY <1>2, <1>7, <1>8
    <2>2. QED
        BY <1>4, <1>6, <2>1, OpenHistory
<1>10. HistoryInvariant'
    BY <1>4, <1>9 DEF HistoryInvariant
<1>11. KeepsLoans({l})
    <2>1. ASSUME NEW k \in LoanIds, loans[k].status # "none"
          PROVE  loans'[k].status # "none" /\ SameTerms(loans'[k], loans[k])
        <3>1. CASE k \in settled
            BY <1>3, <1>6, <1>7, <3>1
        <3>2. CASE k \notin settled
            BY <1>2, <1>4, <2>1, <3>2 DEF SameTerms
        <3>3. QED
            BY <3>1, <3>2
    <2>2. ASSUME NEW k \in LoanIds, loans[k].status = "none", loans'[k].status # "none"
          PROVE  k = l
        BY <1>1, <1>4, <2>2 DEF Settles
    <2>3. QED
        BY <2>1, <2>2 DEF KeepsLoans
<1>12. QED
    BY <1>3, <1>4, <1>6, <1>7, <1>10, <1>11 DEF settled

LEMMA DisbursementStory ==
    ASSUME RequestsTyped, StoriesHold, LoansFit, OwnersKnown, HistoryInvariant,
           NEW q \in LoanRequestIds, NEW l, NEW date, NEW repaid, Disburses(q, l, date, repaid)
    PROVE  (\E new : StoryMove(q, new)) /\ LoansFit'
<1> DEFINE row    == loanRequests[q]
           payoff == PayoffOf(Settled(row))
           new    == PaidOut(row, date, payoff, l)
<1>1. /\ RequestOK(row) /\ row.status = "approved" /\ row.disbursed = EmptyDate
      /\ row.loan = NoLoanId /\ Stored(q, new) /\ LoanNotified(q, {"member"})
      /\ UNCHANGED <<loanApprovals, loanOverrides>>
    BY DEF RequestsTyped, Disburses, disburseLoanRequestByID, PaidOut, Settled
<1>2. l \in LoanIds /\ date \in Nat \ {0}
    BY LoanRequestsAssumption DEF Disburses
<1>3. /\ new.status = row.status /\ new.stage = row.stage /\ new.imported = row.imported
      /\ new.proposed = row.proposed /\ new.member = row.member /\ new.type = row.type
      /\ new.disbursed = date /\ new.loan = l
    <2> HIDE DEF payoff, row
    <2>1. QED
        BY <1>1 DEF RequestOK, RowsWithPayoff, PaidOut
<1> HIDE DEF new
<1>4. StoryOK(new, loanApprovals[q], loanOverrides[q])
    <2>1. StoryOK(row, loanApprovals[q], loanOverrides[q])
        BY DEF StoriesHold
    <2>2. new.disbursed # EmptyDate
        BY <1>2, <1>3 DEF EmptyDate
    <2> HIDE DEF row
    <2>3. QED
        BY <1>3, <2>1, <2>2, SameStory
<1>5. \A batch : ToldOK(new, {"member"}, batch)
    BY <1>1, <1>2, <1>3, LentTold DEF EmptyDate
<1>6. StoryMove(q, new)
    BY <1>1, <1>4, <1>5, MoveOf, StoredAt, NotifiedAt, UntouchedAt
<1>7. /\ loanRequests'[q] = new
      /\ \A r \in LoanRequestIds \ {q} : loanRequests'[r] = loanRequests[r]
    BY <1>6 DEF StoryMove, OnlyAt
<1>8. /\ loans'[l].status # "none" /\ loans[l].status = "none" /\ LoanFits(loans'[l], row)
      /\ KeepsLoans({l})
    BY DisbursedLoan, DisbursementHistory
<1>9. GetsLoan(loanRequests'[q], {l}) /\ NotLent(row)
    BY <1>1, <1>2, <1>3, <1>7, <1>8 DEF GetsLoan, NotLent, LoanFits, EmptyDate
<1>10. \A r \in LoanRequestIds \ {q} : loanRequests'[r].loan # l
    BY <1>2, <1>7, <1>8, LoanRequestsAssumption DEF LoansFit, RequestFits
<1>11. LoansFit'
    <2>1. \A r \in LoanRequestIds :
              \/ loanRequests'[r] = loanRequests[r]
              \/ NotLent(loanRequests[r]) /\ NotLent(loanRequests'[r])
              \/ NotLent(loanRequests[r]) /\ GetsLoan(loanRequests'[r], {l})
        BY <1>7, <1>9
    <2>2. \A k \in {l} : loans[k].status = "none" /\ \E r \in LoanRequestIds : loanRequests'[r].loan = k
        BY <1>3, <1>7, <1>8
    <2>3. \A r, s \in LoanRequestIds :
              loanRequests'[r].loan \in {l} /\ loanRequests'[r].loan = loanRequests'[s].loan => r = s
        BY <1>10
    <2>4. QED
        BY <1>2, <1>8, <2>1, <2>2, <2>3, LoansFitAfter
<1>12. QED
    BY <1>6, <1>11

-----------------------------------------------------------------------------
(***************************************************************************)
(* A workbook that is committed: each row a request, and each imported one *)
(* a loan.                                                                 *)
(***************************************************************************)
Imported(b) == {n \in DOMAIN RowsOfBatch(b) : isAutoApprovedLoanImportType(RowsOfBatch(b)[n].type)}

\* The loan of an imported row.
LoanOfRow(row) == NewLoan(row.member, row.type, Today, Today, ImportedTerms(row))

CommitLends(b, ids, loanIds) ==
    LET rows == RowsOfBatch(b) IN
    /\ loanIds \in [Imported(b) -> LoanIds]
    /\ \A k, n \in Imported(b) : loanIds[k] = loanIds[n] => k = n
    /\ \A n \in Imported(b) :
          /\ loanRequests'[ids[n]] = ImportedRequest(rows[n], loanIds[n])
          /\ ~Refused(ImportedTerms(rows[n]))
          /\ loans[loanIds[n]].status = "none" /\ loans'[loanIds[n]] = LoanOfRow(rows[n])
    /\ \A n \in DOMAIN rows \ Imported(b) :
          loanRequests'[ids[n]] = NewLoanRequest(rows[n].member, "admin", InputOf(rows[n]))
    /\ \A n \in DOMAIN rows : loanNotices'[ids[n]] = {"member"}
    /\ \A q \in LoanRequestIds : (\A n \in DOMAIN rows : ids[n] # q) => loanNotices'[q] = loanNotices[q]
    /\ \A l \in LoanIds : (\A n \in Imported(b) : loanIds[n] # l) => loans'[l] = loans[l]
    /\ loans' = [l \in LoanIds |-> loans'[l]]
    /\ loanNotices' = [q \in LoanRequestIds |-> loanNotices'[q]]
    /\ UNCHANGED <<repayments, suspensions, loanApprovals, loanOverrides>>

LEMMA CommittingLends ==
    ASSUME NEW b, NEW officer, NEW acknowledge, NEW ids, NEW loanIds,
           ids \in [DOMAIN RowsOfBatch(b) -> LoanRequestIds], loanIds \in [Imported(b) -> LoanIds],
           commitAdminLoanRequestBatch(b, officer, acknowledge, ids, loanIds)
    PROVE  CommitLends(b, ids, loanIds)
<1> DEFINE rows     == RowsOfBatch(b)
           imported == Imported(b)
<1>1. /\ IsInjective(ids) /\ IsInjective(loanIds)
      /\ \A n \in imported : ~Refused(ImportedTerms(rows[n])) /\ loans[loanIds[n]].status = "none"
      /\ loanRequests' = [q \in LoanRequestIds |-> createFromRow(rows, ids, loanIds, q)]
      /\ loans' = [l \in LoanIds |->
             IF \E n \in imported : loanIds[n] = l
             THEN LET n == CHOOSE n \in imported : loanIds[n] = l IN
                  NewLoan(rows[n].member, rows[n].type, Today, Today, ImportedTerms(rows[n]))
             ELSE loans[l]]
      /\ loanNotices' = [q \in LoanRequestIds |->
             IF \E n \in DOMAIN rows : ids[n] = q THEN {"member"} ELSE loanNotices[q]]
      /\ UNCHANGED <<repayments, suspensions, loanApprovals, loanOverrides>>
    BY DEF commitAdminLoanRequestBatch, RowsOfBatch, Imported
<1>2. imported \subseteq DOMAIN rows
      /\ \A n \in DOMAIN rows : n \in imported <=> isAutoApprovedLoanImportType(rows[n].type)
    BY DEF Imported
<1>3. ids \in [DOMAIN rows -> LoanRequestIds] /\ loanIds \in [imported -> LoanIds]
    OBVIOUS
<1> HIDE DEF rows, imported
<1>4. \A k, n \in imported : loanIds[k] = loanIds[n] => k = n
    BY <1>1, <1>3 DEF IsInjective
<1>5. \A k, n \in DOMAIN rows : ids[k] = ids[n] => k = n
    BY <1>1, <1>3 DEF IsInjective
<1>6. ASSUME NEW n \in DOMAIN rows
      PROVE  loanRequests'[ids[n]] = IF n \in imported THEN ImportedRequest(rows[n], loanIds[n])
                                     ELSE NewLoanRequest(rows[n].member, "admin", InputOf(rows[n]))
    <2> DEFINE q == ids[n]
               k == CHOOSE k \in DOMAIN rows : ids[k] = q
    <2>1. q \in LoanRequestIds /\ k = n
        BY <1>3, <1>5
    <2>2. loanRequests'[q] = createFromRow(rows, ids, loanIds, q)
        BY <1>1, <2>1
    <2>3. createFromRow(rows, ids, loanIds, q) =
            IF isAutoApprovedLoanImportType(rows[n].type) THEN ImportedRequest(rows[n], loanIds[n])
            ELSE NewLoanRequest(rows[n].member, "admin", InputOf(rows[n]))
        BY <2>1 DEF createFromRow
    <2>4. QED
        BY <1>2, <2>2, <2>3
<1>7. ASSUME NEW n \in imported PROVE loans'[loanIds[n]] = LoanOfRow(rows[n])
    <2> DEFINE l == loanIds[n]
               k == CHOOSE k \in imported : loanIds[k] = l
    <2>1. l \in LoanIds /\ k = n
        BY <1>3, <1>4
    <2>2. loans'[l] = NewLoan(rows[k].member, rows[k].type, Today, Today, ImportedTerms(rows[k]))
        BY <1>1, <2>1
    <2> HIDE DEF k
    <2>3. QED
        BY <2>1, <2>2 DEF LoanOfRow
<1>8. /\ \A n \in DOMAIN rows : loanNotices'[ids[n]] = {"member"}
      /\ \A q \in LoanRequestIds : (\A n \in DOMAIN rows : ids[n] # q) => loanNotices'[q] = loanNotices[q]
      /\ loanNotices' = [q \in LoanRequestIds |-> loanNotices'[q]]
    BY <1>1, <1>3
<1>9. /\ \A l \in LoanIds : (\A n \in imported : loanIds[n] # l) => loans'[l] = loans[l]
      /\ loans' = [l \in LoanIds |-> loans'[l]]
    BY <1>1
<1>10. QED
    BY <1>1, <1>2, <1>3, <1>4, <1>6, <1>7, <1>8, <1>9 DEF CommitLends, rows, imported

\* The loan of an imported row is on the terms of its request.
LEMMA ImportedLoan ==
    ASSUME NEW row \in WorkbookRow, row.member \in Members,
           isAutoApprovedLoanImportType(row.type), ~Refused(ImportedTerms(row)),
           NEW l, NEW new, new = ImportedRequest(row, l)
    PROVE  LoanOK(LoanOfRow(row), 0, {}) /\ LoanOfRow(row).status # "none" /\ LoanFits(LoanOfRow(row), new)
<1> DEFINE t    == ImportedTerms(row)
           loan == LoanOfRow(row)
<1>1. /\ row.type \in {"voucher", "goods_purchase_paylater"} /\ row.type \in LoanTypes
      /\ row.amount \in Nat /\ row.duration \in Nat /\ row.fee \in Nat \cup {NoFee}
    BY DEF WorkbookRow, isAutoApprovedLoanImportType, LoanTypes
<1>2. t = IF row.type = "voucher"
          THEN calculateVoucherLoanSchedule(row.amount, row.fee, row.duration, Today)
          ELSE calculatePaylaterLoanSchedule(row.amount, row.duration, Today)
    BY DEF ImportedTerms
<1>3. ~Refused(t) /\ Today \in Nat
    BY LoanRequestsAssumption
<1> HIDE DEF t
<1>4. GoodTerms(t, row.amount, row.duration, Today)
    <2>1. CASE row.type = "voucher"
        BY <1>1, <1>2, <1>3, <2>1, VoucherTerms
    <2>2. CASE row.type # "voucher"
        BY <1>1, <1>2, <1>3, <2>2, PaylaterTerms
    <2>3. QED
        BY <2>1, <2>2
<1>5. loan = NewLoan(row.member, row.type, Today, Today, t)
    BY DEF LoanOfRow, t
<1> HIDE DEF loan
<1>6. /\ loan.member = row.member /\ loan.type = row.type
      /\ loan.principal = row.amount /\ loan.monthlyFee = t.monthlyFee /\ loan.fee = t.fee
      /\ loan.obligation = t.obligation /\ Len(loan.installments) = row.duration
    BY <1>1, <1>3, <1>4, <1>5, NewLoanRow
<1>7. LoanOK(loan, 0, {}) /\ loan.status # "none"
    BY <1>1, <1>3, <1>4, <1>5, OpenedLoan
<1>8. /\ new.member = row.member /\ new.type = row.type /\ new.proposed = Proposal(t)
    BY ImportedColumns DEF t
<1>9. Proposal(t) = [principal |-> loan.principal, fee |-> loan.fee,
                     duration |-> Len(loan.installments),
                     monthlyFee |-> loan.monthlyFee, obligation |-> loan.obligation]
    BY <1>4, <1>6 DEF Proposal, NoProposal, GoodTerms
<1>10. LoanFits(loan, new)
    BY <1>6, <1>8, <1>9 DEF LoanFits
<1>11. QED
    BY <1>7, <1>10 DEF loan

\* What a request has told, before and after a step, is no matter of batches
\* other than the one that made it.
LEMMA CommittedFrom ==
    ASSUME NEW b \in BatchIds, NEW acknowledge, NEW ids, NEW q,
           CommittedBatch(b, acknowledge, ids)
    PROVE  FromBatch(q)' <=> FromBatch(q) \/ q \in Range(ids)
<1>1. /\ batches[b].status # "committed" /\ batches'[b].status = "committed"
      /\ batches'[b].requests = ids
      /\ \A other \in BatchIds \ {b} : batches'[other] = batches[other]
    BY DEF CommittedBatch
<1>2. QED
    BY <1>1 DEF FromBatch

\* The requests, decisions and notices that a commit makes.
LEMMA CommitStories ==
    ASSUME RequestsTyped, BatchesHold, StoriesHold, NEW b \in BatchIds, NEW acknowledge,
           NEW ids, NEW loanIds,
           CommitMakes(b, ids), CommittedBatch(b, acknowledge, ids), CommitLends(b, ids, loanIds)
    PROVE  StoriesHold'
<1> DEFINE rows == RowsOfBatch(b)
<1>1. /\ ids \in [DOMAIN rows -> LoanRequestIds]
      /\ \A n \in DOMAIN rows : loanRequests[ids[n]].status = "none"
      /\ \A q \in LoanRequestIds : (\A n \in DOMAIN rows : ids[n] # q) =>
             loanRequests'[q] = loanRequests[q]
    BY DEF CommitMakes
<1>2. /\ \A n \in Imported(b) : loanRequests'[ids[n]] = ImportedRequest(rows[n], loanIds[n])
      /\ \A n \in DOMAIN rows \ Imported(b) :
            loanRequests'[ids[n]] = NewLoanRequest(rows[n].member, "admin", InputOf(rows[n]))
      /\ \A n \in DOMAIN rows : loanNotices'[ids[n]] = {"member"}
      /\ \A q \in LoanRequestIds : (\A n \in DOMAIN rows : ids[n] # q) => loanNotices'[q] = loanNotices[q]
      /\ loanNotices' = [q \in LoanRequestIds |-> loanNotices'[q]]
      /\ loanApprovals' = loanApprovals /\ loanOverrides' = loanOverrides
    BY DEF CommitLends
<1> HIDE DEF rows
<1>3. \A q \in LoanRequestIds :
          FromBatch(q)' <=> FromBatch(q) \/ \E n \in DOMAIN rows : ids[n] = q
    BY <1>1, CommittedFrom DEF Range
<1>4. ASSUME NEW n \in DOMAIN rows
      PROVE  /\ StoryOK(loanRequests'[ids[n]], loanApprovals[ids[n]], loanOverrides[ids[n]])
             /\ ToldOK(loanRequests'[ids[n]], loanNotices'[ids[n]], TRUE)
    <2> DEFINE q   == ids[n]
               new == loanRequests'[q]
    <2>1. q \in LoanRequestIds /\ loanApprovals[q] = EmptyHistory /\ loanOverrides[q] = NoStage
        BY <1>1 DEF StoriesHold, StoryOK
    <2>2. loanNotices'[q] = {"member"}
        BY <1>2
    <2>3. CASE n \in Imported(b)
        <3>1. new = ImportedRequest(rows[n], loanIds[n])
            BY <1>2, <2>3
        <3> HIDE DEF new
        <3>2. new.status = "approved" /\ new.imported /\ new.disbursed = Today
            BY <3>1, ImportedColumns
        <3>3. new.disbursed # EmptyDate
            BY <3>2, LoanRequestsAssumption DEF EmptyDate
        <3>4. StoryOK(new, EmptyHistory, NoStage) /\ ToldOK(new, {"member"}, TRUE)
            BY <3>2, <3>3, ImportedStory, LentTold
        <3>5. QED
            BY <2>1, <2>2, <3>4 DEF new
    <2>4. CASE n \notin Imported(b)
        <3>1. new = NewLoanRequest(rows[n].member, "admin", InputOf(rows[n]))
            BY <1>2, <2>4
        <3> DEFINE m == rows[n].member
                   input == InputOf(rows[n])
        <3>2. new = NewLoanRequest(m, "admin", input)
            BY <3>1
        <3> HIDE DEF new, m, input
        <3>3. /\ new.status = "pending" /\ new.stage = "manager" /\ new.source = "admin"
              /\ ~new.imported
            BY <3>2, AskedColumns
        <3>4. StoryOK(new, EmptyHistory, NoStage) /\ ToldOK(new, {"member"}, TRUE)
            BY <3>3, AskedStory, AskedTold
        <3>5. QED
            BY <2>1, <2>2, <3>4 DEF new
    <2>5. QED
        BY <2>3, <2>4
<1>5. ASSUME NEW q \in LoanRequestIds
      PROVE  /\ StoryOK(loanRequests'[q], loanApprovals[q], loanOverrides[q])
             /\ ToldOK(loanRequests'[q], loanNotices'[q], FromBatch(q)')
    <2>1. CASE \E n \in DOMAIN rows : ids[n] = q
        <3>1. PICK n \in DOMAIN rows : ids[n] = q
            BY <2>1
        <3>2. FromBatch(q)'
            BY <1>3, <3>1
        <3>3. QED
            BY <1>4, <3>1, <3>2 DEF ToldOK
    <2>2. CASE \A n \in DOMAIN rows : ids[n] # q
        <3>1. /\ loanRequests'[q] = loanRequests[q] /\ loanNotices'[q] = loanNotices[q]
              /\ FromBatch(q)' <=> FromBatch(q)
            BY <1>1, <1>2, <1>3, <2>2
        <3>2. /\ StoryOK(loanRequests[q], loanApprovals[q], loanOverrides[q])
              /\ ToldOK(loanRequests[q], loanNotices[q], FromBatch(q))
            BY DEF StoriesHold
        <3>3. QED
            BY <3>1, <3>2 DEF ToldOK
    <2>3. QED
        BY <2>1, <2>2
<1>6. /\ loanApprovals' = [q \in LoanRequestIds |-> loanApprovals'[q]]
      /\ loanOverrides' = [q \in LoanRequestIds |-> loanOverrides'[q]]
    BY <1>2 DEF StoriesHold
<1>7. QED
    BY <1>2, <1>5, <1>6 DEF StoriesHold, ToldOK

\* The loans that a commit makes.
LEMMA CommitLoans ==
    ASSUME RequestsTyped, LoansFit, HistoryInvariant, NEW b \in BatchIds, NEW ids, NEW loanIds,
           CommitMakes(b, ids), CommitLends(b, ids, loanIds)
    PROVE  LoansFit' /\ HistoryInvariant'
<1> DEFINE rows == RowsOfBatch(b)
           lent == Imported(b)
           L    == {loanIds[n] : n \in lent}
<1>1. /\ rows \in Seq(WorkbookRow) /\ ids \in [DOMAIN rows -> LoanRequestIds]
      /\ \A k, n \in DOMAIN rows : ids[k] = ids[n] => k = n
      /\ \A n \in DOMAIN rows : rows[n].member \in Members
      /\ \A n \in DOMAIN rows : loanRequests[ids[n]].status = "none"
      /\ \A q \in LoanRequestIds : (\A n \in DOMAIN rows : ids[n] # q) =>
             loanRequests'[q] = loanRequests[q]
    BY DEF CommitMakes, IsInjective, validateAdminLoanRow
<1>2. /\ lent \subseteq DOMAIN rows
      /\ \A n \in lent : isAutoApprovedLoanImportType(rows[n].type)
    BY DEF Imported
<1>3. \A n \in DOMAIN rows : rows[n] \in WorkbookRow
    BY <1>1, ElementOfSeq, LenProperties
<1>4. /\ loanIds \in [lent -> LoanIds]
      /\ \A k, n \in lent : loanIds[k] = loanIds[n] => k = n
      /\ \A n \in lent :
            /\ loanRequests'[ids[n]] = ImportedRequest(rows[n], loanIds[n])
            /\ ~Refused(ImportedTerms(rows[n]))
            /\ loans[loanIds[n]].status = "none" /\ loans'[loanIds[n]] = LoanOfRow(rows[n])
      /\ \A n \in DOMAIN rows \ lent :
            loanRequests'[ids[n]] = NewLoanRequest(rows[n].member, "admin", InputOf(rows[n]))
      /\ \A l \in LoanIds : (\A n \in lent : loanIds[n] # l) => loans'[l] = loans[l]
      /\ loans' = [l \in LoanIds |-> loans'[l]]
      /\ repayments' = repayments /\ suspensions' = suspensions
    BY DEF CommitLends
<1> HIDE DEF rows, lent
<1>5. ASSUME NEW n \in lent
      PROVE  /\ LoanOK(loans'[loanIds[n]], 0, {}) /\ loans'[loanIds[n]].status # "none"
             /\ GetsLoan(loanRequests'[ids[n]], L) /\ loanRequests'[ids[n]].loan = loanIds[n]
    <2> DEFINE row == rows[n]
               l   == loanIds[n]
               new == loanRequests'[ids[n]]
    <2>1. /\ row \in WorkbookRow /\ row.member \in Members
          /\ isAutoApprovedLoanImportType(row.type) /\ ~Refused(ImportedTerms(row))
          /\ new = ImportedRequest(row, l) /\ loans'[l] = LoanOfRow(row)
        BY <1>1, <1>2, <1>3, <1>4
    <2>2. l \in L
        OBVIOUS
    <2> HIDE DEF row, l, new, L
    <2>3. LoanOK(loans'[l], 0, {}) /\ loans'[l].status # "none" /\ LoanFits(loans'[l], new)
        BY <2>1, ImportedLoan
    <2>4. new.disbursed = Today /\ new.loan = l
        BY <2>1, ImportedColumns
    <2>5. new.disbursed # EmptyDate
        BY <2>4, LoanRequestsAssumption DEF EmptyDate
    <2>6. GetsLoan(new, L)
        BY <2>2, <2>3, <2>4, <2>5 DEF GetsLoan
    <2>7. QED
        BY <2>3, <2>4, <2>6 DEF l, new
<1>6. L \subseteq LoanIds /\ \A l \in L : loans[l].status = "none" /\ \E n \in lent : loanIds[n] = l
    BY <1>4
<1>7. ASSUME NEW q \in LoanRequestIds
      PROVE  \/ loanRequests'[q] = loanRequests[q]
             \/ NotLent(loanRequests[q]) /\ NotLent(loanRequests'[q])
             \/ NotLent(loanRequests[q]) /\ GetsLoan(loanRequests'[q], L)
    <2> HIDE DEF L
    <2>1. CASE \E n \in DOMAIN rows : ids[n] = q
        <3>1. PICK n \in DOMAIN rows : ids[n] = q
            BY <2>1
        <3>2. NotLent(loanRequests[q])
            BY <1>1, <3>1 DEF NotLent, RequestsTyped, RequestOK, LoansFit, RequestFits
        <3>3. CASE n \in lent
            BY <1>5, <3>1, <3>2, <3>3
        <3>4. CASE n \notin lent
            <4> DEFINE m == rows[n].member
                       input == InputOf(rows[n])
            <4>1. loanRequests'[q] = NewLoanRequest(m, "admin", input)
                BY <1>4, <3>1, <3>4
            <4> HIDE DEF m, input
            <4>2. NotLent(loanRequests'[q])
                BY <4>1, AskedColumns DEF NotLent
            <4>3. QED
                BY <3>2, <4>2
        <3>5. QED
            BY <3>3, <3>4
    <2>2. QED
        BY <1>1, <2>1
<1>8. \A l \in L : loans[l].status = "none" /\ \E q \in LoanRequestIds : loanRequests'[q].loan = l
    <2>1. \A n \in lent : ids[n] \in LoanRequestIds /\ loanRequests'[ids[n]].loan = loanIds[n]
        BY <1>1, <1>2, <1>5
    <2> HIDE DEF L
    <2>2. QED
        BY <1>6, <2>1
<1>9. ASSUME NEW q \in LoanRequestIds, NEW r \in LoanRequestIds,
             loanRequests'[q].loan \in L, loanRequests'[q].loan = loanRequests'[r].loan
      PROVE  q = r
    <2>1. ASSUME NEW s \in LoanRequestIds, loanRequests'[s].loan \in L
          PROVE  \E n \in lent : ids[n] = s /\ loanRequests'[s].loan = loanIds[n]
        <3>1. loanRequests'[s].loan \in LoanIds /\ loanRequests'[s].loan # NoLoanId
              /\ loans[loanRequests'[s].loan].status = "none"
            BY <1>6, <2>1, LoanRequestsAssumption
        <3>2. loanRequests'[s] # loanRequests[s]
            BY <3>1 DEF LoansFit, RequestFits
        <3>3. PICK n \in DOMAIN rows : ids[n] = s
            BY <1>1, <3>2
        <3>4. CASE n \in lent
            BY <1>5, <3>3, <3>4
        <3>5. CASE n \notin lent
            <4> DEFINE m == rows[n].member
                       input == InputOf(rows[n])
            <4>1. loanRequests'[s] = NewLoanRequest(m, "admin", input)
                BY <1>4, <3>3, <3>5
            <4> HIDE DEF m, input
            <4>2. loanRequests'[s].loan = NoLoanId
                BY <4>1, AskedColumns
            <4>3. QED
                BY <3>1, <4>2
        <3>6. QED
            BY <3>4, <3>5
    <2> HIDE DEF L
    <2>2. PICK n \in lent : ids[n] = q /\ loanRequests'[q].loan = loanIds[n]
        BY <1>9, <2>1
    <2>3. PICK k \in lent : ids[k] = r /\ loanRequests'[r].loan = loanIds[k]
        BY <1>9, <2>1
    <2>4. k = n
        BY <1>4, <1>9, <2>2, <2>3
    <2>5. QED
        BY <2>2, <2>3, <2>4
<1>10. \A l \in LoanIds :
           \/ loans'[l] = loans[l]
           \/ loans[l].status = "none" /\ loans'[l].status # "none" /\ LoanOK(loans'[l], 0, {})
    <2> TAKE l \in LoanIds
    <2>1. CASE \A n \in lent : loanIds[n] # l
        BY <1>4, <2>1
    <2>2. CASE \E n \in lent : loanIds[n] = l
        <3>1. PICK n \in lent : loanIds[n] = l
            BY <2>2
        <3>2. loans[l].status = "none"
            BY <1>6, <3>1
        <3> HIDE DEF L
        <3>3. QED
            BY <1>5, <3>1, <3>2
    <2>3. QED
        BY <2>1, <2>2
<1>11. KeepsLoans(L)
    <2>1. \A l \in LoanIds : l \notin L => loans'[l] = loans[l]
        BY <1>4
    <2> HIDE DEF L
    <2>2. QED
        BY <1>6, <2>1 DEF KeepsLoans, SameTerms
<1> HIDE DEF L
<1>12. LoansFit'
    BY <1>6, <1>7, <1>8, <1>9, <1>11, LoansFitAfter
<1>13. HistoryOK(loans, repayments, suspensions)
    BY DEF HistoryInvariant
<1>14. HistoryInvariant'
    BY <1>4, <1>10, <1>13, OpenHistory DEF HistoryInvariant
<1>15. QED
    BY <1>12, <1>14

-----------------------------------------------------------------------------
(***************************************************************************)
(* The inductive invariant and the steps that keep it.                     *)
(***************************************************************************)
TruthInvariant ==
    /\ IntakeInvariant /\ HistoryInvariant
    /\ StoriesHold /\ LoansFit /\ OwnersKnown

LEMMA TruthStarts == LoanBatchesInit => TruthInvariant
<1> SUFFICES ASSUME LoanBatchesInit PROVE TruthInvariant
    OBVIOUS
<1>1. IntakeInvariant
    BY InitHolds
<1>2. LoanRequestsInit /\ LoansInit
    BY DEF LoanBatchesInit, LoanRequestsInit
<1>3. HistoryInvariant
    BY <1>2, InitHistory
<1>4. /\ loanRequests = [q \in LoanRequestIds |-> NoLoanRequest]
      /\ loanApprovals = [q \in LoanRequestIds |-> EmptyHistory]
      /\ loanOverrides = [q \in LoanRequestIds |-> NoStage]
      /\ loanNotices = [q \in LoanRequestIds |-> {}]
      /\ loans = [l \in LoanIds |-> NoLoan]
    BY <1>2 DEF LoanRequestsInit, LoansInit
<1>5. /\ NoLoanRequest.status = "none" /\ ~NoLoanRequest.imported
      /\ NoLoanRequest.disbursed = EmptyDate /\ NoLoanRequest.loan = NoLoanId
      /\ NoLoan.status = "none"
    BY DEF NoLoanRequest, NewLoanRequest, NoLoan
<1>6. StoriesHold
    BY <1>4, <1>5 DEF StoriesHold, StoryOK, ToldOK
<1>7. LoansFit
    BY <1>4, <1>5 DEF LoansFit, RequestFits
<1>8. OwnersKnown
    BY <1>4, <1>5 DEF OwnersKnown
<1>9. QED
    BY <1>1, <1>3, <1>6, <1>7, <1>8 DEF TruthInvariant

\* Batches keep what they made.
LEMMA FromKept ==
    ASSUME BatchesHold, BatchesKeep
    PROVE  \A q : (FromBatch(q)' <=> FromBatch(q)) /\ (FromBatch(q) => loanRequests[q].status # "none")
<1>1. \A q : FromBatch(q)' <=> FromBatch(q)
    BY DEF BatchesKeep, FromBatch
<1>2. ASSUME NEW q, FromBatch(q) PROVE loanRequests[q].status # "none"
    <2>1. PICK b \in BatchIds : batches[b].status = "committed" /\ q \in Range(batches[b].requests)
        BY <1>2 DEF FromBatch
    <2> DEFINE batch == batches[b]
               rows  == parseAdminLoanWorkbook(batch.file)
               ids   == batch.requests
    <2>2. Made(batch) /\ q \in Range(ids)
        BY <2>1 DEF BatchesHold
    <2>3. PICK n \in DOMAIN rows : ids[n] = q
        BY <2>2 DEF Made
    <2>4. MadeFor(rows[n], loanRequests[ids[n]])
        BY <2>2 DEF Made
    <2>5. QED
        BY <2>3, <2>4 DEF MadeFor
<1>3. QED
    BY <1>1, <1>2

LEMMA StoriesKeep ==
    ASSUME BatchesHold, BatchesKeep, StoriesHold, NEW q \in LoanRequestIds, NEW new, StoryMove(q, new)
    PROVE  /\ StoriesHold' /\ loanRequests'[q] = new
           /\ \A r \in LoanRequestIds \ {q} : loanRequests'[r] = loanRequests[r]
<1>1. /\ loanRequests'[q] = new
      /\ \A r \in LoanRequestIds \ {q} :
            /\ loanRequests'[r] = loanRequests[r] /\ loanApprovals'[r] = loanApprovals[r]
            /\ loanOverrides'[r] = loanOverrides[r] /\ loanNotices'[r] = loanNotices[r]
      /\ loanApprovals' = [r \in LoanRequestIds |-> loanApprovals'[r]]
      /\ loanOverrides' = [r \in LoanRequestIds |-> loanOverrides'[r]]
      /\ loanNotices' = [r \in LoanRequestIds |-> loanNotices'[r]]
    BY DEF StoryMove, OnlyAt
<1>2. FromBatch(q)' \in BOOLEAN /\ (FromBatch(q)' => loanRequests[q].status # "none")
    BY FromKept DEF FromBatch
<1>3. /\ StoryOK(loanRequests'[q], loanApprovals'[q], loanOverrides'[q])
      /\ ToldOK(loanRequests'[q], loanNotices'[q], FromBatch(q)')
    BY <1>1, <1>2 DEF StoryMove
<1>4. ASSUME NEW r \in LoanRequestIds \ {q}
      PROVE  /\ StoryOK(loanRequests'[r], loanApprovals'[r], loanOverrides'[r])
             /\ ToldOK(loanRequests'[r], loanNotices'[r], FromBatch(r)')
    <2>1. /\ StoryOK(loanRequests[r], loanApprovals[r], loanOverrides[r])
          /\ ToldOK(loanRequests[r], loanNotices[r], FromBatch(r))
        BY DEF StoriesHold
    <2>2. FromBatch(r)' <=> FromBatch(r)
        BY FromKept
    <2>3. QED
        BY <1>1, <2>1, <2>2 DEF ToldOK
<1>5. StoriesHold'
    BY <1>1, <1>3, <1>4 DEF StoriesHold, StoryOK, ToldOK
<1>6. QED
    BY <1>1, <1>5

LEMMA StoriesStay ==
    ASSUME BatchesHold, BatchesKeep, StoriesHold,
           UNCHANGED <<loanRequests, loanApprovals, loanOverrides, loanNotices>>
    PROVE  StoriesHold'
<1>1. \A q : FromBatch(q)' <=> FromBatch(q)
    BY FromKept
<1>2. QED
    BY <1>1 DEF StoriesHold, StoryOK, ToldOK

LEMMA OwnersStay ==
    ASSUME IntakeInvariant, OwnersKnown, [LoanBatchesNext]_intakeVars
    PROVE  OwnersKnown'
<1>1. CASE UNCHANGED loanRequests
    BY <1>1 DEF OwnersKnown
<1>2. ASSUME NEW q \in LoanRequestIds, NEW m \in Members, AsksFor(q, m) PROVE OwnersKnown'
    BY <1>2 DEF OwnersKnown, AsksFor
<1>3. ASSUME NEW q \in LoanRequestIds, MovesOnly(q) PROVE OwnersKnown'
    <2>1. loanRequests[q].status # "none" /\ loanRequests'[q].member = loanRequests[q].member
        BY <1>3, PhaseFacts DEF MovesOnly, Moves, SameRequest
    <2>2. QED
        BY <1>3, <2>1 DEF OwnersKnown, MovesOnly
<1>4. ASSUME NEW b \in BatchIds, Commits(b) PROVE OwnersKnown'
    <2>1. PICK ids : CommitMakes(b, ids)
        BY <1>4, CommitsFact DEF IntakeInvariant
    <2>2. /\ \A n \in DOMAIN RowsOfBatch(b) : loanRequests'[ids[n]].member \in Members
          /\ \A q \in LoanRequestIds : (\A n \in DOMAIN RowsOfBatch(b) : ids[n] # q) =>
                 loanRequests'[q] = loanRequests[q]
        BY <2>1 DEF CommitMakes, CreatedFrom
    <2>3. QED
        BY <2>2 DEF OwnersKnown
<1>5. QED
    BY <1>1, <1>2, <1>3, <1>4, Steps DEF OneRequest

-----------------------------------------------------------------------------
\* What a step does to requests and loans together.
Idle == UNCHANGED <<loansVars, loanRequests, loanApprovals, loanOverrides, loanNotices>>

Talks(q) ==
    /\ \E new : StoryMove(q, new) /\ NotLent(new)
    /\ NotLent(loanRequests[q]) /\ UNCHANGED loansVars

Lives == (RepaymentStep \/ ScheduleStep) /\ UNCHANGED loanRequestVars

LEMMA RequestStepTalks ==
    ASSUME TruthInvariant, NEW q \in LoanRequestIds, LoanRequestStep(q)
    PROVE  Talks(q)
<1>1. UNCHANGED loansVars
    BY DEF LoanRequestStep, insertLoanRequest, createAdminLoanRequestFor,
           approveLoanRequestByID, rejectLoanRequestByID, cancelLoanRequestByID,
           cancelAdminLoanRequest, overrideLoanRequestByID, rejectLoanRequestBySuperAdmin
<1>2. QED
    BY <1>1, RequestStepStory DEF TruthInvariant, IntakeInvariant, Talks

LEMMA CallTalks ==
    ASSUME TruthInvariant, NEW c \in Calls, NEW q \in LoanRequestIds, createUnderKey(c, q)
    PROVE  Talks(q) /\ UNCHANGED batches
<1> DEFINE call == calls[c]
<1>1. call.member \in Members /\ call.input \in LoanInputs
    BY DEF createUnderKey, CallsTyped, TruthInvariant, IntakeInvariant
<1>2. createAdminLoanRequestFor(q, call.member, call.input) /\ UNCHANGED batches
    BY DEF createUnderKey
<1> HIDE DEF call
<1>3. LoanRequestStep(q)
    BY <1>1, <1>2 DEF LoanRequestStep
<1>4. QED
    BY <1>2, <1>3, RequestStepTalks

LEMMA TruthSteps ==
    ASSUME TruthInvariant, [LoanBatchesNext]_intakeVars
    PROVE  \/ BatchesKeep /\ Idle
           \/ BatchesKeep /\ \E q \in LoanRequestIds : Talks(q)
           \/ BatchesKeep /\ \E q \in LoanRequestIds : \E l, date, repaid : Disburses(q, l, date, repaid)
           \/ BatchesKeep /\ Lives
           \/ \E b \in BatchIds : Commits(b)
<1>1. BatchesHold
    BY DEF TruthInvariant, IntakeInvariant
<1>2. ASSUME NEW b \in BatchIds, BatchStep(b)
      PROVE  Commits(b) \/ (BatchesKeep /\ Idle)
    BY <1>1, <1>2, BatchSteps DEF lendingVars, loanRequestVars, Idle
<1>3. ASSUME NEW c \in Calls, KeyStep(c)
      PROVE  BatchesKeep /\ (Idle \/ \E q \in LoanRequestIds : Talks(q))
    <2>1. CASE \E q \in LoanRequestIds : createUnderKey(c, q)
        BY <1>1, <2>1, CallTalks, UntouchedBatches
    <2>2. CASE ~\E q \in LoanRequestIds : createUnderKey(c, q)
        <3>1. UNCHANGED <<lendingVars, batches>>
            BY <1>3, <2>2 DEF KeyStep, lookUpIdempotencyKey, dropCall
        <3>2. QED
            BY <1>1, <3>1, UntouchedBatches DEF lendingVars, loanRequestVars, Idle
    <2>3. QED
        BY <2>1, <2>2
<1>4. CASE managerChanges
    BY <1>1, <1>4, UntouchedBatches DEF managerChanges, lendingVars, loanRequestVars, Idle
<1>5. CASE LoanRequestsNext /\ UNCHANGED batchVars
    <2>1. BatchesKeep
        BY <1>1, <1>5, UntouchedBatches DEF batchVars
    <2>2. ASSUME NEW q \in LoanRequestIds, DisbursementStep(q)
          PROVE  \E l, date, repaid : Disburses(q, l, date, repaid)
        BY <2>2 DEF DisbursementStep, Disburses
    <2>3. CASE DepositStep \/ \E m \in Members, type \in MemberTypes : updateMemberType(m, type)
        <3>1. Idle
            BY <2>3 DEF DepositStep, updateMemberType, Idle, loanRequestVars
        <3>2. QED
            BY <2>1, <3>1
    <2>4. QED
        BY <1>5, <2>1, <2>2, <2>3, RequestStepTalks DEF LoanRequestsNext, Lives
<1>6. CASE UNCHANGED intakeVars
    BY <1>1, <1>6, UntouchedBatches
       DEF intakeVars, batchVars, lendingVars, loanRequestVars, Idle
<1>7. QED
    BY <1>2, <1>3, <1>4, <1>5, <1>6 DEF LoanBatchesNext

LEMMA IdleKeeps ==
    ASSUME TruthInvariant, BatchesKeep, Idle
    PROVE  HistoryInvariant' /\ StoriesHold' /\ LoansFit'
<1>1. /\ UNCHANGED <<loanRequests, loanApprovals, loanOverrides, loanNotices>>
      /\ loans' = loans /\ repayments' = repayments /\ suspensions' = suspensions
    BY DEF Idle, loansVars
<1>2. HistoryInvariant'
    BY <1>1 DEF TruthInvariant, HistoryInvariant
<1>3. StoriesHold'
    BY <1>1, StoriesStay DEF TruthInvariant, IntakeInvariant
<1>4. LoansFit'
    BY <1>1, LoansStay DEF TruthInvariant
<1>5. QED
    BY <1>2, <1>3, <1>4

LEMMA TalksKeep ==
    ASSUME TruthInvariant, BatchesKeep, NEW q \in LoanRequestIds, Talks(q)
    PROVE  HistoryInvariant' /\ StoriesHold' /\ LoansFit'
<1>1. PICK new : StoryMove(q, new) /\ NotLent(new)
    BY DEF Talks
<1>2. /\ StoriesHold' /\ loanRequests'[q] = new
      /\ \A r \in LoanRequestIds \ {q} : loanRequests'[r] = loanRequests[r]
    BY <1>1, StoriesKeep DEF TruthInvariant, IntakeInvariant
<1>3. /\ loans' = loans /\ repayments' = repayments /\ suspensions' = suspensions
      /\ NotLent(loanRequests[q])
    BY DEF Talks, loansVars
<1>4. HistoryInvariant'
    BY <1>3 DEF TruthInvariant, HistoryInvariant
<1>5. \A r \in LoanRequestIds :
          \/ loanRequests'[r] = loanRequests[r]
          \/ NotLent(loanRequests[r]) /\ NotLent(loanRequests'[r])
    BY <1>1, <1>2, <1>3
<1>6. LoansFit'
    BY <1>3, <1>5, LoansStay DEF TruthInvariant
<1>7. QED
    BY <1>2, <1>4, <1>6

LEMMA LivesKeep ==
    ASSUME TruthInvariant, BatchesKeep, Lives
    PROVE  HistoryInvariant' /\ StoriesHold' /\ LoansFit'
<1>1. HistoryInvariant' /\ \E l \in LoanIds : ChangesLoan(l) /\ loans[l].status # "none"
    BY LifeStep DEF TruthInvariant, Lives
<1>2. PICK l \in LoanIds : ChangesLoan(l) /\ loans[l].status # "none"
    BY <1>1
<1>3. KeepsLoans({})
    BY <1>2 DEF ChangesLoan, KeepsLoans, SameTerms
<1>4. UNCHANGED <<loanRequests, loanApprovals, loanOverrides, loanNotices>>
    BY DEF Lives, loanRequestVars
<1>5. LoansFit'
    BY <1>3, <1>4, LoansFitAfter DEF TruthInvariant
<1>6. StoriesHold'
    BY <1>4, StoriesStay DEF TruthInvariant, IntakeInvariant
<1>7. QED
    BY <1>1, <1>5, <1>6

LEMMA CommitsKeep ==
    ASSUME TruthInvariant, NEW b \in BatchIds, Commits(b)
    PROVE  HistoryInvariant' /\ StoriesHold' /\ LoansFit'
<1>1. PICK officer \in Officers, acknowledge \in BOOLEAN,
           ids \in [DOMAIN RowsOfBatch(b) -> LoanRequestIds],
           loanIds \in [{n \in DOMAIN RowsOfBatch(b) :
                             isAutoApprovedLoanImportType(RowsOfBatch(b)[n].type)} -> LoanIds] :
               commitAdminLoanRequestBatch(b, officer, acknowledge, ids, loanIds)
    BY DEF Commits
<1>2. BatchesHold /\ RequestsTyped /\ batches \in [BatchIds -> Rows]
    BY DEF TruthInvariant, IntakeInvariant, BatchesHold
<1>3. loanIds \in [Imported(b) -> LoanIds]
    BY <1>1 DEF Imported
<1>4. CommitMakes(b, ids)
    BY <1>1, <1>2, Committing
<1>5. CommittedBatch(b, acknowledge, ids)
    BY <1>1, <1>2, <1>4, CommittingBatch
<1>6. CommitLends(b, ids, loanIds)
    BY <1>1, <1>3, CommittingLends
<1>7. QED
    BY <1>2, <1>4, <1>5, <1>6, CommitStories, CommitLoans DEF TruthInvariant

LEMMA TruthKeeps ==
    ASSUME TruthInvariant, [LoanBatchesNext]_intakeVars
    PROVE  TruthInvariant'
<1>1. IntakeInvariant'
    BY StepHolds DEF TruthInvariant
<1>2. OwnersKnown'
    BY OwnersStay DEF TruthInvariant
<1>3. HistoryInvariant' /\ StoriesHold' /\ LoansFit'
    <2>1. ASSUME BatchesKeep, NEW q \in LoanRequestIds, NEW l, NEW date, NEW repaid,
                 Disburses(q, l, date, repaid)
          PROVE  HistoryInvariant' /\ StoriesHold' /\ LoansFit'
        <3>1. (\E new : StoryMove(q, new)) /\ LoansFit'
            BY <2>1, DisbursementStory DEF TruthInvariant, IntakeInvariant
        <3>2. HistoryInvariant'
            BY <2>1, DisbursementHistory DEF TruthInvariant, IntakeInvariant
        <3>3. QED
            BY <2>1, <3>1, <3>2, StoriesKeep DEF TruthInvariant, IntakeInvariant
    <2>2. QED
        BY <2>1, IdleKeeps, TalksKeep, LivesKeep, CommitsKeep, TruthSteps
<1>4. QED
    BY <1>1, <1>2, <1>3 DEF TruthInvariant

\* The invariant holds in every state that can be reached.
THEOREM TruthInvariantHolds == LoanBatchesSpec => []TruthInvariant
<1>1. TruthInvariant /\ [LoanBatchesNext]_intakeVars => TruthInvariant'
    BY TruthKeeps
<1>2. QED
    BY TruthStarts, <1>1, PTL DEF LoanBatchesSpec

-----------------------------------------------------------------------------
(***************************************************************************)
(* Requests, decisions, notices and loans tell one story.                  *)
(***************************************************************************)
LEMMA TruthTold == TruthInvariant => RequestsTellTheTruth
<1> SUFFICES ASSUME TruthInvariant PROVE RequestsTellTheTruth
    OBVIOUS
<1>1. /\ RequestsTyped /\ StoriesHold /\ LoansFit /\ HistoryInvariant
      /\ NoLoanId \notin LoanIds
    BY LoanRequestsAssumption DEF TruthInvariant, IntakeInvariant
<1>2. ASSUME NEW l \in LoanIds, loans[l].status # "none"
      PROVE  Scheduled(loans[l].installments) = loans[l].principal + loans[l].fee
    BY <1>1, <1>2 DEF HistoryInvariant, HistoryOK, LoanOK, RowOK, Balanced
<1>3. ASSUME NEW q \in Asked
      PROVE  LET row == loanRequests[q] IN
             IF row.disbursed = EmptyDate THEN row.loan = NoLoanId
             ELSE LET loan == loans[row.loan] IN
                  /\ row.status = "approved" /\ row.loan \in Debts
                  /\ loan.member = row.member /\ loan.type = row.type
                  /\ row.proposed = [principal |-> loan.principal, fee |-> loan.fee,
                                     duration |-> Len(loan.installments),
                                     monthlyFee |-> loan.monthlyFee,
                                     obligation |-> loan.obligation]
                  /\ Scheduled(loan.installments) = row.proposed.principal + row.proposed.fee
    <2> DEFINE row  == loanRequests[q]
               loan == loans[row.loan]
    <2>1. RequestOK(row) /\ RequestFits(row)
        BY <1>1 DEF RequestsTyped, LoansFit, Asked
    <2>2. CASE row.disbursed = EmptyDate
        BY <2>1, <2>2 DEF RequestFits
    <2>3. CASE row.disbursed # EmptyDate
        <3>1. /\ row.status = "approved" /\ row.loan \in LoanIds /\ loan.status # "none"
              /\ LoanFits(loan, row)
            BY <2>1, <2>3 DEF RequestOK, RequestFits
        <3>2. Scheduled(loan.installments) = loan.principal + loan.fee
            BY <1>2, <3>1
        <3> HIDE DEF row, loan
        <3>3. /\ loan.member = row.member /\ loan.type = row.type
              /\ row.proposed = [principal |-> loan.principal, fee |-> loan.fee,
                                 duration |-> Len(loan.installments),
                                 monthlyFee |-> loan.monthlyFee,
                                 obligation |-> loan.obligation]
            BY <3>1 DEF LoanFits
        <3>4. Scheduled(loan.installments) = row.proposed.principal + row.proposed.fee
            BY <3>2, <3>3
        <3>5. QED
            BY <2>3, <3>1, <3>3, <3>4 DEF row, loan, Debts
    <2>4. QED
        BY <2>2, <2>3
<1>4. ASSUME NEW l \in Debts
      PROVE  Cardinality({q \in Asked : loanRequests[q].loan = l}) = 1
    <2>1. l \in LoanIds /\ loans[l].status # "none" /\ l # NoLoanId
        BY <1>1 DEF Debts
    <2>2. PICK q \in LoanRequestIds : loanRequests[q].loan = l
        BY <1>1, <2>1 DEF LoansFit
    <2>3. loanRequests[q].disbursed # EmptyDate
        BY <1>1, <2>1, <2>2 DEF LoansFit, RequestFits
    <2>4. q \in Asked
        BY <1>1, <2>3 DEF RequestsTyped, RequestOK, Asked
    <2>5. \A r \in Asked : loanRequests[r].loan = l => r = q
        BY <1>1, <2>1, <2>2 DEF LoansFit, Asked
    <2>6. {r \in Asked : loanRequests[r].loan = l} = {q}
        BY <2>2, <2>4, <2>5
    <2>7. QED
        BY <2>6, FS_Singleton
<1>5. LentAsAgreed
    BY <1>3, <1>4 DEF LentAsAgreed
<1>6. LoanChain
    BY <1>1 DEF StoriesHold, StoryOK, LoanChain, Asked
<1>7. LoanNoticesFollow
    BY <1>1 DEF StoriesHold, ToldOK, LoanNoticesFollow, Asked
<1>8. QED
    BY <1>5, <1>6, <1>7 DEF RequestsTellTheTruth

\* A loan that was paid out is on the terms its officers approved and the loan of
\* one request; each request carries the decisions that its stage and status call
\* for; and its open notices address whoever has to act on it or must know.
\* (approveLoanRequestByID, overrideLoanRequestByID, disburseLoanRequestByID,
\* commitAdminLoanRequestBatch, resolveRequestNotifications)
THEOREM RequestsTellTheTruthHolds == LoanBatchesSpec => []RequestsTellTheTruth
BY TruthInvariantHolds, TruthTold, PTL

-----------------------------------------------------------------------------
(***************************************************************************)
(* What is kept back of a new loan is what the older ones still owe.       *)
(***************************************************************************)
LEMMA PayoffRecorded ==
    ASSUME HistoryInvariant, NEW settled, NEW repaid, Settles(settled, repaid)
    PROVE  LET new == {r \in RepaymentIds : repayments[r].status = "none"
                                            /\ repayments'[r].status = "recorded"}
           IN  PayoffOf(settled) = SumFunction([r \in new |-> repayments'[r].amount])
<1> DEFINE new  == {r \in RepaymentIds : repayments[r].status = "none"
                                         /\ repayments'[r].status = "recorded"}
           owed == [l \in settled |-> loans[l].remaining]
           paid == [r \in new |-> repayments'[r].amount]
<1>1. /\ settled \subseteq LoanIds /\ repaid \in [settled -> RepaymentIds]
      /\ \A k, other \in settled : repaid[k] = repaid[other] => k = other
      /\ \A k \in settled : repayments[repaid[k]].status = "none"
    BY DEF Settles
<1>2. /\ \A k \in settled : /\ loans[k].remaining \in Nat
                            /\ repayments'[repaid[k]].status = "recorded"
                            /\ repayments'[repaid[k]].amount = loans[k].remaining
      /\ \A r \in RepaymentIds : (\A k \in settled : repaid[k] # r) => repayments'[r] = repayments[r]
    BY SettledRows
<1>3. new = {repaid[k] : k \in settled}
    BY <1>1, <1>2
<1>4. \A k \in settled : owed[k] \in Int /\ repaid[k] \in new /\ owed[k] = paid[repaid[k]]
    BY <1>1, <1>2
<1>5. IsFiniteSet(settled) /\ IsFiniteSet(RepaymentIds)
    BY <1>1, LoansAssumption, FS_Subset
<1>6. DOMAIN owed = settled /\ DOMAIN paid = new
    OBVIOUS
<1> HIDE DEF new, owed, paid
<1>7. SumFunctionOnSet(owed, settled) = SumFunctionOnSet(paid, {repaid[k] : k \in settled})
    BY <1>1, <1>4, <1>5, SumReindexed
<1>8. SumFunctionOnSet(owed, settled) = SumFunctionOnSet(paid, new)
    BY <1>3, <1>7
<1>9. SumFunction(owed) = SumFunction(paid)
    BY <1>6, <1>8 DEF SumFunction
<1>10. QED
    BY <1>9 DEF PayoffOf, owed, paid, new

LEMMA PayoffHolds ==
    ASSUME TruthInvariant, [LoanBatchesNext]_intakeVars, NEW q \in Asked,
           loanRequests[q].disbursed = EmptyDate, loanRequests'[q].disbursed # EmptyDate
    PROVE  LET row == loanRequests'[q]
               new == {r \in RepaymentIds : repayments[r].status = "none"
                                            /\ repayments'[r].status = "recorded"}
           IN /\ row.payoff = SumFunction([r \in new |-> repayments'[r].amount])
              /\ row.payoff <= row.proposed.principal
              /\ \A l \in Debts :
                    IF row.settle /\ loans[l].type = "regular" /\ loans[l].member = row.member
                    THEN loans'[l].remaining = 0 ELSE loans'[l] = loans[l]
<1> DEFINE old     == loanRequests[q]
           row     == loanRequests'[q]
           settled == Settled(old)
           payoff  == PayoffOf(settled)
<1>1. /\ q \in LoanRequestIds /\ RequestsTyped /\ OwnersKnown /\ HistoryInvariant
      /\ RequestOK(old) /\ IntakeInvariant
    BY DEF TruthInvariant, IntakeInvariant, RequestsTyped, Asked
<1>2. PICK l, date, repaid : Disburses(q, l, date, repaid)
    BY <1>1, LendingStep DEF DisbursementStep, Disburses
<1>3. /\ row = PaidOut(old, date, payoff, l) /\ PayoffFits(settled, old.proposed.principal)
    <2>1. Stored(q, PaidOut(old, date, payoff, l))
        BY <1>2 DEF Disburses, disburseLoanRequestByID, PaidOut, Settled
    <2>2. row = PaidOut(old, date, payoff, l)
        BY <1>1, <2>1, StoredRow
    <2>3. PayoffFits(settled, old.proposed.principal)
        BY <1>2 DEF Disburses, disburseLoanRequestByID, Settled
    <2>4. QED
        BY <2>2, <2>3
<1>4. /\ row.payoff = payoff /\ row.proposed = old.proposed /\ row.settle = old.settle
      /\ row.member = old.member
    <2> HIDE DEF payoff, old, row
    <2>1. QED
        BY <1>1, <1>3 DEF RequestOK, RowsWithPayoff, PaidOut
<1>5. payoff <= old.proposed.principal
    BY <1>3 DEF PayoffFits
<1>6. Settles(settled, repaid)
    BY <1>1, <1>2, DisbursementSettles
<1>7. LET new == {r \in RepaymentIds : repayments[r].status = "none"
                                       /\ repayments'[r].status = "recorded"}
      IN  payoff = SumFunction([r \in new |-> repayments'[r].amount])
    BY <1>1, <1>6, PayoffRecorded
<1>8. /\ \A k \in settled : loans'[k].remaining = 0
      /\ \A k \in LoanIds \ {l} : k \notin settled => loans'[k] = loans[k]
    BY <1>1, <1>2, DisbursementHistory
<1>9. loans[l].status = "none"
    BY <1>1, <1>2, DisbursedLoan
<1>10. ASSUME NEW k \in Debts
       PROVE  IF row.settle /\ loans[k].type = "regular" /\ loans[k].member = row.member
              THEN loans'[k].remaining = 0 ELSE loans'[k] = loans[k]
    <2>1. k \in LoanIds /\ loans[k].status # "none" /\ k # l
        BY <1>9 DEF Debts
    <2>2. RowOK(loans[k])
        BY <1>1, <2>1 DEF HistoryInvariant, HistoryOK, LoanOK
    <2>3. loans[k].remaining \in Nat /\ (loans[k].remaining # 0 => Collectable(loans[k]))
        BY <2>2, RowFacts DEF RowOK, Collectable
    <2>4. CASE k \in settled
        <3>1. old.settle /\ loans[k].type = "regular" /\ loans[k].member = old.member
            BY <2>4 DEF Settled, OutstandingRegular
        <3>2. QED
            BY <1>4, <1>8, <2>4, <3>1
    <2>5. CASE k \notin settled
        <3>1. loans'[k] = loans[k]
            BY <1>8, <2>1, <2>5
        <3>2. (old.settle /\ loans[k].type = "regular" /\ loans[k].member = old.member)
                  => loans[k].remaining = 0
            BY <2>1, <2>3, <2>5 DEF Settled, OutstandingRegular
        <3>3. QED
            BY <1>4, <3>1, <3>2
    <2>6. QED
        BY <2>4, <2>5
<1> HIDE DEF payoff, row
<1>11. row.payoff <= row.proposed.principal
    BY <1>4, <1>5
<1>12. QED
    BY <1>4, <1>7, <1>10, <1>11 DEF row

\* Paying off the older loans with a new one moves exactly what is owed: what is
\* kept back is what the repayments of the same step record, it does not exceed
\* the new principal, and other loans are left alone.  (disburseLoanRequestByID)
THEOREM PaysOffExactlyHolds == LoanBatchesSpec => PaysOffExactly
<1> DEFINE Holds ==
        \A q \in Asked :
            LET row == loanRequests'[q]
                new == {r \in RepaymentIds : repayments[r].status = "none"
                                             /\ repayments'[r].status = "recorded"}
            IN loanRequests[q].disbursed = EmptyDate /\ row.disbursed # EmptyDate =>
               /\ row.payoff = SumFunction([r \in new |-> repayments'[r].amount])
               /\ row.payoff <= row.proposed.principal
               /\ \A l \in Debts :
                     IF row.settle /\ loans[l].type = "regular" /\ loans[l].member = row.member
                     THEN loans'[l].remaining = 0 ELSE loans'[l] = loans[l]
<1>1. TruthInvariant /\ [LoanBatchesNext]_intakeVars => [Holds]_lendingVars
    BY PayoffHolds
<1>2. QED
    BY TruthInvariantHolds, <1>1, PTL DEF LoanBatchesSpec, PaysOffExactly
=============================================================================
