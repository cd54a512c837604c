----------------------------- MODULE LoanQuotes -----------------------------
(***************************************************************************)
(* The calculations of loan_schedule.go over many inputs: a step computes  *)
(* the terms of one loan, as an approval or an import does, and pays them  *)
(* back in one or two amounts.                                             *)
(***************************************************************************)
EXTENDS LoanSchedule, FiniteSetsExt

CONSTANTS Principals, Durations, Starts, Rates, VoucherFees

ASSUME LoanQuotesAssumption ==
    /\ Principals \subseteq Nat /\ Durations \subseteq Nat /\ Starts \subseteq Nat
    /\ Rates \subseteq Nat /\ VoucherFees \subseteq Nat

VARIABLE quote     \* [type, rate, start, terms], the last calculation

NoQuote == [type |-> "none", rate |-> 0, start |-> 0, terms |-> NoTerms]

Quotable(type, principal, duration, start, extra) ==
    CASE type = "regular"         -> calculateRegularLoanSchedule(principal, duration, start)
      [] type = "secondary_goods" -> calculateSecondaryGoodsLoanSchedule(principal, duration, start)
      [] type = "goods_purchase_paylater" ->
             calculatePaylaterLoanSchedule(principal, duration, start)
      [] type = "voucher" -> calculateVoucherLoanSchedule(principal, extra, duration, start)
      [] type = "legacy"  ->
             calculateLoanScheduleWithMaxDuration(principal, duration, extra, start, 120)

QuotesInit == quote = NoQuote

Quote(type, extras) ==
    \E principal \in Principals, duration \in Durations, start \in Starts, extra \in extras :
        LET terms == Quotable(type, principal, duration, start, extra) IN
        /\ quote.type = "none"
        /\ ~Refused(terms)
        /\ quote' = [type |-> type, rate |-> extra, start |-> start, terms |-> terms]

QuotesNext ==
    \/ \E type \in LoanTypes \ {"voucher"} : Quote(type, {0})
    \/ Quote("voucher", VoucherFees)
    \/ Quote("legacy", Rates)

QuotesSpec == QuotesInit /\ [][QuotesNext]_quote

Quoted == quote.type # "none"

-----------------------------------------------------------------------------
Abs(x) == IF x < 0 THEN -x ELSE x

\* A hundred times a hundred times what the policy asks for per month (regular)
\* or in all, in exact arithmetic: parts per 10,000.
ExactFee(type, principal, rate, duration) ==
    CASE type = "regular" ->
             LET tier == Min({principal, FirstTierLimit}) IN
             tier * 100 + (principal - tier) * 150
      [] type = "secondary_goods"         -> principal * 2000
      [] type = "goods_purchase_paylater" -> principal * 500
      [] type = "voucher"                 -> rate * 10000
      [] type = "legacy"                  -> principal * rate * duration

\* A fee is the policy's percentage rounded to the nearest rupiah, also next to
\* the largest amount that int64 holds: no product or sum wraps around before
\* a guard refuses it (loan_schedule.go, calculate*AdminFee*).
FeesAreExact ==
    Quoted =>
        LET t     == quote.terms
            per   == IF quote.type = "regular" THEN t.monthlyFee ELSE t.fee
            exact == ExactFee(quote.type, t.principal, quote.rate, t.duration)
        IN /\ per >= 0
           /\ 2 * Abs(per * 10000 - exact) <= 10000
           /\ t.fee = (IF quote.type = "regular" THEN per * t.duration ELSE per)
           /\ t.obligation = t.principal + t.fee

\* The instalments add up to the debt, each is at least one rupiah, and only
\* the last one differs, by less than one rupiah per month.
InstalmentsAddUp ==
    Quoted =>
        LET t == quote.terms
            s == [n \in DOMAIN t.installments |-> t.installments[n].scheduled]
        IN /\ Scheduled(t.installments) = t.obligation
           /\ \A n \in DOMAIN s : s[n] >= 1
           /\ \A n \in 1 .. Len(s) - 1 : s[n] = s[1]
           /\ s[Len(s)] - s[1] \in 0 .. t.duration - 1

\* The first instalment is due one to two months after the start, the others
\* month by month after it.
DueMonthly ==
    Quoted =>
        LET items == quote.terms.installments IN
        /\ items[1].due >= quote.start + 100
        /\ items[1].due < quote.start + 200
        /\ \A n \in 1 .. Len(items) - 1 : MonthOf(items[n + 1].due) = MonthOf(items[n].due) + 1

\* What an approval writes down, the check before the disbursement accepts: a
\* request that was approved is never stuck on its own terms.
SnapshotsValidate ==
    Quoted =>
        LET t == quote.terms
            policy == IF quote.type = "legacy" THEN "legacy_flat_monthly" ELSE PolicyOf(quote.type)
        IN validateLoanFeeSnapshot(policy, t.principal, t.duration, t.monthlyFee, t.fee,
                                   t.obligation)

\* Paying the debt in two parts, whatever the parts, pays every instalment, and
\* the first part leaves a paid prefix and at most one instalment begun.
PaidInOrder ==
    Quoted =>
        \A part \in {1, quote.terms.obligation \div 2, quote.terms.obligation - 1} \ {0} :
            LET items == quote.terms.installments
                rest  == quote.terms.obligation - part
                first == allocateRepaymentsOldestFirst(items, <<part>>)
            IN /\ PaidSum(first) = part
               /\ \A n \in 2 .. Len(first) : first[n].paid > 0 => Unpaid(first[n - 1]) = 0
               /\ UnpaidSum(PayOldestFirst(first, rest)) = 0
               /\ PayOldestFirst(first, rest)
                    = allocateRepaymentsOldestFirst(items, <<rest, part>>)

\* The terms of a loan, calculated, validated and paid back by five functions of
\* loan_schedule.go, agree to the rupiah and to the month.
TermsAreExact ==
    /\ FeesAreExact
    /\ InstalmentsAddUp
    /\ DueMonthly
    /\ SnapshotsValidate
    /\ PaidInOrder
=============================================================================
