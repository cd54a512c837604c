---------------------------- MODULE LoanSchedule ----------------------------
(***************************************************************************)
(* What a loan costs and when it is due: internal/app/loan_schedule.go.    *)
(* A module without state.                                                 *)
(*                                                                         *)
(* A date is the number 100 * month + day, the months being counted from a *)
(* January, so that dates compare as the strings YYYY-MM-DD do.  Amounts   *)
(* are int64: each product and sum wraps around, MaxInt64 being the width, *)
(* and the guards of the code have to keep it from doing so.               *)
(***************************************************************************)
EXTENDS Integers, Sequences, SequencesExt

CONSTANTS
    MaxInt64,           \* 2^63 - 1, scaled down for TLC
    FirstTierLimit      \* regularLoanFirstTierLimit

ASSUME LoanScheduleAssumption ==
    /\ FirstTierLimit \in Nat \ {0}
    /\ MaxInt64 \in Nat
    /\ 100 * FirstTierLimit <= MaxInt64

Int64(x) == ((x + MaxInt64 + 1) % (2 * MaxInt64 + 2)) - MaxInt64 - 1

LoanTypes == {"regular", "secondary_goods", "goods_purchase_paylater", "voucher"}

maxLoanDurationForType(type) ==
    CASE type = "regular"         -> 24
      [] type = "secondary_goods" -> 12
      [] OTHER                    -> 1

-----------------------------------------------------------------------------
\* Dates.
Date(month, day) == 100 * month + day
MonthOf(date)    == date \div 100
DayOf(date)      == date % 100

loanDueDate(start, number) ==
    LET firstDueMonthOffset == IF DayOf(start) > 20 THEN 2 ELSE 1 IN
    Date(MonthOf(start) + firstDueMonthOffset + number - 1, 20)

DaysIn(month) == <<31, 28, 31, 30, 31, 30, 31, 31, 30, 31, 30, 31>>[(month % 12) + 1]

\* The same day a month later, or the last day of a shorter month.
nextSuspensionDate(date) ==
    LET next == MonthOf(date) + 1 IN
    Date(next, IF DayOf(date) > DaysIn(next) THEN DaysIn(next) ELSE DayOf(date))

-----------------------------------------------------------------------------
\* Fees.  A calculation that the code refuses has the value NoFee.
NoFee == -1

\* Mutant: the product is formed before it is known to fit.
calculatePercentAdminFee_Unguarded(principal, percent) ==
    Int64(principal * percent + 50) \div 100

calculatePercentAdminFee(principal, percent) ==
    IF principal > (MaxInt64 - 50) \div percent THEN NoFee
    ELSE Int64(principal * percent + 50) \div 100

\* Half up, as a division and a comparison of the remainder.
HalfUp(numerator, denominator) ==
    numerator \div denominator +
    IF numerator % denominator >= denominator \div 2 THEN 1 ELSE 0

\* 1% up to the limit of the first tier, 1.5% above.
calculateRegularLoanMonthlyAdminFeeV1(principal) ==
    LET firstTier == IF principal > FirstTierLimit THEN FirstTierLimit ELSE principal
        excess    == principal - firstTier
        firstTierNumerator == Int64(firstTier * 100)
    IN  IF excess > (MaxInt64 - firstTierNumerator) \div 150 THEN NoFee
        ELSE HalfUp(Int64(firstTierNumerator + Int64(excess * 150)), 10000)

\* Flat interest in basis points per month, only on loans of the old kind.
LegacyInterest(principal, duration, rate) ==
    LET multiplier == rate * duration IN
    IF multiplier # 0 /\ principal > MaxInt64 \div multiplier THEN NoFee
    ELSE HalfUp(Int64(principal * multiplier), 10000)

-----------------------------------------------------------------------------
\* Schedules.
Installments == [due : Nat, scheduled : Nat, paid : Nat]

NoSchedule == << >>

\* Mutant: the remainder of the division is lost.
buildLoanScheduleFromObligation_Truncated(obligation, duration, start) ==
    [n \in 1 .. duration |->
        [due |-> loanDueDate(start, n), scheduled |-> obligation \div duration, paid |-> 0]]

\* Equal instalments; the last one takes the remainder.
buildLoanScheduleFromObligation(obligation, duration, start) ==
    IF obligation <= 0 \/ obligation < duration THEN NoSchedule
    ELSE [n \in 1 .. duration |->
             [due       |-> loanDueDate(start, n),
              scheduled |-> obligation \div duration +
                            (IF n = duration THEN obligation % duration ELSE 0),
              paid      |-> 0]]

\* The terms of a loan: its fee, what has to be paid back, and the schedule.
Terms(principal, monthly, fee, duration, start) ==
    [principal |-> principal, duration |-> duration, monthlyFee |-> monthly, fee |-> fee,
     obligation   |-> Int64(principal + fee),
     installments |-> buildLoanScheduleFromObligation(Int64(principal + fee), duration, start)]

NoTerms == [principal |-> 0, duration |-> 0, monthlyFee |-> NoFee, fee |-> 0,
            obligation |-> 0, installments |-> NoSchedule]

Refused(terms) == terms.installments = NoSchedule

\* A fee that could not be calculated, or an obligation that does not fit.
Payable64(principal, fee) == fee # NoFee /\ principal <= MaxInt64 - fee

calculateRegularLoanSchedule(principal, duration, start) ==
    LET monthly == calculateRegularLoanMonthlyAdminFeeV1(principal)
        fee     == Int64(monthly * duration)
    IN  IF /\ principal > 0 /\ duration \in 1 .. maxLoanDurationForType("regular")
           /\ monthly # NoFee /\ monthly <= MaxInt64 \div duration
           /\ Payable64(principal, fee)
        THEN Terms(principal, monthly, fee, duration, start) ELSE NoTerms

calculateSecondaryGoodsLoanSchedule(principal, duration, start) ==
    LET fee == calculatePercentAdminFee(principal, 20) IN
    IF /\ principal > 0 /\ duration \in 1 .. maxLoanDurationForType("secondary_goods")
       /\ Payable64(principal, fee)
    THEN Terms(principal, NoFee, fee, duration, start) ELSE NoTerms

calculatePaylaterLoanSchedule(principal, duration, start) ==
    LET fee == calculatePercentAdminFee(principal, 5) IN
    IF principal > 0 /\ duration = 1 /\ Payable64(principal, fee)
    THEN Terms(principal, NoFee, fee, duration, start) ELSE NoTerms

\* The fee of a voucher is entered by the officer.
calculateVoucherLoanSchedule(principal, fee, duration, start) ==
    IF principal > 0 /\ fee >= 0 /\ Payable64(principal, fee) /\ duration = 1
    THEN Terms(principal, NoFee, fee, duration, start) ELSE NoTerms

calculateLoanScheduleWithMaxDuration(principal, duration, rate, start, maxDuration) ==
    LET interest == LegacyInterest(principal, duration, rate) IN
    IF /\ principal > 0 /\ duration \in 1 .. maxDuration /\ rate \in 0 .. 1000
       /\ Payable64(principal, interest)
    THEN Terms(principal, NoFee, interest, duration, start) ELSE NoTerms

-----------------------------------------------------------------------------
\* The terms agreed at the manager's approval are checked again, with the
\* policies of that day, before money leaves.
PolicyOf(type) ==
    CASE type = "regular"                 -> "regular_tiered_monthly_v1"
      [] type = "secondary_goods"         -> "secondary_goods_one_time_v1"
      [] type = "goods_purchase_paylater" -> "goods_purchase_paylater_one_time_v1"
      [] OTHER                            -> "voucher_nominal_one_time_v1"

SnapshotTotals(principal, duration, fee, obligation) ==
    /\ principal > 0 /\ duration > 0 /\ fee >= 0 /\ obligation > 0
    /\ principal <= MaxInt64 - fee /\ Int64(principal + fee) = obligation

validateLoanFeeSnapshot(policy, principal, duration, monthly, fee, obligation) ==
    /\ SnapshotTotals(principal, duration, fee, obligation)
    /\ CASE policy = "regular_tiered_monthly_v1" ->
              /\ monthly # NoFee /\ monthly = calculateRegularLoanMonthlyAdminFeeV1(principal)
              /\ monthly <= MaxInt64 \div duration /\ Int64(monthly * duration) = fee
              /\ duration <= 24
         [] policy = "secondary_goods_one_time_v1" ->
              monthly = NoFee /\ duration <= 12 /\ fee = calculatePercentAdminFee(principal, 20)
         [] policy = "goods_purchase_paylater_one_time_v1" ->
              monthly = NoFee /\ duration = 1 /\ fee = calculatePercentAdminFee(principal, 5)
         [] policy = "voucher_nominal_one_time_v1" -> monthly = NoFee /\ duration = 1
         [] policy = "legacy_flat_monthly" -> monthly = NoFee

-----------------------------------------------------------------------------
\* Payments.
Unpaid(item) == item.scheduled - item.paid

Scheduled(items) == SumFunction([n \in DOMAIN items |-> items[n].scheduled])
PaidSum(items)   == SumFunction([n \in DOMAIN items |-> items[n].paid])
UnpaidSum(items) == Scheduled(items) - PaidSum(items)

\* The part of an amount that an instalment takes, and what it leaves.
Applied(left, item)   == IF left > Unpaid(item) THEN Unpaid(item) ELSE left
LeftAfter(left, item) == left - Applied(left, item)

\* An amount goes to the instalments in their order, to each what it lacks.
PayOldestFirst(items, amount) ==
    LET left[n \in 0 .. Len(items)] ==
            IF n = 0 THEN amount ELSE LeftAfter(left[n - 1], items[n])
    IN  [n \in DOMAIN items |->
            [items[n] EXCEPT !.paid = @ + Applied(left[n - 1], items[n])]]

\* All payments of a loan again, on instalments that have received nothing.
allocateRepaymentsOldestFirst(items, amounts) ==
    LET paid[k \in 0 .. Len(amounts)] ==
            IF k = 0 THEN [n \in DOMAIN items |-> [items[n] EXCEPT !.paid = 0]]
            ELSE PayOldestFirst(paid[k - 1], amounts[k])
    IN  paid[Len(amounts)]
=============================================================================
