--------------------------- MODULE BillingPeriod ---------------------------
(***************************************************************************)
(* The billing period and the price of a subscription, as create-          *)
(* subscription computes them (src/src/handlers/create-subscription/       *)
(* index.js).  Times are day numbers of the proleptic Gregorian calendar,  *)
(* in UTC, where Lambda runs; amounts are cents.                           *)
(***************************************************************************)
EXTENDS Integers

BILLING_CYCLES == [monthly |-> 1, quarterly |-> 3, annual |-> 12]

PLANS ==
    [free       |-> [name |-> "Free",         priceMonthly |-> 0],
     starter    |-> [name |-> "Starter",      priceMonthly |-> 29],
     pro        |-> [name |-> "Professional", priceMonthly |-> 99],
     enterprise |-> [name |-> "Enterprise",   priceMonthly |-> 499]]

Cycles == DOMAIN BILLING_CYCLES
PlanIds == DOMAIN PLANS

Leap(y) == y % 4 = 0 /\ (y % 100 # 0 \/ y % 400 = 0)

DaysIn(y, m) ==
    IF m = 2 /\ Leap(y) THEN 29
    ELSE <<31, 28, 31, 30, 31, 30, 31, 31, 30, 31, 30, 31>>[m]

\* Number of the first day of month m, which may lie outside of 1..12.
FirstOf(y, m) ==
    LET year  == y + (m - 1) \div 12
        month == ((m - 1) % 12) + 1
    IN  365 * year + (year - 1) \div 4 - (year - 1) \div 100 + (year - 1) \div 400
          + <<0, 31, 59, 90, 120, 151, 181, 212, 243, 273, 304, 334>>[month]
          + (IF month > 2 /\ Leap(year) THEN 1 ELSE 0)

DayNumber(date) == FirstOf(date.year, date.month) + date.day - 1

\* Date.setMonth keeps the day of the month, and counts on into the following
\* month if there is no such day.
SetMonth(date, months) == FirstOf(date.year, date.month + months) + date.day - 1

CalculatePeriodEnd(date, cycle) == SetMonth(date, BILLING_CYCLES[cycle])

\* priceMonthly, three times less 10 %, twelve times less 20 %.
Amount(plan, cycle) ==
    PLANS[plan].priceMonthly *
        (CASE cycle = "monthly" -> 100 [] cycle = "quarterly" -> 3 * 90
           [] cycle = "annual" -> 12 * 80)

----------------------------------------------------------------------------
\* Reference: the calendar.

TargetYear(date, months) == date.year + (date.month + months - 1) \div 12
TargetMonth(date, months) == ((date.month + months - 1) % 12) + 1

\* The same day of the month so many months later; from the 29th, 30th or 31st
\* to a month that is too short, one of the first three days of the next.
EndsAfter(date, months, end) ==
    LET y == TargetYear(date, months)
        m == TargetMonth(date, months)
    IN  IF date.day <= DaysIn(y, m)
        THEN end = DayNumber([year |-> y, month |-> m, day |-> date.day])
        ELSE \E d \in 1..3 :
               /\ d = date.day - DaysIn(y, m)
               /\ end = DayNumber([year |-> y, month |-> m + 1, day |-> d])

\* Two rows of subscriptions, which may be one: a period ends on its day of the
\* month, a subscription that starts later ends at most two days earlier, and
\* a longer one of the same day ends later and costs more, but less per month.
Fits(s, other) ==
    LET months == BILLING_CYCLES[s.billing_cycle]
        others == BILLING_CYCLES[other.billing_cycle]
    IN  /\ EndsAfter(s.date, months, s.end)
        /\ months = others /\ DayNumber(s.date) <= DayNumber(other.date)
              => s.end <= other.end + 2
        /\ months < others /\ s.date = other.date => s.end < other.end
        /\ months < others /\ s.plan_id = other.plan_id /\ s.amount > 0 =>
              s.amount < other.amount /\ other.amount * months < s.amount * others
=============================================================================
