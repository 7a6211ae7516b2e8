--------------------------- MODULE MCEntitlement ---------------------------
(***************************************************************************)
(* Instances of Entitlement for TLC, and BillingPeriod against the         *)
(* calendar on every day of a decade and of the years around 2100.         *)
(***************************************************************************)
EXTENDS Entitlement

Day(y, m, d) == [year |-> y, month |-> m, day |-> d]

MCDates == {Day(2023, 1, 31), Day(2023, 2, 1), Day(2024, 2, 29)}
MCOffers ==
    {<<"starter", "monthly">>, <<"starter", "quarterly">>, <<"pro", "annual">>}

\* A period ends on the day of the calendar EndsAfter names.
ASSUME PeriodAssumption ==
    \A y \in (2023..2032) \cup (2099..2101), m \in 1..12, cycle \in Cycles :
        \A d \in 1..DaysIn(y, m) :
            EndsAfter(Day(y, m, d), BILLING_CYCLES[cycle],
                      CalculatePeriodEnd(Day(y, m, d), cycle))
=============================================================================
