-------------------------- MODULE EntitlementProofs -------------------------
(***************************************************************************)
(* Theorems about BillingPeriod, for every date, and about Entitlement,    *)
(* for any number of users, tenants and subscriptions, for any days and    *)
(* offers and in every environment.                                        *)
(***************************************************************************)
EXTENDS Entitlement, TLAPS

----------------------------------------------------------------------------
(***************************************************************************)
(* The period and the price the handler writes, for every date.  The proof *)
(* counts months: FirstDay is strictly monotonic in the number of a month, *)
(* and setMonth adds to that number.                                       *)
(***************************************************************************)

\* Day number of January 1, and days of the year before the first of a month.
YearStart(y) == 365 * y + (y - 1) \div 4 - (y - 1) \div 100 + (y - 1) \div 400
MonthStart(y, m) ==
    <<0, 31, 59, 90, 120, 151, 181, 212, 243, 273, 304, 334>>[m]
        + (IF m > 2 /\ Leap(y) THEN 1 ELSE 0)

\* y div 4, 100 and 400 grow in the years the rule of leap years names.
LEMMA Quotients ==
    ASSUME NEW y \in Int
    PROVE  /\ y \div 4 = (y - 1) \div 4 + (IF y % 4 = 0 THEN 1 ELSE 0)
           /\ y \div 100 = (y - 1) \div 100 + (IF y % 100 = 0 THEN 1 ELSE 0)
           /\ y \div 400 = (y - 1) \div 400 + (IF y % 400 = 0 THEN 1 ELSE 0)
           /\ y % 400 = 0 => y % 100 = 0
           /\ y % 100 = 0 => y % 4 = 0
  BY SMT

\* A year has 365 days, a leap year 366, ...
LEMMA YearLength ==
    ASSUME NEW y \in Int
    PROVE  YearStart(y + 1) = YearStart(y) + (IF Leap(y) THEN 366 ELSE 365)
  BY Quotients DEF YearStart, Leap

\* ... and later years start later.
LEMMA YearsGrow ==
    ASSUME NEW y \in Int, NEW z \in Int, y <= z
    PROVE  YearStart(y) <= YearStart(z) /\ YearStart(y) \in Int
  BY DEF YearStart

\* Within a year a month begins when the one before it ends.
LEMMA MonthLength ==
    ASSUME NEW y \in Int, NEW m \in 1..11
    PROVE  MonthStart(y, m + 1) = MonthStart(y, m) + DaysIn(y, m)
  BY DEF MonthStart, DaysIn

\* Ranges of the two.
LEMMA YearType == \A y \in Int : YearStart(y) \in Int
  BY DEF YearStart

LEMMA MonthTypes ==
    ASSUME NEW y \in Int, NEW m \in 1..12
    PROVE  MonthStart(y, m) \in Nat /\ DaysIn(y, m) \in 28..31
  BY DEF MonthStart, DaysIn

\* The months fill the year.
LEMMA MonthFits ==
    ASSUME NEW y \in Int, NEW m \in 1..12
    PROVE  /\ MonthStart(y, m) + DaysIn(y, m) <= (IF Leap(y) THEN 366 ELSE 365)
           /\ m = 12 => MonthStart(y, m) + DaysIn(y, m) = (IF Leap(y) THEN 366 ELSE 365)
           /\ m = 1 => MonthStart(y, m) = 0
  BY DEF MonthStart, DaysIn

\* A month of a year ends before a later one begins.
LEMMA MonthsGrow ==
    ASSUME NEW y \in Int, NEW m \in 1..12, NEW n \in 1..12, m < n
    PROVE  MonthStart(y, m) + DaysIn(y, m) <= MonthStart(y, n)
  BY DEF MonthStart, DaysIn

\* Months counted on from month 1 of year 0.
IndexOf(y, m) == 12 * y + m - 1
YearOf(n) == n \div 12
MonthOf(n) == (n % 12) + 1
FirstDay(n) == YearStart(YearOf(n)) + MonthStart(YearOf(n), MonthOf(n))
Days(n) == DaysIn(YearOf(n), MonthOf(n))

\* Ranges, and that the index of a month determines the month.
LEMMA IndexTypes ==
    ASSUME NEW n \in Int
    PROVE  /\ YearOf(n) \in Int /\ MonthOf(n) \in 1..12 /\ n = IndexOf(YearOf(n), MonthOf(n))
           /\ FirstDay(n) \in Int /\ Days(n) \in 28..31
  <1>1. YearOf(n) \in Int /\ MonthOf(n) \in 1..12 /\ n = IndexOf(YearOf(n), MonthOf(n))
    BY SMT DEF YearOf, MonthOf, IndexOf
  <1>2. YearStart(YearOf(n)) \in Int /\ MonthStart(YearOf(n), MonthOf(n)) \in Nat
    BY <1>1, YearType, MonthTypes
  <1>3. DaysIn(YearOf(n), MonthOf(n)) \in 28..31
    BY <1>1, MonthTypes
  <1> QED  BY <1>1, <1>2, <1>3 DEF FirstDay, Days

\* FirstOf, whatever month it is given, depends on the index only.
LEMMA FirstOfIsFirstDay ==
    ASSUME NEW y \in Int, NEW m \in Int
    PROVE  FirstOf(y, m) = FirstDay(IndexOf(y, m))
  <1>1. /\ y + (m - 1) \div 12 = YearOf(IndexOf(y, m))
        /\ ((m - 1) % 12) + 1 = MonthOf(IndexOf(y, m))
    BY DEF YearOf, MonthOf, IndexOf
  <1> DEFINE year == YearOf(IndexOf(y, m))  month == MonthOf(IndexOf(y, m))
  <1>2. IndexOf(y, m) \in Int
    BY DEF IndexOf
  <1>3. year \in Int /\ month \in 1..12
    BY <1>2, IndexTypes
  <1>4. FirstOf(y, m) = 365 * year + (year - 1) \div 4 - (year - 1) \div 100 + (year - 1) \div 400
          + <<0, 31, 59, 90, 120, 151, 181, 212, 243, 273, 304, 334>>[month]
          + (IF month > 2 /\ Leap(year) THEN 1 ELSE 0)
    BY <1>1 DEF FirstOf
  <1>5. <<0, 31, 59, 90, 120, 151, 181, 212, 243, 273, 304, 334>>[month] \in Int
    BY <1>3
  <1>6. FirstDay(IndexOf(y, m)) = YearStart(year) + MonthStart(year, month)
    BY DEF FirstDay
  <1> HIDE DEF year, month
  <1> QED  BY <1>3, <1>4, <1>5, <1>6 DEF YearStart, MonthStart

\* A month ends before the next one begins, ...
LEMMA MonthFollows ==
    ASSUME NEW n \in Int
    PROVE  FirstDay(n + 1) = FirstDay(n) + Days(n)
  <1> DEFINE y == YearOf(n)  m == MonthOf(n)
  <1>1. y \in Int /\ m \in 1..12
    BY IndexTypes
  <1>2. CASE m = 12
    <2>1. YearOf(n + 1) = y + 1 /\ MonthOf(n + 1) = 1
      BY <1>2 DEF YearOf, MonthOf
    <2> HIDE DEF y, m
    <2>2. /\ YearStart(y + 1) = YearStart(y) + (IF Leap(y) THEN 366 ELSE 365)
          /\ YearStart(y) \in Int
      BY <1>1, YearLength, YearsGrow
    <2>3. /\ MonthStart(y, m) + DaysIn(y, m) = (IF Leap(y) THEN 366 ELSE 365)
          /\ MonthStart(y, m) \in Nat /\ DaysIn(y, m) \in 28..31
          /\ MonthStart(y + 1, 1) = 0
      BY <1>1, <1>2, MonthTypes, MonthFits
    <2>4. FirstDay(n + 1) = YearStart(y + 1) + MonthStart(y + 1, 1)
          /\ FirstDay(n) = YearStart(y) + MonthStart(y, m) /\ Days(n) = DaysIn(y, m)
      BY <2>1 DEF FirstDay, Days, y, m
    <2> QED  BY <2>2, <2>3, <2>4
  <1>3. CASE m # 12
    <2>1. YearOf(n + 1) = y /\ MonthOf(n + 1) = m + 1
      BY <1>3 DEF YearOf, MonthOf
    <2> HIDE DEF y, m
    <2>2. m \in 1..11 /\ YearStart(y) \in Int
      BY <1>1, <1>3, YearsGrow
    <2>3. /\ MonthStart(y, m + 1) = MonthStart(y, m) + DaysIn(y, m)
          /\ MonthStart(y, m) \in Nat /\ DaysIn(y, m) \in 28..31
      <3>1. MonthStart(y, m + 1) = MonthStart(y, m) + DaysIn(y, m)
        BY <1>1, <2>2, MonthLength
      <3> QED  BY <1>1, <3>1, MonthTypes
    <2>4. FirstDay(n + 1) = YearStart(y) + MonthStart(y, m + 1)
          /\ FirstDay(n) = YearStart(y) + MonthStart(y, m) /\ Days(n) = DaysIn(y, m)
      BY <2>1 DEF FirstDay, Days, y, m
    <2> QED  BY <2>2, <2>3, <2>4
  <1> QED  BY <1>2, <1>3

\* ... and before every later one.
LEMMA MonthsInOrder ==
    ASSUME NEW n \in Int, NEW k \in Int, n < k
    PROVE  FirstDay(n) + Days(n) <= FirstDay(k)
  <1> DEFINE y == YearOf(n)  m == MonthOf(n)  z == YearOf(k)  l == MonthOf(k)
  <1>1. y \in Int /\ m \in 1..12 /\ z \in Int /\ l \in 1..12
    BY IndexTypes
  <1>2. y < z \/ (y = z /\ m < l)
    BY DEF YearOf, MonthOf
  <1>3. FirstDay(n) = YearStart(y) + MonthStart(y, m) /\ Days(n) = DaysIn(y, m)
        /\ FirstDay(k) = YearStart(z) + MonthStart(z, l)
    BY DEF FirstDay, Days
  <1> HIDE DEF y, m, z, l
  <1>4. MonthStart(y, m) \in Nat /\ DaysIn(y, m) \in 28..31 /\ MonthStart(z, l) \in Nat
        /\ YearStart(y) \in Int /\ YearStart(z) \in Int
        /\ MonthStart(y, m) + DaysIn(y, m) <= (IF Leap(y) THEN 366 ELSE 365)
    BY <1>1, MonthTypes, MonthFits, YearType
  <1>5. CASE y < z
    <2>1. YearStart(y + 1) = YearStart(y) + (IF Leap(y) THEN 366 ELSE 365)
      BY <1>1, YearLength
    <2>2. YearStart(y + 1) <= YearStart(z) /\ YearStart(y + 1) \in Int
      BY <1>1, <1>5, YearsGrow
    <2> QED  BY <1>3, <1>4, <2>1, <2>2
  <1>6. CASE y = z /\ m < l
    <2>1. MonthStart(y, m) + DaysIn(y, m) <= MonthStart(y, l)
      BY <1>1, <1>6, MonthsGrow
    <2> QED  BY <1>3, <1>4, <1>6, <2>1
  <1> QED  BY <1>2, <1>5, <1>6

\* The days of the calendar.
CalendarDates ==
    {date \in [year : Int, month : 1..12, day : 1..31] :
        date.day <= DaysIn(date.year, date.month)}

Month(date) == IndexOf(date.year, date.month)

\* The parts of a date.
LEMMA DateTypes ==
    ASSUME NEW date \in CalendarDates
    PROVE  /\ date.year \in Int /\ date.month \in 1..12 /\ date.day \in 1..31
           /\ Month(date) \in Int /\ date.day <= Days(Month(date))
           /\ date = [year |-> date.year, month |-> date.month, day |-> date.day]
  <1>1. /\ date.year \in Int /\ date.month \in 1..12 /\ date.day \in 1..31
        /\ date.day <= DaysIn(date.year, date.month)
        /\ date = [year |-> date.year, month |-> date.month, day |-> date.day]
    BY DEF CalendarDates
  <1>2. Month(date) \in Int /\ YearOf(Month(date)) = date.year /\ MonthOf(Month(date)) = date.month
    BY <1>1 DEF Month, IndexOf, YearOf, MonthOf
  <1> QED  BY <1>1, <1>2 DEF Days

\* setMonth is the same day so many months on, whether or not there is one.
LEMMA SetMonthIs ==
    ASSUME NEW date \in CalendarDates, NEW k \in Int
    PROVE  /\ DayNumber(date) = FirstDay(Month(date)) + date.day - 1
           /\ SetMonth(date, k) = FirstDay(Month(date) + k) + date.day - 1
  <1>1. date.year \in Int /\ date.month \in Int /\ date.month + k \in Int /\ date.day \in Int
    BY DateTypes
  <1>2. FirstOf(date.year, date.month) = FirstDay(Month(date))
    BY <1>1, FirstOfIsFirstDay DEF Month
  <1>3. FirstOf(date.year, date.month + k) = FirstDay(IndexOf(date.year, date.month + k))
    BY <1>1, FirstOfIsFirstDay
  <1>4. IndexOf(date.year, date.month + k) = Month(date) + k
    BY <1>1 DEF IndexOf, Month
  <1> QED  BY <1>2, <1>3, <1>4 DEF DayNumber, SetMonth

\* A cycle is 1 to 12 months.
LEMMA CycleMonths == \A c \in Cycles : BILLING_CYCLES[c] \in 1..12
  BY DEF Cycles, BILLING_CYCLES

\* For every date and every cycle, a period ends on the same day of a later
\* month, or so many days into the next month as that one is too short:
\* what Date.setMonth makes of calculatePeriodEnd, in every month of every year.
THEOREM PeriodEndsOnItsDay ==
    \A date \in CalendarDates, c \in Cycles :
        EndsAfter(date, BILLING_CYCLES[c], CalculatePeriodEnd(date, c))
  <1> SUFFICES ASSUME NEW date \in CalendarDates, NEW c \in Cycles
               PROVE  EndsAfter(date, BILLING_CYCLES[c], CalculatePeriodEnd(date, c))
    OBVIOUS
  <1> DEFINE k == BILLING_CYCLES[c]  n == Month(date) + k  y == YearOf(n)  m == MonthOf(n)
             end == CalculatePeriodEnd(date, c)
  <1>1. k \in Int /\ n \in Int
    BY CycleMonths, DateTypes
  <1>2. y \in Int /\ m \in 1..12 /\ n = IndexOf(y, m)
    BY <1>1, IndexTypes
  <1>3. y = TargetYear(date, k) /\ m = TargetMonth(date, k)
    <2>1. \A a, b, i \in Int : /\ (12 * a + b - 1 + i) \div 12 = a + (b + i - 1) \div 12
                               /\ (12 * a + b - 1 + i) % 12 = (b + i - 1) % 12
      BY SMT
    <2>2. date.year \in Int /\ date.month \in Int
      BY DateTypes
    <2>3. k \in Int
      BY <1>1
    <2> HIDE DEF k
    <2>4. /\ (12 * date.year + date.month - 1 + k) \div 12
                = date.year + (date.month + k - 1) \div 12
          /\ (12 * date.year + date.month - 1 + k) % 12 = (date.month + k - 1) % 12
      BY <2>1, <2>2, <2>3, Zenon
    <2> QED  BY <2>4, Zenon DEF TargetYear, TargetMonth, Month, IndexOf, YearOf, MonthOf
  <1>4. end = FirstDay(n) + date.day - 1 /\ date.day \in 1..31
    BY <1>1, SetMonthIs, DateTypes DEF CalculatePeriodEnd
  <1>5. FirstOf(y, m) = FirstDay(n) /\ FirstOf(y, m + 1) = FirstDay(n + 1)
    <2>1. IndexOf(y, m + 1) = n + 1
      BY <1>2 DEF IndexOf
    <2>2. y \in Int /\ m \in Int /\ m + 1 \in Int
      BY <1>2
    <2> HIDE DEF y, m, n
    <2> QED  BY <1>2, <2>1, <2>2, FirstOfIsFirstDay
  <1>6. FirstDay(n + 1) = FirstDay(n) + DaysIn(y, m) /\ FirstDay(n) \in Int
        /\ DaysIn(y, m) \in 28..31
    BY <1>1, MonthFollows, IndexTypes DEF Days
  <1> HIDE DEF k, n, y, m, end
  <1>7. CASE date.day <= DaysIn(y, m)
    <2>1. end = DayNumber([year |-> y, month |-> m, day |-> date.day])
      BY <1>4, <1>5 DEF DayNumber
    <2> QED  BY <1>3, <1>7, <2>1 DEF EndsAfter, k, end
  <1>8. CASE ~(date.day <= DaysIn(y, m))
    <2> DEFINE d == date.day - DaysIn(y, m)
    <2>1. d \in 1..3
      BY <1>4, <1>6, <1>8
    <2>2. DayNumber([year |-> y, month |-> m + 1, day |-> d]) = FirstDay(n + 1) + d - 1
      BY <1>5 DEF DayNumber
    <2>3. end = DayNumber([year |-> y, month |-> m + 1, day |-> d])
      BY <1>4, <1>6, <2>1, <2>2
    <2> QED  BY <1>3, <1>8, <2>1, <2>3 DEF EndsAfter, k, end
  <1> QED  BY <1>7, <1>8

\* Of two subscriptions with the same cycle, the one that starts later ends at
\* most two days earlier (1 February after 31 January), and of two that start
\* the same day the longer one ends later.
THEOREM PeriodsKeepOrder ==
    /\ \A s, o \in CalendarDates, c \in Cycles :
         DayNumber(s) <= DayNumber(o) =>
            CalculatePeriodEnd(s, c) <= CalculatePeriodEnd(o, c) + 2
    /\ \A date \in CalendarDates, c, d \in Cycles :
         BILLING_CYCLES[c] < BILLING_CYCLES[d] =>
            CalculatePeriodEnd(date, c) < CalculatePeriodEnd(date, d)
  <1>1. ASSUME NEW s \in CalendarDates, NEW o \in CalendarDates, NEW c \in Cycles,
               DayNumber(s) <= DayNumber(o)
        PROVE  CalculatePeriodEnd(s, c) <= CalculatePeriodEnd(o, c) + 2
    <2> DEFINE k == BILLING_CYCLES[c]  a == Month(s)  b == Month(o)
    <2>1. k \in Int /\ a \in Int /\ b \in Int /\ s.day \in 1..31 /\ o.day \in 1..31
          /\ s.day <= Days(a) /\ o.day <= Days(b)
      BY CycleMonths, DateTypes
    <2>2. /\ DayNumber(s) = FirstDay(a) + s.day - 1
          /\ DayNumber(o) = FirstDay(b) + o.day - 1
          /\ CalculatePeriodEnd(s, c) = FirstDay(a + k) + s.day - 1
          /\ CalculatePeriodEnd(o, c) = FirstDay(b + k) + o.day - 1
      BY <2>1, SetMonthIs DEF CalculatePeriodEnd
    <2> HIDE DEF k, a, b
    <2>3. a + k \in Int /\ b + k \in Int
      BY <2>1
    <2>4. /\ FirstDay(a) \in Int /\ FirstDay(b) \in Int
          /\ FirstDay(a + k) \in Int /\ FirstDay(b + k) \in Int
          /\ Days(a) \in 28..31 /\ Days(b) \in 28..31 /\ Days(a + k) \in 28..31
      BY <2>1, <2>3, IndexTypes
    <2>5. CASE a = b
      <3>1. FirstDay(a) = FirstDay(b) /\ FirstDay(a + k) = FirstDay(b + k)
        BY <2>5
      <3>2. FirstDay(a) + s.day - 1 <= FirstDay(b) + o.day - 1
        BY <1>1, <2>2
      <3>3. s.day <= o.day
        BY <2>1, <2>4, <3>1, <3>2
      <3> QED  BY <2>1, <2>2, <2>4, <3>1, <3>3
    <2>6. CASE a < b
      <3>1. a + k < b + k
        BY <2>1, <2>6
      <3>2. FirstDay(a + k) + Days(a + k) <= FirstDay(b + k)
        BY <2>3, <3>1, MonthsInOrder
      <3> QED  BY <2>1, <2>2, <2>4, <3>2
    <2>7. CASE b < a
      <3>1. FirstDay(b) + Days(b) <= FirstDay(a)
        BY <2>1, <2>7, MonthsInOrder
      <3>2. FirstDay(a) + s.day - 1 <= FirstDay(b) + o.day - 1
        BY <1>1, <2>2
      <3>3. FALSE
        BY <2>1, <2>4, <3>1, <3>2
      <3> QED  BY <3>3
    <2> QED  BY <2>1, <2>5, <2>6, <2>7
  <1>2. ASSUME NEW date \in CalendarDates, NEW c \in Cycles, NEW d \in Cycles,
               BILLING_CYCLES[c] < BILLING_CYCLES[d]
        PROVE  CalculatePeriodEnd(date, c) < CalculatePeriodEnd(date, d)
    <2> DEFINE k == Month(date) + BILLING_CYCLES[c]  l == Month(date) + BILLING_CYCLES[d]
    <2>1. /\ BILLING_CYCLES[c] \in Int /\ BILLING_CYCLES[d] \in Int
          /\ Month(date) \in Int /\ date.day \in 1..31
      BY CycleMonths, DateTypes
    <2>2. CalculatePeriodEnd(date, c) = FirstDay(k) + date.day - 1
          /\ CalculatePeriodEnd(date, d) = FirstDay(l) + date.day - 1
      BY <2>1, SetMonthIs DEF CalculatePeriodEnd
    <2>3. k \in Int /\ l \in Int /\ k < l
      BY <1>2, <2>1
    <2> HIDE DEF k, l
    <2>4. FirstDay(k) + Days(k) <= FirstDay(l) /\ FirstDay(k) \in Int /\ FirstDay(l) \in Int
          /\ Days(k) \in 28..31
      BY <2>3, MonthsInOrder, IndexTypes
    <2> QED  BY <2>1, <2>2, <2>4
  <1> QED  BY <1>1, <1>2

(***************************************************************************)
(* Prices.                                                                 *)
(***************************************************************************)

\* What create-subscription writes of plan, cycle, period and price.
Billed(s) ==
    /\ s.date \in CalendarDates /\ s.plan_id \in PlanIds /\ s.billing_cycle \in Cycles
    /\ s.end = CalculatePeriodEnd(s.date, s.billing_cycle)
    /\ s.amount = Amount(s.plan_id, s.billing_cycle)

\* The three cycles and the price of each.
LEMMA CyclePrices ==
    ASSUME NEW p \in PlanIds, NEW price, price = PLANS[p].priceMonthly
    PROVE  /\ price \in Nat
           /\ Amount(p, "monthly") = price * 100
           /\ Amount(p, "quarterly") = price * 270
           /\ Amount(p, "annual") = price * 960
  <1>1. price \in Nat
    BY DEF PlanIds, PLANS
  <1> QED  BY <1>1 DEF Amount

\* A longer cycle costs more in all, and less per month.
LEMMA LongerIsCheaper ==
    ASSUME NEW p \in PlanIds, NEW c \in Cycles, NEW d \in Cycles,
           BILLING_CYCLES[c] < BILLING_CYCLES[d], Amount(p, c) > 0
    PROVE  /\ Amount(p, c) < Amount(p, d)
           /\ Amount(p, d) * BILLING_CYCLES[c] < Amount(p, c) * BILLING_CYCLES[d]
  <1> DEFINE price == PLANS[p].priceMonthly
  <1>1. /\ price \in Nat
        /\ Amount(p, "monthly") = price * 100
        /\ Amount(p, "quarterly") = price * 270
        /\ Amount(p, "annual") = price * 960
    BY CyclePrices
  <1>2. \/ c = "monthly" /\ d = "quarterly"
        \/ c = "monthly" /\ d = "annual"
        \/ c = "quarterly" /\ d = "annual"
    BY DEF Cycles, BILLING_CYCLES
  <1>3. /\ BILLING_CYCLES["monthly"] = 1 /\ BILLING_CYCLES["quarterly"] = 3
        /\ BILLING_CYCLES["annual"] = 12
    BY DEF BILLING_CYCLES
  <1> HIDE DEF price
  <1>4. price > 0
    BY <1>1, <1>2
  <1> QED  BY <1>1, <1>2, <1>3, <1>4

\* Whatever rows create-subscription writes, on whatever dates, their periods
\* and prices fit each other: what PeriodsFit says of the rows of a state.
THEOREM BilledRowsFit == \A s, o : Billed(s) /\ Billed(o) => Fits(s, o)
  <1> SUFFICES ASSUME NEW s, NEW o, Billed(s), Billed(o)  PROVE Fits(s, o)
    OBVIOUS
  <1> DEFINE months == BILLING_CYCLES[s.billing_cycle]
             others == BILLING_CYCLES[o.billing_cycle]
  <1>1. /\ s.date \in CalendarDates /\ o.date \in CalendarDates
        /\ s.billing_cycle \in Cycles /\ o.billing_cycle \in Cycles
        /\ s.plan_id \in PlanIds
        /\ s.end = CalculatePeriodEnd(s.date, s.billing_cycle)
        /\ o.end = CalculatePeriodEnd(o.date, o.billing_cycle)
        /\ s.amount = Amount(s.plan_id, s.billing_cycle)
        /\ o.amount = Amount(o.plan_id, o.billing_cycle)
    BY DEF Billed
  <1>2. EndsAfter(s.date, months, s.end)
    BY <1>1, PeriodEndsOnItsDay
  <1>3. months = others /\ DayNumber(s.date) <= DayNumber(o.date) => s.end <= o.end + 2
    <2>1. SUFFICES ASSUME months = others, DayNumber(s.date) <= DayNumber(o.date)
                   PROVE  s.end <= o.end + 2
      OBVIOUS
    <2>2. CalculatePeriodEnd(o.date, s.billing_cycle) = CalculatePeriodEnd(o.date, o.billing_cycle)
      BY <2>1 DEF CalculatePeriodEnd
    <2> QED  BY <1>1, <2>1, <2>2, PeriodsKeepOrder
  <1>4. months < others /\ s.date = o.date => s.end < o.end
    BY <1>1, PeriodsKeepOrder
  <1>5. months < others /\ s.plan_id = o.plan_id /\ s.amount > 0 =>
            s.amount < o.amount /\ o.amount * months < s.amount * others
    BY <1>1, LongerIsCheaper
  <1> QED  BY <1>2, <1>3, <1>4, <1>5 DEF Fits

----------------------------------------------------------------------------
(***************************************************************************)
(* Type correctness of Entitlement.                                        *)
(***************************************************************************)

\* The days that are looked at are days of the calendar, ...
LEMMA DatesAreDays == Dates \subseteq CalendarDates
BY EntitlementAssumption DEF CalendarDates

\* ... which are numbered, ...
LEMMA DayNumberType == \A date \in Dates : DayNumber(date) \in Int
  <1> SUFFICES ASSUME NEW date \in Dates  PROVE DayNumber(date) \in Int
    OBVIOUS
  <1>1. date \in CalendarDates
    BY DatesAreDays
  <1>2. DayNumber(date) = FirstDay(Month(date)) + date.day - 1
    BY <1>1, SetMonthIs
  <1>3. Month(date) \in Int /\ date.day \in Int
    BY <1>1, DateTypes
  <1> QED  BY <1>2, <1>3, IndexTypes

\* ... and what Subscribe writes of them is of its type.
LEMMA PeriodType ==
    ASSUME NEW date \in Dates, NEW p \in PlanIds, NEW c \in Cycles
    PROVE  CalculatePeriodEnd(date, c) \in Nat /\ Amount(p, c) \in Nat
  <1> DEFINE n == Month(date) + BILLING_CYCLES[c]
  <1>1. /\ date \in CalendarDates /\ date.year \in 1970..2100
        /\ date.month \in 1..12 /\ date.day \in 1..31
    BY DatesAreDays, EntitlementAssumption
  <1>2. n \in Int /\ n >= 12
    <2>1. BILLING_CYCLES[c] \in 1..12
      BY CycleMonths
    <2>2. Month(date) = 12 * date.year + date.month - 1
      BY DEF Month, IndexOf
    <2>3. date.year \in Int /\ date.year >= 1970 /\ date.month \in Int /\ date.month >= 1
      BY <1>1
    <2>4. BILLING_CYCLES[c] \in Int /\ BILLING_CYCLES[c] >= 1
      BY <2>1
    <2>5. /\ 12 * date.year + date.month - 1 + BILLING_CYCLES[c] \in Int
          /\ 12 * date.year + date.month - 1 + BILLING_CYCLES[c] >= 12
      BY <2>3, <2>4
    <2> QED  BY <2>2, <2>5
  <1>3. CalculatePeriodEnd(date, c) = FirstDay(n) + date.day - 1
    BY <1>1, CycleMonths, SetMonthIs DEF CalculatePeriodEnd
  <1> HIDE DEF n
  <1>4. YearOf(n) \in Int /\ MonthOf(n) \in 1..12
    BY <1>2, IndexTypes
  <1>5. 1 <= YearOf(n)
    BY <1>2 DEF YearOf
  <1>6. YearStart(1) = 365
    BY DEF YearStart
  <1>7. 365 <= YearStart(YearOf(n)) /\ YearStart(YearOf(n)) \in Int
    <2>1. YearStart(1) <= YearStart(YearOf(n))
      BY <1>4, <1>5, YearsGrow
    <2> QED  BY <1>4, <1>6, <2>1, YearType
  <1>8. MonthStart(YearOf(n), MonthOf(n)) \in Nat
    BY <1>4, MonthTypes
  <1>9. CalculatePeriodEnd(date, c) \in Nat
    BY <1>1, <1>3, <1>7, <1>8 DEF FirstDay
  <1>10. Amount(p, c) \in Nat
    <2>1. c \in {"monthly", "quarterly", "annual"}
      BY DEF Cycles, BILLING_CYCLES
    <2> DEFINE price == PLANS[p].priceMonthly
    <2>2. /\ price \in Nat
          /\ Amount(p, "monthly") = price * 100
          /\ Amount(p, "quarterly") = price * 270
          /\ Amount(p, "annual") = price * 960
      BY CyclePrices
    <2> HIDE DEF price
    <2> QED  BY <2>1, <2>2
  <1> QED  BY <1>9, <1>10

\* What TypeOK says of the tables.
TablesOK ==
    /\ tenants \subseteq Tenants
    /\ plan \in [Tenants -> TenantPlans]
    /\ status \in [Tenants -> Statuses]
    /\ \A s \in subscriptions : s \in Subscriptions /\ s.tenant \in tenants

\* What may be true of a tenant, and what may be in a row the query returns.
Facts == ((TenantPlans \cup PlanIds) \X Statuses) \cup {NoDetails}

FactsOK == \A t : Truth(t) \subseteq Facts

LEMMA TruthType == TablesOK => FactsOK
  <1> SUFFICES ASSUME TablesOK, NEW t  PROVE Truth(t) \subseteq Facts
    BY DEF FactsOK
  <1>1. CASE t \notin tenants
    BY <1>1 DEF Truth, Facts
  <1>2. CASE t \in tenants
    <2>1. plan[t] \in TenantPlans /\ status[t] \in Statuses
      BY <1>2 DEF TablesOK
    <2>2. \A s \in subscriptions : s.plan_id \in PlanIds
      BY DEF TablesOK, Subscriptions
    <2> QED  BY <1>2, <2>1, <2>2 DEF Truth, Facts
  <1> QED  BY <1>1, <1>2

LEMMA TruthTypeNext == TablesOK' => FactsOK'
BY TruthType, PTL

LEMMA TypeInit == Init => TypeOK
BY EntitlementAssumption DEF Init, TypeOK, Default, Claims, DEFAULT_PLAN, PLAN_FEATURES, Reasons

\* A row the query returns is one of a tenant that exists, or none, and says
\* what is true of the tenant at that moment.
LEMMA RowsTrue ==
    ASSUME TypeOK, NEW t, NEW row \in Rows(t)
    PROVE  /\ row \in TenantDetails \cup {NoDetails}
           /\ row = NoDetails => NoDetails \in Truth(t)
           /\ row # NoDetails =>
                 <<ResolveEffectivePlan(row), row.tenant_status>> \in Truth(t)
  <1>1. CASE t \notin tenants
    BY <1>1 DEF Rows, Truth
  <1>2. CASE t \in tenants
    <2> DEFINE last == {s \in Active(t) : ~\E later \in Active(t) :
                            DayNumber(later.date) > DayNumber(s.date)}
    <2>1. plan[t] \in TenantPlans /\ status[t] \in Statuses
      BY <1>2 DEF TypeOK
    <2>2. \A s \in Active(t) : s.plan_id \in PlanIds /\ DayNumber(s.date) \in Int
      <3> SUFFICES ASSUME NEW s \in Active(t)
                   PROVE  s.plan_id \in PlanIds /\ DayNumber(s.date) \in Int
        OBVIOUS
      <3>1. s.plan_id \in PlanIds /\ s.date \in Dates
        BY DEF Active, TypeOK, Subscriptions
      <3> QED  BY <3>1, DayNumberType
    <2>3. Newest(t) = last
      BY <2>2 DEF Newest
    <2>4. Truth(t) = (IF Active(t) = {} THEN {plan[t]} ELSE {s.plan_id : s \in last})
                        \X {status[t]}
      BY <1>2 DEF Truth, Active
    <2>5. /\ row.tenant_plan = plan[t] /\ row.tenant_status = status[t]
          /\ row.tenant_overrides \in BOOLEAN
          /\ IF Active(t) = {} THEN row.subscription_plan = "null"
             ELSE row.subscription_plan \in {s.plan_id : s \in Newest(t)}
          /\ row = [tenant_plan |-> row.tenant_plan, tenant_status |-> row.tenant_status,
                    tenant_overrides |-> row.tenant_overrides,
                    subscription_plan |-> row.subscription_plan]
      BY <1>2 DEF Rows
    <2>6. row.subscription_plan \in PlanIds \cup {"null"}
      BY <2>2, <2>5 DEF Newest
    <2>7. row \in TenantDetails
      BY <2>1, <2>5, <2>6 DEF TenantDetails
    <2>8. "null" \notin PlanIds
      BY DEF PlanIds, PLANS
    <2> HIDE DEF last
    <2>9. ResolveEffectivePlan(row) \in
             IF Active(t) = {} THEN {plan[t]} ELSE {s.plan_id : s \in last}
      BY <2>2, <2>3, <2>5, <2>6, <2>8 DEF ResolveEffectivePlan, Newest
    <2> QED  BY <2>4, <2>5, <2>7, <2>9, EntitlementAssumption
  <1> QED  BY <1>1, <1>2

\* In particular a token carries a plan of the tenant or of an offer, a status
\* of the tenant or a reason, and features of one tier.
LEMMA ClaimsType ==
    /\ \A reason \in Reasons : Default(reason) \in Claims
    /\ \A row \in TenantDetails :
          [plan_tier |-> ResolveEffectivePlan(row), tenant_status |-> row.tenant_status,
           features |-> ResolveFeatures(ResolveEffectivePlan(row)),
           overridden |-> row.tenant_overrides] \in Claims
  <1>1. \A reason \in Reasons : Default(reason) \in Claims
    BY DEF Default, Claims, DEFAULT_PLAN, PLAN_FEATURES
  <1>2. \A tier : ResolveFeatures(tier) \in PLAN_FEATURES
    BY DEF ResolveFeatures, DEFAULT_PLAN, PLAN_FEATURES
  <1>3. \A row \in TenantDetails : /\ ResolveEffectivePlan(row) \in TenantPlans \cup PlanIds
                                   /\ row.tenant_status \in Statuses
                                   /\ row.tenant_overrides \in BOOLEAN
    BY DEF TenantDetails, ResolveEffectivePlan
  <1> QED  BY <1>1, <1>2, <1>3 DEF Claims

\* An action that ends with Witness keeps the history of its type.
LEMMA WitnessType ==
    ASSUME TypeOK, TablesOK', Witness
    PROVE  truths' \in [Users -> SUBSET Facts]
  <1>1. FactsOK'
    BY TruthTypeNext
  <1>2. \A u \in Users : Truth(attribute[u])' \subseteq Facts
    BY <1>1 DEF FactsOK
  <1>3. \A u \in Users : truths[u] \subseteq Facts
    BY DEF TypeOK, Facts
  <1> QED  BY <1>2, <1>3 DEF Witness

LEMMA TypeNext == TypeOK /\ [Next]_vars => TypeOK'
  <1> SUFFICES ASSUME TypeOK, [Next]_vars PROVE TypeOK'
    OBVIOUS
  <1> USE DEF TypeOK, Facts
  <1>1. ASSUME NEW u \in Users, Login(u) PROVE TypeOK'
    <2>1. Truth(attribute[u]) \subseteq Facts
      BY TruthType DEF TablesOK, FactsOK
    <2> QED  BY <1>1, <2>1 DEF Login, tenantVars
  <1>2. ASSUME NEW u \in Users, Start(u) PROVE TypeOK'
    <2>1. Default("unknown") \in Claims
      BY ClaimsType DEF Reasons
    <2> QED  BY <1>2, <2>1 DEF Start, Issue, Return, Goto, tenantVars
  <1>3. ASSUME NEW u \in Users, GetPool(u) PROVE TypeOK'
    BY <1>3 DEF GetPool, Goto, tenantVars
  <1>4. ASSUME NEW u \in Users, Fetch(u) PROVE TypeOK'
    <2>1. PICK row \in Rows(attribute[u]) : details' = [details EXCEPT ![u] = row]
      BY <1>4 DEF Fetch
    <2>2. row \in TenantDetails \cup {NoDetails}
      BY <2>1, RowsTrue
    <2> QED  BY <1>4, <2>1, <2>2 DEF Fetch, Goto, tenantVars
  <1>5. ASSUME NEW u \in Users, Resolve(u) PROVE TypeOK'
    <2>1. Default("not_found") \in Claims
      BY ClaimsType DEF Reasons
    <2>2. \E c \in Claims : claims' = [claims EXCEPT ![u] = c]
      BY <1>5, <2>1, ClaimsType DEF Resolve, Issue
    <2> QED  BY <1>5, <2>2 DEF Resolve, Issue, Return, Goto, tenantVars
  <1>6. ASSUME NEW u \in Users, Catch(u) PROVE TypeOK'
    <2>1. Default("error") \in Claims
      BY ClaimsType DEF Reasons
    <2> QED  BY <1>6, <2>1 DEF Catch, Issue, Return, Goto, tenantVars
  <1>7. ASSUME NEW u \in Users, Timeout(u) PROVE TypeOK'
    BY <1>7 DEF Timeout, Return, Goto, tenantVars
  <1>8. ASSUME NEW t \in Tenants, CreateTenant(t) PROVE TypeOK'
    <2>1. TablesOK'
      BY <1>8 DEF CreateTenant, TablesOK
    <2> QED  BY <1>8, <2>1, WitnessType DEF CreateTenant, TablesOK
  <1>9. ASSUME NEW t \in Tenants, NEW s \in Statuses, SetStatus(t, s) PROVE TypeOK'
    <2>1. TablesOK'
      BY <1>9 DEF SetStatus, TablesOK
    <2> QED  BY <1>9, <2>1, WitnessType DEF SetStatus, TablesOK
  <1>10. ASSUME NEW t \in Tenants, NEW p \in PlanIds, NEW c \in Cycles, Subscribe(t, p, c)
         PROVE TypeOK'
    <2>1. TablesOK'
      BY <1>10, PeriodType DEF Subscribe, TakenOn, PeriodEnd, TablesOK, Subscriptions, tenantVars
    <2> QED  BY <1>10, <2>1, WitnessType DEF Subscribe, TablesOK, tenantVars
  <1>11. ASSUME NEW s \in subscriptions, Cancel(s) PROVE TypeOK'
    <2>1. TablesOK'
      BY <1>11 DEF Cancel, TablesOK, Subscriptions, tenantVars
    <2> QED  BY <1>11, <2>1, WitnessType DEF Cancel, TablesOK, tenantVars
  <1>12. CASE NextDay
    BY <1>12 DEF NextDay, tenantVars, loginVars
  <1>13. CASE UNCHANGED vars
    BY <1>13 DEF vars, tenantVars, loginVars
  <1>14. \A offer \in Offers : offer[1] \in PlanIds /\ offer[2] \in Cycles
    BY EntitlementAssumption
  <1>15. QED
    BY <1>1, <1>2, <1>3, <1>4, <1>5, <1>6, <1>7, <1>8, <1>9, <1>10, <1>11, <1>12, <1>13, <1>14
       DEF Next, Trigger

\* The state of the trigger and of the tables it reads stays well-typed.
THEOREM TypeCorrect == Spec => []TypeOK
BY TypeInit, TypeNext, PTL DEF Spec

----------------------------------------------------------------------------
(***************************************************************************)
(* Periods and prices.  Nothing but Subscribe writes them.                 *)
(***************************************************************************)

RowsBilled == \A s \in subscriptions : Billed(s)

LEMMA BilledInit == Init => RowsBilled
BY DEF Init, RowsBilled

LEMMA BilledNext == TypeOK /\ RowsBilled /\ [Next]_vars => RowsBilled'
  <1> SUFFICES ASSUME TypeOK, RowsBilled, [Next]_vars, NEW s \in subscriptions'
               PROVE  Billed(s)
    BY DEF RowsBilled
  <1>1. CASE s \in subscriptions
    BY <1>1 DEF RowsBilled
  <1>2. ASSUME NEW t \in Tenants, NEW p \in PlanIds, NEW c \in Cycles, Subscribe(t, p, c),
               s \notin subscriptions
        PROVE  Billed(s)
    <2>1. PICK date \in TakenOn :
             s = [tenant |-> t, plan_id |-> p, billing_cycle |-> c, date |-> date,
                  end |-> CalculatePeriodEnd(date, c), amount |-> Amount(p, c),
                  status |-> "active"]
      BY <1>2 DEF Subscribe, PeriodEnd
    <2>2. date \in CalendarDates
      BY <2>1, DatesAreDays DEF TakenOn
    <2> QED  BY <2>1, <2>2 DEF Billed
  <1>3. ASSUME NEW old \in subscriptions, Cancel(old), s \notin subscriptions
        PROVE  Billed(s)
    <2>1. s = [old EXCEPT !.status = "canceled"]
      BY <1>3 DEF Cancel
    <2>2. /\ s.date = old.date /\ s.plan_id = old.plan_id /\ s.end = old.end
          /\ s.billing_cycle = old.billing_cycle /\ s.amount = old.amount
      BY <2>1 DEF TypeOK, Subscriptions
    <2> QED  BY <2>2 DEF RowsBilled, Billed
  <1>4. \A offer \in Offers : offer[1] \in PlanIds /\ offer[2] \in Cycles
    BY EntitlementAssumption
  <1>5. CASE subscriptions' = subscriptions
    BY <1>1, <1>5
  <1>6. QED
    BY <1>1, <1>2, <1>3, <1>4, <1>5
       DEF Next, Trigger, Login, Start, GetPool, Fetch, Resolve, Catch, Timeout, Issue, Return,
           Goto, CreateTenant, SetStatus, NextDay, vars

\* In every state the rows of subscriptions, whenever they were written, fit
\* each other in period and price (create-subscription/index.js:118-136).
THEOREM PeriodsFitHolds == Spec => []PeriodsFit
<1>1. RowsBilled => PeriodsFit
  BY BilledRowsFit DEF RowsBilled, PeriodsFit
<1>2. QED
  BY TypeInit, TypeNext, BilledInit, BilledNext, <1>1, PTL DEF Spec

----------------------------------------------------------------------------
(***************************************************************************)
(* Tokens.  The history truths holds all that was true of the tenant since *)
(* the login began; the query adds nothing to it, for what it returns is   *)
(* true when it returns; and what it returned stays in the history until   *)
(* the token is issued.                                                    *)
(***************************************************************************)

\* What is true of the tenant now is in the history of every login ...
TruthKept == \A u \in Users : Running(u) => Truth(attribute[u]) \subseteq truths[u]

\* ... and so is what the query returned.
ReadTrue ==
    \A u \in Users : pc[u] = "resolve" =>
        IF details[u] = NoDetails THEN NoDetails \in truths[u]
        ELSE <<ResolveEffectivePlan(details[u]), details[u].tenant_status>> \in truths[u]

HInv == TruthKept /\ ReadTrue

LEMMA HInvInit == Init => HInv
BY DEF Init, HInv, TruthKept, ReadTrue, Running

\* A change of a table is witnessed by every login that runs.
LEMMA WitnessKeeps ==
    ASSUME TypeOK, HInv, Witness, UNCHANGED <<attribute, pc, details>>
    PROVE  HInv'
  <1>1. \A u \in Users : truths'[u] = IF Running(u) THEN truths[u] \cup Truth(attribute[u])'
                                      ELSE truths[u]
    BY DEF Witness
  <1>2. ASSUME NEW u \in Users, Running(u)' PROVE Truth(attribute[u])' \subseteq truths'[u]
    BY <1>1, <1>2 DEF Running
  <1>3. ASSUME NEW u \in Users, pc'[u] = "resolve"
        PROVE  IF details'[u] = NoDetails THEN NoDetails \in truths'[u]
               ELSE <<ResolveEffectivePlan(details'[u]), details'[u].tenant_status>> \in truths'[u]
    <2>1. truths[u] \subseteq truths'[u]
      BY <1>1
    <2> QED  BY <1>3, <2>1 DEF HInv, ReadTrue
  <1> QED  BY <1>2, <1>3 DEF HInv, TruthKept, ReadTrue, ResolveEffectivePlan

\* A step of one login leaves the others and the tables alone.
LEMMA StepKeeps ==
    ASSUME TypeOK, HInv, NEW u \in Users,
           UNCHANGED <<tenantVars, subscriptions, attribute>>,
           \A v \in Users \ {u} : pc'[v] = pc[v] /\ details'[v] = details[v] /\ truths'[v] = truths[v],
           Running(u)' => Truth(attribute[u]) \subseteq truths'[u],
           pc'[u] = "resolve" =>
               IF details'[u] = NoDetails THEN NoDetails \in truths'[u]
               ELSE <<ResolveEffectivePlan(details'[u]), details'[u].tenant_status>> \in truths'[u]
    PROVE  HInv'
  <1>1. \A v \in Users : Truth(attribute[v])' = Truth(attribute[v])
    BY DEF Truth, tenantVars
  <1>2. ASSUME NEW v \in Users, Running(v)' PROVE Truth(attribute[v])' \subseteq truths'[v]
    BY <1>1, <1>2 DEF Running, HInv, TruthKept
  <1>3. ASSUME NEW v \in Users, pc'[v] = "resolve"
        PROVE  IF details'[v] = NoDetails THEN NoDetails \in truths'[v]
               ELSE <<ResolveEffectivePlan(details'[v]), details'[v].tenant_status>> \in truths'[v]
    BY <1>3 DEF HInv, ReadTrue
  <1> QED  BY <1>2, <1>3 DEF HInv, TruthKept, ReadTrue, ResolveEffectivePlan

LEMMA HInvNext == TypeOK /\ HInv /\ [Next]_vars => HInv'
  <1> SUFFICES ASSUME TypeOK, HInv, [Next]_vars PROVE HInv'
    OBVIOUS
  <1> USE DEF TypeOK, Running
  <1>1. ASSUME NEW u \in Users, Login(u) PROVE HInv'
    BY <1>1, StepKeeps DEF Login
  <1>2. ASSUME NEW u \in Users, Start(u) PROVE HInv'
    BY <1>2, StepKeeps DEF Start, Issue, Return, Goto, HInv, TruthKept
  <1>3. ASSUME NEW u \in Users, GetPool(u) PROVE HInv'
    BY <1>3, StepKeeps DEF GetPool, Goto, HInv, TruthKept
  <1>4. ASSUME NEW u \in Users, Fetch(u) PROVE HInv'
    <2>1. PICK row \in Rows(attribute[u]) : details' = [details EXCEPT ![u] = row]
      BY <1>4 DEF Fetch
    <2>2. Truth(attribute[u]) \subseteq truths[u]
      BY <1>4 DEF Fetch, HInv, TruthKept
    <2>3. IF row = NoDetails THEN NoDetails \in truths[u]
          ELSE <<ResolveEffectivePlan(row), row.tenant_status>> \in truths[u]
      BY <2>2, RowsTrue
    <2> QED  BY <1>4, <2>1, <2>2, <2>3, StepKeeps DEF Fetch, Goto
  <1>5. ASSUME NEW u \in Users, Resolve(u) PROVE HInv'
    BY <1>5, StepKeeps DEF Resolve, Issue, Return, Goto
  <1>6. ASSUME NEW u \in Users, Catch(u) PROVE HInv'
    BY <1>6, StepKeeps DEF Catch, Issue, Return, Goto
  <1>7. ASSUME NEW u \in Users, Timeout(u) PROVE HInv'
    BY <1>7, StepKeeps DEF Timeout, Return, Goto
  <1>8. ASSUME NEW t \in Tenants, CreateTenant(t) PROVE HInv'
    BY <1>8, WitnessKeeps DEF CreateTenant
  <1>9. ASSUME NEW t \in Tenants, NEW s \in Statuses, SetStatus(t, s) PROVE HInv'
    BY <1>9, WitnessKeeps DEF SetStatus
  <1>10. ASSUME NEW t \in Tenants, NEW p, NEW c, Subscribe(t, p, c) PROVE HInv'
    BY <1>10, WitnessKeeps DEF Subscribe
  <1>11. ASSUME NEW s \in subscriptions, Cancel(s) PROVE HInv'
    BY <1>11, WitnessKeeps DEF Cancel
  <1>12. CASE UNCHANGED <<tenantVars, subscriptions, loginVars>>
    BY <1>12 DEF tenantVars, loginVars, HInv, TruthKept, ReadTrue, Truth
  <1>13. QED
    BY <1>1, <1>2, <1>3, <1>4, <1>5, <1>6, <1>7, <1>8, <1>9, <1>10, <1>11, <1>12
       DEF Next, Trigger, NextDay, vars

\* The step that issues a token: Start for a user without a tenant, Resolve
\* and Catch.
LEMMA IssueIsTrue ==
    ASSUME TypeOK, HInv, [Next]_vars, NEW u \in Users, Running(u), pc'[u] = "in"
    PROVE  TrueOf(u)
  <1> USE DEF TypeOK, Running
  <1>1. \/ Start(u) /\ attribute[u] = NoTenant
        \/ Resolve(u)
        \/ Catch(u)
    <2>1. PICK v \in Users : Login(v) \/ Trigger(v)
      BY DEF Next, CreateTenant, SetStatus, Subscribe, Cancel, NextDay, vars, loginVars
    <2>2. v = u /\ ~Login(v)
      <3>1. \A w \in Users \ {v} : pc'[w] = pc[w]
        BY <2>1 DEF Trigger, Login, Start, GetPool, Fetch, Resolve, Catch, Timeout,
                    Issue, Return, Goto
      <3> QED  BY <3>1 DEF Login
    <2>3. ~GetPool(u) /\ ~Fetch(u) /\ ~Timeout(u)
      BY DEF GetPool, Fetch, Timeout, Return, Goto
    <2>4. Start(u) => attribute[u] = NoTenant
      BY DEF Start, Goto
    <2> QED  BY <2>1, <2>2, <2>3, <2>4 DEF Trigger
  <1>2. CASE Start(u) /\ attribute[u] = NoTenant
    <2>1. NoDetails \in truths[u]
      BY <1>2, EntitlementAssumption DEF HInv, TruthKept, Truth
    <2>2. claims'[u] = Default("unknown")
      BY <1>2 DEF Start, Issue
    <2> QED  BY <2>1, <2>2 DEF TrueOf, Defaulted, Reasons, Default, DEFAULT_PLAN
  <1>3. CASE Resolve(u) /\ details[u] = NoDetails
    <2>1. NoDetails \in truths[u]
      BY <1>3 DEF Resolve, HInv, ReadTrue
    <2>2. claims'[u] = Default("not_found")
      BY <1>3 DEF Resolve, Issue
    <2> QED  BY <2>1, <2>2 DEF TrueOf, Defaulted, Reasons, Default, DEFAULT_PLAN
  <1>4. CASE Resolve(u) /\ details[u] # NoDetails
    <2>1. <<ResolveEffectivePlan(details[u]), details[u].tenant_status>> \in truths[u]
      BY <1>4 DEF Resolve, HInv, ReadTrue
    <2>2. claims'[u].plan_tier = ResolveEffectivePlan(details[u])
          /\ claims'[u].tenant_status = details[u].tenant_status
      BY <1>4 DEF Resolve, Issue
    <2>3. details[u].tenant_status \in Statuses
      BY <1>4 DEF TenantDetails
    <2>4. claims'[u].tenant_status \notin Reasons
      BY <2>2, <2>3, EntitlementAssumption
    <2> QED  BY <2>1, <2>2, <2>4 DEF TrueOf, Defaulted, Reasons
  <1>5. CASE Catch(u)
    <2>1. claims'[u] = Default("error") /\ faults \cap {"pool_fails", "query_fails"} # {}
      BY <1>5 DEF Catch, Issue
    <2> QED  BY <2>1 DEF TrueOf, Defaulted, Reasons, Default, DEFAULT_PLAN
  <1> QED  BY <1>1, <1>2, <1>3, <1>4, <1>5

\* In every environment, the claims of a new token were true of the tenant, all
\* at one moment since the login began, whatever the operators and the other
\* requests changed while the trigger ran; and a default stands for a missing
\* row or a failed call and grants the free plan.
THEOREM ClaimsWereTrueHolds == Spec => ClaimsWereTrue
<1>1. TypeOK /\ HInv /\ [Next]_vars =>
          [\A u \in Users : Running(u) /\ pc'[u] = "in" => TrueOf(u)]_vars
  BY IssueIsTrue
<1>2. QED
  BY TypeInit, TypeNext, HInvInit, HInvNext, <1>1, PTL DEF Spec, ClaimsWereTrue

----------------------------------------------------------------------------
(***************************************************************************)
(* Which tokens the feature matrix is right for.  PaidFeatures is false,   *)
(* for a subscriber of the plan "pro"; of all others it is true.           *)
(***************************************************************************)

\* The features of a token are those resolveFeatures finds for its plan_tier.
FeaturesFollow ==
    \A u \in Users : Defaulted(u) \/ claims[u].features = ResolveFeatures(claims[u].plan_tier)

LEMMA FollowInit == Init => FeaturesFollow
BY DEF Init, FeaturesFollow, Defaulted, Default, Reasons

LEMMA FollowNext == TypeOK /\ FeaturesFollow /\ [Next]_vars => FeaturesFollow'
  <1> SUFFICES ASSUME TypeOK, FeaturesFollow, [Next]_vars PROVE FeaturesFollow'
    OBVIOUS
  <1>1. ASSUME NEW u \in Users, NEW c, claims' = [claims EXCEPT ![u] = c],
               c.tenant_status \in Reasons \/ c.features = ResolveFeatures(c.plan_tier)
        PROVE  FeaturesFollow'
    BY <1>1 DEF TypeOK, FeaturesFollow, Defaulted, ResolveFeatures
  <1>2. ASSUME NEW u \in Users, NEW reason \in Reasons, Issue(u, Default(reason))
        PROVE  FeaturesFollow'
    BY <1>1, <1>2 DEF Issue, Default
  <1>3. ASSUME NEW u \in Users, Resolve(u) PROVE FeaturesFollow'
    <2>1. CASE details[u] = NoDetails
      BY <1>2, <1>3, <2>1 DEF Resolve, Reasons
    <2>2. CASE details[u] # NoDetails
      <3> DEFINE tier == ResolveEffectivePlan(details[u])
                 c == [plan_tier |-> tier, tenant_status |-> details[u].tenant_status,
                       features |-> ResolveFeatures(tier),
                       overridden |-> details[u].tenant_overrides]
      <3>1. claims' = [claims EXCEPT ![u] = c]
        BY <1>3, <2>2 DEF Resolve, Issue
      <3>2. c.features = ResolveFeatures(c.plan_tier)
        OBVIOUS
      <3> HIDE DEF c
      <3> QED  BY <1>1, <3>1, <3>2
    <2> QED  BY <2>1, <2>2
  <1>4. CASE UNCHANGED claims
    BY <1>4 DEF FeaturesFollow, Defaulted
  <1>5. QED
    BY <1>2, <1>3, <1>4
       DEF Next, Trigger, Login, Start, GetPool, Fetch, Catch, Timeout, CreateTenant, SetStatus,
           Subscribe, Cancel, NextDay, vars, loginVars, Reasons

\* A subscriber's token has the features of the plan it pays for, unless that
\* is "pro", which PLAN_FEATURES calls "professional" (index.js:78): the only
\* plan on offer for which PaidFeatures is false.
THEOREM OnlyProLacksFeatures ==
    Spec => [](\A u \in Users :
                 ~Defaulted(u) /\ claims[u].plan_tier \in PlanIds \ {"pro"}
                    => claims[u].features = Column[PLANS[claims[u].plan_tier].name])
<1>1. \A tier \in PlanIds \ {"pro"} : ResolveFeatures(tier) = Column[PLANS[tier].name]
  BY DEF PlanIds, PLANS, ResolveFeatures, PLAN_FEATURES, Column
<1>2. FeaturesFollow =>
          \A u \in Users : ~Defaulted(u) /\ claims[u].plan_tier \in PlanIds \ {"pro"}
             => claims[u].features = Column[PLANS[claims[u].plan_tier].name]
  BY <1>1 DEF FeaturesFollow
<1>3. QED
  BY TypeInit, TypeNext, FollowInit, FollowNext, <1>2, PTL DEF Spec

----------------------------------------------------------------------------
(***************************************************************************)
(* What the query may return.                                              *)
(***************************************************************************)

OneActive ==
    "overlap" \notin faults => \A t \in Tenants : \A s, o \in Active(t) : s = o

LEMMA OneActiveInit == Init => OneActive
BY DEF Init, OneActive, Active

LEMMA OneActiveNext == TypeOK /\ OneActive /\ [Next]_vars => OneActive'
  <1> SUFFICES ASSUME TypeOK, OneActive, [Next]_vars PROVE OneActive'
    OBVIOUS
  <1>1. ASSUME NEW t \in Tenants, NEW p, NEW c, Subscribe(t, p, c) PROVE OneActive'
    <2>0. PICK date \in TakenOn : subscriptions' = subscriptions \cup
             {[tenant |-> t, plan_id |-> p, billing_cycle |-> c, date |-> date,
               end |-> PeriodEnd(date, c), amount |-> Amount(p, c), status |-> "active"]}
      BY <1>1 DEF Subscribe
    <2> DEFINE row == [tenant |-> t, plan_id |-> p, billing_cycle |-> c, date |-> date,
                       end |-> PeriodEnd(date, c), amount |-> Amount(p, c),
                       status |-> "active"]
    <2>1. subscriptions' = subscriptions \cup {row} /\ UNCHANGED faults
          /\ (Active(t) = {} \/ "overlap" \in faults)
      BY <1>1, <2>0 DEF Subscribe
    <2>2. row.tenant = t
      OBVIOUS
    <2> HIDE DEF row
    <2> QED  BY <2>1, <2>2 DEF OneActive, Active
  <1>2. ASSUME NEW s \in subscriptions, Cancel(s) PROVE OneActive'
    <2>1. \A t \in Tenants : Active(t)' \subseteq Active(t)
      <3>1. [s EXCEPT !.status = "canceled"].status # "active"
        BY DEF TypeOK, Subscriptions
      <3> QED  BY <1>2, <3>1 DEF Cancel, Active
    <2> QED  BY <1>2, <2>1 DEF Cancel, OneActive
  <1>3. CASE UNCHANGED <<faults, subscriptions>>
    BY <1>3 DEF OneActive, Active
  <1>4. QED
    BY <1>1, <1>2, <1>3
       DEF Next, Trigger, Login, Start, GetPool, Fetch, Resolve, Catch, Timeout, Issue, Return,
           Goto, CreateTenant, SetStatus, NextDay, vars

\* Unless the requests of a tenant overlap, it has one active subscription at a
\* time and the query has one answer: LIMIT 1 leaves nothing to the database.
THEOREM QueryIsDetermined ==
    Spec => []("overlap" \notin faults =>
                  \A t \in Tenants : \A row, other \in Rows(t) : row = other)
<1>1. OneActive =>
         ("overlap" \notin faults => \A t \in Tenants : \A row, other \in Rows(t) : row = other)
  <2> SUFFICES ASSUME OneActive, "overlap" \notin faults, NEW t \in Tenants,
                      NEW row \in Rows(t), NEW other \in Rows(t)
               PROVE  row = other
    OBVIOUS
  <2>1. CASE t \notin tenants
    BY <2>1 DEF Rows
  <2>2. CASE t \in tenants
    <3>1. \A s, o \in Newest(t) : s.plan_id = o.plan_id
      BY DEF OneActive, Newest
    <3>2. \A a, b \in {s.plan_id : s \in Newest(t)} : a = b
      BY <3>1
    <3> QED  BY <2>2, <3>2 DEF Rows
  <2> QED  BY <2>1, <2>2
<1>2. QED
  BY TypeInit, TypeNext, OneActiveInit, OneActiveNext, <1>1, PTL DEF Spec
=============================================================================
