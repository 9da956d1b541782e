--------------------------- MODULE TradingCalendar ---------------------------
(***************************************************************************)
(* Which days the cron job trades on: the schedule of render.yaml wakes it *)
(* up on the 28th to the 31st, and the gate of run_cycle asks              *)
(* trading_calendar.py whether the US market is open.  The model is the    *)
(* calendar itself, walked day by day, with the runs that passed the gate. *)
(* A date is a tuple <<year, month, day>>; the dates are those of the      *)
(* server's clock (UTC), which run_cycle reads.                            *)
(***************************************************************************)
EXTENDS Integers

CONSTANTS FirstYear, LastYear   \* the walk goes over these years

ASSUME YearsAssumption == FirstYear \in Nat /\ LastYear \in Nat /\ FirstYear <= LastYear

VARIABLES
  today,    \* the date of the server's clock
  due,      \* is today's trigger still to come?
  ran       \* the days of this month on which a run passed the gate

vars == <<today, due, ran>>

---------------------------------------------------------------------------
(* The Gregorian calendar, as datetime.date has it. *)

IsLeap(y) == y % 4 = 0 /\ (y % 100 # 0 \/ y % 400 = 0)

DaysIn(y, m) ==
  CASE m = 2 -> IF IsLeap(y) THEN 29 ELSE 28
    [] m \in {4, 6, 9, 11} -> 30
    [] OTHER -> 31

\* date.weekday(): 0 is Monday, 6 is Sunday.
weekday(y, m, d) ==
  LET shift == <<0, 3, 2, 5, 0, 3, 5, 1, 4, 6, 2, 4>>
      year == IF m < 3 THEN y - 1 ELSE y
  IN (year + year \div 4 - year \div 100 + year \div 400 + shift[m] + d + 6) % 7

---------------------------------------------------------------------------
(* trading_calendar.py *)

US_MARKET_HOLIDAYS ==
  [y \in 2026 .. 2030 |->
    CASE y = 2026 -> {<<1, 1>>, <<1, 19>>, <<2, 16>>, <<4, 3>>, <<5, 25>>,
                      <<6, 19>>, <<7, 3>>, <<9, 7>>, <<11, 26>>, <<12, 25>>}
      [] y = 2027 -> {<<1, 1>>, <<1, 18>>, <<2, 15>>, <<3, 26>>, <<5, 31>>,
                      <<6, 18>>, <<7, 5>>, <<9, 6>>, <<11, 25>>, <<12, 24>>}
      [] y = 2028 -> {<<1, 17>>, <<2, 21>>, <<4, 14>>, <<5, 29>>, <<6, 19>>,
                      <<7, 4>>, <<9, 4>>, <<11, 23>>, <<12, 25>>}
      [] y = 2029 -> {<<1, 1>>, <<1, 15>>, <<2, 19>>, <<3, 30>>, <<5, 28>>,
                      <<6, 19>>, <<7, 4>>, <<9, 3>>, <<11, 22>>, <<12, 25>>}
      [] y = 2030 -> {<<1, 1>>, <<1, 21>>, <<2, 18>>, <<4, 19>>, <<5, 27>>,
                      <<6, 19>>, <<7, 4>>, <<9, 2>>, <<11, 28>>, <<12, 25>>}]

\* As if the table lacked the Fridays that keep a holiday on a Saturday (a
\* wrong form of IsHoliday, for the mutation runs).
IsHolidayAsDated(date) ==
  /\ date[1] \in DOMAIN US_MARKET_HOLIDAYS
  /\ <<date[2], date[3]>> \in US_MARKET_HOLIDAYS[date[1]] \ {<<7, 3>>, <<6, 18>>, <<12, 24>>}

IsHoliday(date) ==
  /\ date[1] \in DOMAIN US_MARKET_HOLIDAYS
  /\ <<date[2], date[3]>> \in US_MARKET_HOLIDAYS[date[1]]

is_trading_day(date) == weekday(date[1], date[2], date[3]) < 5 /\ ~IsHoliday(date)

---------------------------------------------------------------------------
(* The cron job. *)

\* The schedule one day shorter (a wrong form, for the mutation runs).
ScheduledDaysLate == 29 .. 31

\* The days of the month in the schedule "30 15 28-31 * *".
ScheduledDays == 28 .. 31

Init == today = <<FirstYear, 1, 1>> /\ due = (1 \in ScheduledDays) /\ ran = {}

Tomorrow ==
  LET y == today[1]  m == today[2]  d == today[3]
  IN IF d < DaysIn(y, m) THEN <<y, m, d + 1>>
     ELSE IF m < 12 THEN <<y, m + 1, 1>> ELSE <<y + 1, 1, 1>>

\* A server whose clock is set to Korea, where the next day has begun (a wrong
\* form of Trigger, for the mutation runs).
TriggerInKorea ==
  /\ due
  /\ due' = FALSE
  /\ ran' = IF is_trading_day(Tomorrow) THEN ran \union {Tomorrow[3]} ELSE ran
  /\ UNCHANGED today

\* 15:30 UTC comes: the job starts, and run_cycle goes on past the gate on a
\* trading day and ends with NON_TRADING_DAY on any other.
Trigger ==
  /\ due
  /\ due' = FALSE
  /\ ran' = IF is_trading_day(today) THEN ran \union {today[3]} ELSE ran
  /\ UNCHANGED today

\* Midnight.  The walk ends with LastYear.
NextDay ==
  /\ ~due
  /\ Tomorrow[1] <= LastYear
  /\ today' = Tomorrow
  /\ due' = (today'[3] \in ScheduledDays)
  /\ ran' = IF today'[2] = today[2] THEN ran ELSE {}

Next == Trigger \/ NextDay

Spec == Init /\ [][Next]_vars

---------------------------------------------------------------------------
(* The rule behind the table, from which a year's holidays are computed:   *)
(* the reference the table is compared with.                               *)

NthWeekday(y, m, w, n) ==
  CHOOSE d \in 1 .. DaysIn(y, m) : weekday(y, m, d) = w /\ (d - 1) \div 7 = n - 1

LastWeekday(y, m, w) ==
  CHOOSE d \in 1 .. DaysIn(y, m) : weekday(y, m, d) = w /\ d + 7 > DaysIn(y, m)

\* The days of March until Easter Sunday (past 31: in April), by the usual
\* computation from the golden number, the century and the day of the week.
EasterInMarch(y) ==
  LET a == y % 19
      b == y \div 100
      c == y % 100
      g == (b - (b + 8) \div 25 + 1) \div 3
      h == (19 * a + b - b \div 4 - g + 15) % 30
      l == (32 + 2 * (b % 4) + 2 * (c \div 4) - h - (c % 4)) % 7
      k == (a + 11 * h + 22 * l) \div 451
  IN h + l - 7 * k + 22

GoodFriday(y) ==
  LET d == EasterInMarch(y) - 2
  IN IF d > 31 THEN <<4, d - 31>> ELSE <<3, d>>

\* A fixed date on a Saturday is kept on the Friday before, on a Sunday on the
\* Monday after.
Observed(y, m, d) ==
  <<m, CASE weekday(y, m, d) = 5 -> d - 1
         [] weekday(y, m, d) = 6 -> d + 1
         [] OTHER -> d>>

\* A New Year's Day on a Saturday is not kept at all.
HolidaysByRule(y) ==
  {<<1, NthWeekday(y, 1, 0, 3)>>, <<2, NthWeekday(y, 2, 0, 3)>>, GoodFriday(y),
   <<5, LastWeekday(y, 5, 0)>>, <<9, NthWeekday(y, 9, 0, 1)>>,
   <<11, NthWeekday(y, 11, 3, 4)>>}
  \union {Observed(y, f[1], f[2]) : f \in {<<6, 19>>, <<7, 4>>, <<12, 25>>}}
  \union (IF weekday(y, 1, 1) = 5 THEN {} ELSE {Observed(y, 1, 1)})

Open(date) ==
  /\ weekday(date[1], date[2], date[3]) \notin {5, 6}
  /\ <<date[2], date[3]>> \notin HolidaysByRule(date[1])

LastOpenDay(y, m) ==
  CHOOSE d \in 1 .. DaysIn(y, m) :
    Open(<<y, m, d>>) /\ \A e \in d + 1 .. DaysIn(y, m) : ~Open(<<y, m, e>>)

---------------------------------------------------------------------------
\* The date is one of the calendar's, and a run is on a day of this month that
\* has come.
CalendarTypeOK ==
  /\ today[1] \in FirstYear .. LastYear
  /\ today[2] \in 1 .. 12
  /\ today[3] \in 1 .. DaysIn(today[1], today[2])
  /\ due \in BOOLEAN
  /\ ran \subseteq 1 .. today[3]

\* The table of trading_calendar.py, copied by hand from the exchange's
\* announcements, opens the gate on exactly the days that the rule of its
\* docstring leaves open: no holiday is missing (the cycle would trade into a
\* closed market), and no trading day is lost.
TableAgreesWithRule == is_trading_day(today) <=> Open(today)

\* A month other than February is not left before the cycle has run on its
\* last trading day: the days of the schedule and the weekends and holidays at
\* the end of a month never fall so that the last trading day is missed.
LongMonthsRunAtTheirEnd ==
  [][(today'[2] # today[2] /\ today[2] # 2) => LastOpenDay(today[1], today[2]) \in ran]_vars

\* The cron job trades every month (README.md: it runs at the end of each
\* month; the PRD: on each month's last trading day).  It does not: in a
\* February whose 28th is no trading day, no trigger of the schedule opens the
\* gate.
EveryMonthRuns == [][today'[2] # today[2] => ran # {}]_vars
=============================================================================
