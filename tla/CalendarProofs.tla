---------------------------- MODULE CalendarProofs ----------------------------
(***************************************************************************)
(* Proofs about TradingCalendar, for every span of years: those the table  *)
(* of holidays knows, and those it does not.                               *)
(***************************************************************************)
EXTENDS TradingCalendar, TLAPS

Month == 1 .. 12

------------------------------------------------------------------------------
(* The days of the week *)

LEMMA DaysInFacts ==
  ASSUME NEW y \in Nat, NEW m \in Month
  PROVE  DaysIn(y, m) \in 28..31 /\ (m # 2 => DaysIn(y, m) \in {30, 31})
  BY DEF DaysIn, Month

\* The days of a month follow each other through the week.
LEMMA WeekdayFacts ==
  ASSUME NEW y \in Nat, NEW m \in Month
  PROVE  \E k \in Int : \A d \in Int : weekday(y, m, d) = (k + d) % 7
<1> DEFINE shift == <<0, 3, 2, 5, 0, 3, 5, 1, 4, 6, 2, 4>>
           year == IF m < 3 THEN y - 1 ELSE y
           k == year + year \div 4 - year \div 100 + year \div 400 + shift[m] + 6
<1>1. shift[m] \in Int /\ year \in Int
  BY DEF Month
<1>2. k \in Int
  BY <1>1
<1>3. ASSUME NEW d \in Int
      PROVE  weekday(y, m, d) = (k + d) % 7
  <2>1. weekday(y, m, d) =
          (year + year \div 4 - year \div 100 + year \div 400 + shift[m] + d + 6) % 7
    BY DEF weekday
  <2>2. year + year \div 4 - year \div 100 + year \div 400 + shift[m] + d + 6 = k + d
    BY <1>1
  <2> HIDE DEF k, year, shift
  <2> QED
    BY <2>1, <2>2
<1> HIDE DEF k
<1> QED
  BY <1>2, <1>3

LEMMA WeekdayType ==
  ASSUME NEW y \in Nat, NEW m \in Month, NEW d \in Int
  PROVE  weekday(y, m, d) \in 0..6
<1>1. PICK k \in Int : \A e \in Int : weekday(y, m, e) = (k + e) % 7
  BY WeekdayFacts
<1>2. PICK n \in Int : n = k + d /\ weekday(y, m, d) = n % 7
  BY <1>1
<1> QED
  BY <1>2

\* Of seven days in a row one is a given day of the week.
LEMMA OneOfSeven ==
  ASSUME NEW y \in Nat, NEW m \in Month, NEW w \in 0..6, NEW first \in Int
  PROVE  \E d \in first..(first + 6) : weekday(y, m, d) = w
<1>1. PICK k \in Int : \A e \in Int : weekday(y, m, e) = (k + e) % 7
  BY WeekdayFacts
<1> DEFINE j == (w - (k + first)) % 7
<1>2. j \in 0..6 /\ ((k + first) + j) % 7 = w
  BY <1>1
<1> HIDE DEF j
<1>3. k + (first + j) = (k + first) + j /\ first + j \in first..(first + 6)
  BY <1>1, <1>2
<1>4. weekday(y, m, first + j) = w
  BY <1>1, <1>2, <1>3
<1> QED
  BY <1>3, <1>4

LEMMA NthWeekdayFacts ==
  ASSUME NEW y \in Nat, NEW m \in Month, NEW w \in 0..6, NEW n \in 1..4
  PROVE  /\ NthWeekday(y, m, w, n) \in (7 * n - 6)..(7 * n)
         /\ weekday(y, m, NthWeekday(y, m, w, n)) = w
<1>1. PICK d \in (7 * n - 6)..(7 * n) : weekday(y, m, d) = w
  <2>1. PICK first \in Int : first = 7 * n - 6 /\ first + 6 = 7 * n
    OBVIOUS
  <2>2. \E d \in first..(first + 6) : weekday(y, m, d) = w
    BY OneOfSeven
  <2> QED
    BY <2>1, <2>2
<1>2. d \in 1..DaysIn(y, m) /\ (d - 1) \div 7 = n - 1
  BY <1>1, DaysInFacts
<1>3. /\ NthWeekday(y, m, w, n) \in 1..DaysIn(y, m)
      /\ weekday(y, m, NthWeekday(y, m, w, n)) = w
      /\ (NthWeekday(y, m, w, n) - 1) \div 7 = n - 1
  BY <1>1, <1>2 DEF NthWeekday
<1> QED
  BY <1>3, DaysInFacts

\* The days of a week of the month differ by their day of the week.
LEMMA NthWeekdayIs ==
  ASSUME NEW y \in Nat, NEW m \in Month, NEW w \in 0..6, NEW n \in 1..4,
         NEW e \in (7 * n - 6)..(7 * n), weekday(y, m, e) = w
  PROVE  NthWeekday(y, m, w, n) = e
<1>1. PICK k \in Int : \A d \in Int : weekday(y, m, d) = (k + d) % 7
  BY WeekdayFacts
<1>2. PICK t \in (7 * n - 6)..(7 * n) : t = NthWeekday(y, m, w, n) /\ weekday(y, m, t) = w
  BY NthWeekdayFacts
<1>3. PICK i \in Int : i = k + e /\ i % 7 = w
  BY <1>1
<1>4. PICK j \in -6..6 : j = t - e
  BY <1>2
<1>5. (i + j) % 7 = w
  BY <1>1, <1>2, <1>3, <1>4
<1>6. j = 0
  BY <1>3, <1>5
<1> QED
  BY <1>2, <1>4, <1>6

\* Of three days in a row one is no Saturday and no Sunday, and of four days
\* two are not.
LEMMA AtWeekends ==
  ASSUME NEW y \in Nat, NEW m \in Month
  PROVE  /\ \E d \in 28..30 : weekday(y, m, d) \notin {5, 6}
         /\ \E d, e \in 28..31 : /\ d # e /\ weekday(y, m, d) \notin {5, 6}
                                 /\ weekday(y, m, e) \notin {5, 6}
<1>1. PICK k \in Int : \A e \in Int : weekday(y, m, e) = (k + e) % 7
  BY WeekdayFacts
<1>2. PICK w \in 0..6 : w = (k + 28) % 7
  BY <1>1
<1>3. /\ weekday(y, m, 28) = w
      /\ weekday(y, m, 29) = (w + 1) % 7
      /\ weekday(y, m, 30) = (w + 2) % 7
      /\ weekday(y, m, 31) = (w + 3) % 7
  BY <1>1, <1>2
<1>4. CASE w \in {0, 1, 2, 3, 4}
  <2>1. weekday(y, m, 28) \notin {5, 6}
    BY <1>3, <1>4
  <2>2. weekday(y, m, 29) \notin {5, 6} \/ weekday(y, m, 31) \notin {5, 6}
    BY <1>3, <1>4
  <2> QED
    BY <2>1, <2>2
<1>5. CASE w \in {5, 6}
  <2>1. weekday(y, m, 30) \notin {5, 6} /\ weekday(y, m, 31) \notin {5, 6}
    BY <1>3, <1>5
  <2> QED
    BY <2>1
<1> QED
  BY <1>2, <1>4, <1>5

------------------------------------------------------------------------------
(* The holidays near the end of a month: Good Friday, which can be in March, *)
(* Memorial Day, and Thanksgiving on the 28th at the latest.                 *)

\* Whatever the year, the computation puts Easter before the 28th of April.
LEMMA EasterBound ==
  ASSUME NEW y \in Nat
  PROVE  EasterInMarch(y) \in Int /\ EasterInMarch(y) <= 57
<1> DEFINE a == y % 19
           b == y \div 100
           c == y % 100
           g == (b - (b + 8) \div 25 + 1) \div 3
           h == (19 * a + b - b \div 4 - g + 15) % 30
           l == (32 + 2 * (b % 4) + 2 * (c \div 4) - h - (c % 4)) % 7
           k == (a + 11 * h + 22 * l) \div 451
<1>1. a \in Nat /\ b \in Nat /\ c \in Nat
  OBVIOUS
<1> HIDE DEF a, b, c
<1>2. g \in Int
  BY <1>1
<1> HIDE DEF g
<1>3. h \in 0..29
  BY <1>1, <1>2
<1> HIDE DEF h
<1>4. l \in 0..6
  BY <1>1, <1>3
<1> HIDE DEF l
<1>5. k \in Nat
  BY <1>1, <1>3, <1>4
<1>6. EasterInMarch(y) = h + l - 7 * k + 22
  BY DEF EasterInMarch, a, b, c, g, h, l, k
<1> HIDE DEF k
<1> QED
  BY <1>3, <1>4, <1>5, <1>6

LEMMA GoodFridayBound ==
  ASSUME NEW y \in Nat, NEW m \in Month, NEW d \in 28..31, GoodFriday(y) = <<m, d>>
  PROVE  m = 3
<1>1. PICK e \in Int : e = EasterInMarch(y) - 2 /\ e <= 55
  BY EasterBound
<1>2. GoodFriday(y) = IF e > 31 THEN <<4, e - 31>> ELSE <<3, e>>
  BY <1>1 DEF GoodFriday
<1> QED
  BY <1>1, <1>2

LEMMA ObservedBound ==
  ASSUME NEW y \in Nat, NEW m \in Month, NEW d \in 1..28
  PROVE  \E e \in (d - 1)..(d + 1) : Observed(y, m, d) = <<m, e>>
  BY DEF Observed

\* Which days from the 28th on the rule names, outside of February.
LEMMA RuleAtMonthEnd ==
  ASSUME NEW y \in Nat, NEW m \in Month \ {2}, NEW d \in 28..31,
         <<m, d>> \in HolidaysByRule(y)
  PROVE  \/ m = 3 /\ <<m, d>> = GoodFriday(y)
         \/ m = 5 /\ d = LastWeekday(y, 5, 0)
         \/ m = 11 /\ d = 28 /\ weekday(y, 11, 28) = 3
<1> USE DEF Month
<1>1. CASE <<m, d>> = <<1, NthWeekday(y, 1, 0, 3)>>
  <2>1. NthWeekday(y, 1, 0, 3) \in 15..21
    BY NthWeekdayFacts
  <2> QED
    BY <1>1, <2>1
<1>2. CASE <<m, d>> = <<9, NthWeekday(y, 9, 0, 1)>>
  <2>1. NthWeekday(y, 9, 0, 1) \in 1..7
    BY NthWeekdayFacts
  <2> QED
    BY <1>2, <2>1
<1>3. CASE <<m, d>> = <<11, NthWeekday(y, 11, 3, 4)>>
  <2>1. NthWeekday(y, 11, 3, 4) \in 22..28 /\ weekday(y, 11, NthWeekday(y, 11, 3, 4)) = 3
    BY NthWeekdayFacts
  <2> QED
    BY <1>3, <2>1
<1>4. CASE <<m, d>> = GoodFriday(y)
  BY <1>4, GoodFridayBound
<1>5. CASE \E f \in {<<6, 19>>, <<7, 4>>, <<12, 25>>} : <<m, d>> = Observed(y, f[1], f[2])
  <2>1. ASSUME NEW n \in {6, 7, 12}, NEW e \in {4, 19, 25}
        PROVE  <<m, d>> # Observed(y, n, e)
    <3>1. n \in Month /\ e \in 1..28
      OBVIOUS
    <3>2. PICK i \in (e - 1)..(e + 1) : Observed(y, n, e) = <<n, i>>
      BY <3>1, ObservedBound
    <3>3. i # d
      BY <2>1
    <3> QED
      BY <3>2, <3>3
  <2> QED
    BY <1>5, <2>1
<1>6. CASE <<m, d>> = Observed(y, 1, 1)
  <2>1. PICK i \in 0..2 : Observed(y, 1, 1) = <<1, i>>
    BY ObservedBound
  <2> QED
    BY <1>6, <2>1
<1>7. CASE <<m, d>> = <<5, LastWeekday(y, 5, 0)>>
  BY <1>7
<1>8. \/ <<m, d>> \in {<<1, NthWeekday(y, 1, 0, 3)>>, <<2, NthWeekday(y, 2, 0, 3)>>,
                       GoodFriday(y), <<5, LastWeekday(y, 5, 0)>>,
                       <<9, NthWeekday(y, 9, 0, 1)>>, <<11, NthWeekday(y, 11, 3, 4)>>}
      \/ \E f \in {<<6, 19>>, <<7, 4>>, <<12, 25>>} : <<m, d>> = Observed(y, f[1], f[2])
      \/ <<m, d>> = Observed(y, 1, 1)
  BY DEF HolidaysByRule
<1>9. <<m, d>> # <<2, NthWeekday(y, 2, 0, 3)>>
  OBVIOUS
<1> QED
  BY <1>1, <1>2, <1>3, <1>4, <1>5, <1>6, <1>7, <1>8, <1>9

\* Outside of February one of the days from the 28th on is open.
LEMMA OpenAtMonthEnd ==
  ASSUME NEW y \in Nat, NEW m \in Month \ {2}
  PROVE  \E d \in 28..DaysIn(y, m) : Open(<<y, m, d>>)
<1>1. DaysIn(y, m) \in {30, 31} /\ (m \in {3, 5} => DaysIn(y, m) = 31)
  BY DaysInFacts DEF DaysIn, Month
<1>2. ASSUME NEW d \in 28..31
      PROVE  Open(<<y, m, d>>) <=> /\ weekday(y, m, d) \notin {5, 6}
                                   /\ <<m, d>> \notin HolidaysByRule(y)
  BY DEF Open
<1>3. ASSUME NEW d \in 28..31, <<m, d>> \in HolidaysByRule(y)
      PROVE  \/ m = 3 /\ <<m, d>> = GoodFriday(y)
             \/ m = 5 /\ d = LastWeekday(y, 5, 0)
             \/ m = 11 /\ d = 28 /\ weekday(y, 11, 28) = 3
  BY <1>3, RuleAtMonthEnd
<1>4. CASE m \notin {3, 5, 11}
  <2>1. PICK d \in 28..31 : d # 31 /\ weekday(y, m, d) \notin {5, 6}
    <3>1. PICK d \in 28..30 : weekday(y, m, d) \notin {5, 6}
      BY AtWeekends
    <3> QED
      BY <3>1
  <2>2. <<m, d>> \notin HolidaysByRule(y)
    BY <1>4, <1>3
  <2> QED
    BY <1>1, <1>2, <2>1, <2>2
<1>5. CASE m \in {3, 5}
  <2>1. PICK d, e \in 28..31 : /\ d # e /\ weekday(y, m, d) \notin {5, 6}
                               /\ weekday(y, m, e) \notin {5, 6}
    BY AtWeekends
  <2>2. ~ (<<m, d>> \in HolidaysByRule(y) /\ <<m, e>> \in HolidaysByRule(y))
    <3>1. <<m, d>> # <<m, e>>
      BY <2>1
    <3> QED
      BY <1>5, <2>1, <3>1, <1>3
  <2> QED
    BY <1>1, <1>2, <1>5, <2>1, <2>2
<1>6. CASE m = 11
  <2>1. PICK d \in 28..31 : d # 31 /\ weekday(y, m, d) \notin {5, 6}
    <3>1. PICK d \in 28..30 : weekday(y, m, d) \notin {5, 6}
      BY AtWeekends
    <3> QED
      BY <3>1
  <2>2. CASE <<m, d>> \notin HolidaysByRule(y)
    BY <1>1, <1>2, <2>1, <2>2
  <2>3. CASE <<m, d>> \in HolidaysByRule(y)
    <3>1. weekday(y, m, 28) = 3
      BY <1>6, <2>1, <2>3, <1>3
    <3>2. weekday(y, m, 29) = 4
      <4>1. PICK k \in Int : \A e \in Int : weekday(y, m, e) = (k + e) % 7
        BY WeekdayFacts
      <4>2. (k + 28) % 7 = 3 /\ weekday(y, m, 29) = (k + 29) % 7
        BY <3>1, <4>1
      <4> QED
        BY <4>2
    <3>3. <<m, 29>> \notin HolidaysByRule(y)
      BY <1>6, <1>3
    <3> QED
      BY <1>1, <1>2, <3>2, <3>3
  <2> QED
    BY <2>2, <2>3
<1> QED
  BY <1>4, <1>5, <1>6

LEMMA LastOpenDayFacts ==
  ASSUME NEW y \in Nat, NEW m \in Month \ {2}
  PROVE  LastOpenDay(y, m) \in 28..DaysIn(y, m) /\ Open(<<y, m, LastOpenDay(y, m)>>)
<1> DEFINE n == DaysIn(y, m)
           IsLast(d) == Open(<<y, m, d>>) /\ \A e \in d + 1 .. n : ~Open(<<y, m, e>>)
<1>1. n \in {30, 31}
  BY DaysInFacts
<1>2. PICK o \in 28..n : Open(<<y, m, o>>)
  BY OpenAtMonthEnd
<1> HIDE DEF n
<1>3. \E d \in 1..n : IsLast(d)
  <2>1. CASE n = 31 /\ Open(<<y, m, 31>>)
    BY <2>1
  <2>2. CASE Open(<<y, m, 30>>) /\ ~(n = 31 /\ Open(<<y, m, 31>>))
    <3>1. \A e \in 31..n : e = 31 /\ n = 31
      BY <1>1
    <3> QED
      BY <1>1, <2>2, <3>1
  <2>3. CASE Open(<<y, m, 29>>) /\ ~Open(<<y, m, 30>>) /\ ~(n = 31 /\ Open(<<y, m, 31>>))
    <3>1. \A e \in 30..n : e = 30 \/ (e = 31 /\ n = 31)
      BY <1>1
    <3> QED
      BY <1>1, <2>3, <3>1
  <2>4. CASE /\ Open(<<y, m, 28>>) /\ ~Open(<<y, m, 29>>) /\ ~Open(<<y, m, 30>>)
             /\ ~(n = 31 /\ Open(<<y, m, 31>>))
    <3>1. \A e \in 29..n : e = 29 \/ e = 30 \/ (e = 31 /\ n = 31)
      BY <1>1
    <3> QED
      BY <1>1, <2>4, <3>1
  <2>5. o = 28 \/ o = 29 \/ o = 30 \/ (o = 31 /\ n = 31)
    BY <1>1
  <2> QED
    BY <1>2, <2>1, <2>2, <2>3, <2>4, <2>5
<1>4. LastOpenDay(y, m) = CHOOSE d \in 1..n : IsLast(d)
  BY DEF LastOpenDay, n
<1>5. LastOpenDay(y, m) \in 1..n /\ IsLast(LastOpenDay(y, m))
  <2> HIDE DEF IsLast
  <2> QED
    BY <1>3, <1>4
<1>6. LastOpenDay(y, m) >= o
  BY <1>1, <1>2, <1>5
<1> QED
  BY <1>1, <1>5, <1>6 DEF n

------------------------------------------------------------------------------
(* The rows of the table, year by year *)

\* Memorial Day is the Monday among the last seven days of May.
LEMMA LastMondayOfMay ==
  ASSUME NEW y \in Nat, NEW e \in 25..31, weekday(y, 5, e) = 0
  PROVE  LastWeekday(y, 5, 0) = e
<1>0. 5 \in Month
  BY DEF Month
<1>1. PICK k \in Int : \A d \in Int : weekday(y, 5, d) = (k + d) % 7
  BY <1>0, WeekdayFacts
<1>2. (k + e) % 7 = 0
  BY <1>1
<1>3. ASSUME NEW d \in 1..31, weekday(y, 5, d) = 0, d + 7 > 31
      PROVE  d = e
  <2>1. d \in 25..31 /\ (k + d) % 7 = 0
    BY <1>1, <1>3
  <2>2. PICK n \in Int : n = k + e /\ n % 7 = 0
    BY <1>2
  <2>3. PICK j \in -6..6 : j = d - e
    BY <2>1
  <2>4. (n + j) % 7 = 0
    BY <2>1, <2>2, <2>3
  <2>5. j = 0
    BY <2>2, <2>4
  <2> QED
    BY <2>3, <2>5
<1>4. LastWeekday(y, 5, 0) = CHOOSE d \in 1..31 : weekday(y, 5, d) = 0 /\ d + 7 > 31
  BY DEF LastWeekday, DaysIn
<1>5. e \in 1..31 /\ weekday(y, 5, e) = 0 /\ e + 7 > 31
  OBVIOUS
<1>6. LastWeekday(y, 5, 0) \in {d \in 1..31 : weekday(y, 5, d) = 0 /\ d + 7 > 31}
  BY <1>4, <1>5
<1> QED
  BY <1>3, <1>6

LEMMA RuleAsSet ==
  ASSUME NEW y
  PROVE  HolidaysByRule(y) =
           {<<1, NthWeekday(y, 1, 0, 3)>>, <<2, NthWeekday(y, 2, 0, 3)>>, GoodFriday(y),
            <<5, LastWeekday(y, 5, 0)>>, <<9, NthWeekday(y, 9, 0, 1)>>,
            <<11, NthWeekday(y, 11, 3, 4)>>, Observed(y, 6, 19), Observed(y, 7, 4),
            Observed(y, 12, 25)}
           \union (IF weekday(y, 1, 1) = 5 THEN {} ELSE {Observed(y, 1, 1)})
<1>1. {Observed(y, f[1], f[2]) : f \in {<<6, 19>>, <<7, 4>>, <<12, 25>>}} =
        {Observed(y, 6, 19), Observed(y, 7, 4), Observed(y, 12, 25)}
  OBVIOUS
<1> QED
  BY <1>1 DEF HolidaysByRule

LEMMA Rule2026 == HolidaysByRule(2026) = US_MARKET_HOLIDAYS[2026]
<1>1. /\ NthWeekday(2026, 1, 0, 3) = 19 /\ NthWeekday(2026, 2, 0, 3) = 16
      /\ NthWeekday(2026, 9, 0, 1) = 7 /\ NthWeekday(2026, 11, 3, 4) = 26
  <2>1. /\ weekday(2026, 1, 19) = 0 /\ weekday(2026, 2, 16) = 0
        /\ weekday(2026, 9, 7) = 0 /\ weekday(2026, 11, 26) = 3
    BY DEF weekday
  <2> QED
    BY <2>1, NthWeekdayIs DEF Month
<1>2. LastWeekday(2026, 5, 0) = 25
  <2>1. weekday(2026, 5, 25) = 0
    BY DEF weekday
  <2> QED
    BY <2>1, LastMondayOfMay
<1>3. GoodFriday(2026) = <<4, 3>>
  <2>1. EasterInMarch(2026) = 36
    BY DEF EasterInMarch
  <2> QED
    BY <2>1 DEF GoodFriday
<1>4. /\ weekday(2026, 1, 1) = 3 /\ weekday(2026, 6, 19) = 4
      /\ weekday(2026, 7, 4) = 5 /\ weekday(2026, 12, 25) = 4
  BY DEF weekday
<1>5. /\ Observed(2026, 6, 19) = <<6, 19>> /\ Observed(2026, 7, 4) = <<7, 3>>
      /\ Observed(2026, 12, 25) = <<12, 25>> /\ Observed(2026, 1, 1) = <<1, 1>>
  BY <1>4 DEF Observed
<1> QED
  BY <1>1, <1>2, <1>3, <1>4, <1>5, RuleAsSet DEF US_MARKET_HOLIDAYS

LEMMA Rule2027 == HolidaysByRule(2027) = US_MARKET_HOLIDAYS[2027]
<1>1. /\ NthWeekday(2027, 1, 0, 3) = 18 /\ NthWeekday(2027, 2, 0, 3) = 15
      /\ NthWeekday(2027, 9, 0, 1) = 6 /\ NthWeekday(2027, 11, 3, 4) = 25
  <2>1. /\ weekday(2027, 1, 18) = 0 /\ weekday(2027, 2, 15) = 0
        /\ weekday(2027, 9, 6) = 0 /\ weekday(2027, 11, 25) = 3
    BY DEF weekday
  <2> QED
    BY <2>1, NthWeekdayIs DEF Month
<1>2. LastWeekday(2027, 5, 0) = 31
  <2>1. weekday(2027, 5, 31) = 0
    BY DEF weekday
  <2> QED
    BY <2>1, LastMondayOfMay
<1>3. GoodFriday(2027) = <<3, 26>>
  <2>1. EasterInMarch(2027) = 28
    BY DEF EasterInMarch
  <2> QED
    BY <2>1 DEF GoodFriday
<1>4. /\ weekday(2027, 1, 1) = 4 /\ weekday(2027, 6, 19) = 5
      /\ weekday(2027, 7, 4) = 6 /\ weekday(2027, 12, 25) = 5
  BY DEF weekday
<1>5. /\ Observed(2027, 6, 19) = <<6, 18>> /\ Observed(2027, 7, 4) = <<7, 5>>
      /\ Observed(2027, 12, 25) = <<12, 24>> /\ Observed(2027, 1, 1) = <<1, 1>>
  BY <1>4 DEF Observed
<1> QED
  BY <1>1, <1>2, <1>3, <1>4, <1>5, RuleAsSet DEF US_MARKET_HOLIDAYS

LEMMA Rule2028 == HolidaysByRule(2028) = US_MARKET_HOLIDAYS[2028]
<1>1. /\ NthWeekday(2028, 1, 0, 3) = 17 /\ NthWeekday(2028, 2, 0, 3) = 21
      /\ NthWeekday(2028, 9, 0, 1) = 4 /\ NthWeekday(2028, 11, 3, 4) = 23
  <2>1. /\ weekday(2028, 1, 17) = 0 /\ weekday(2028, 2, 21) = 0
        /\ weekday(2028, 9, 4) = 0 /\ weekday(2028, 11, 23) = 3
    BY DEF weekday
  <2> QED
    BY <2>1, NthWeekdayIs DEF Month
<1>2. LastWeekday(2028, 5, 0) = 29
  <2>1. weekday(2028, 5, 29) = 0
    BY DEF weekday
  <2> QED
    BY <2>1, LastMondayOfMay
<1>3. GoodFriday(2028) = <<4, 14>>
  <2>1. EasterInMarch(2028) = 47
    BY DEF EasterInMarch
  <2> QED
    BY <2>1 DEF GoodFriday
<1>4. /\ weekday(2028, 1, 1) = 5 /\ weekday(2028, 6, 19) = 0
      /\ weekday(2028, 7, 4) = 1 /\ weekday(2028, 12, 25) = 0
  BY DEF weekday
<1>5. /\ Observed(2028, 6, 19) = <<6, 19>> /\ Observed(2028, 7, 4) = <<7, 4>>
      /\ Observed(2028, 12, 25) = <<12, 25>>
  BY <1>4 DEF Observed
<1> QED
  BY <1>1, <1>2, <1>3, <1>4, <1>5, RuleAsSet DEF US_MARKET_HOLIDAYS

LEMMA Rule2029 == HolidaysByRule(2029) = US_MARKET_HOLIDAYS[2029]
<1>1. /\ NthWeekday(2029, 1, 0, 3) = 15 /\ NthWeekday(2029, 2, 0, 3) = 19
      /\ NthWeekday(2029, 9, 0, 1) = 3 /\ NthWeekday(2029, 11, 3, 4) = 22
  <2>1. /\ weekday(2029, 1, 15) = 0 /\ weekday(2029, 2, 19) = 0
        /\ weekday(2029, 9, 3) = 0 /\ weekday(2029, 11, 22) = 3
    BY DEF weekday
  <2> QED
    BY <2>1, NthWeekdayIs DEF Month
<1>2. LastWeekday(2029, 5, 0) = 28
  <2>1. weekday(2029, 5, 28) = 0
    BY DEF weekday
  <2> QED
    BY <2>1, LastMondayOfMay
<1>3. GoodFriday(2029) = <<3, 30>>
  <2>1. EasterInMarch(2029) = 32
    BY DEF EasterInMarch
  <2> QED
    BY <2>1 DEF GoodFriday
<1>4. /\ weekday(2029, 1, 1) = 0 /\ weekday(2029, 6, 19) = 1
      /\ weekday(2029, 7, 4) = 2 /\ weekday(2029, 12, 25) = 1
  BY DEF weekday
<1>5. /\ Observed(2029, 6, 19) = <<6, 19>> /\ Observed(2029, 7, 4) = <<7, 4>>
      /\ Observed(2029, 12, 25) = <<12, 25>> /\ Observed(2029, 1, 1) = <<1, 1>>
  BY <1>4 DEF Observed
<1> QED
  BY <1>1, <1>2, <1>3, <1>4, <1>5, RuleAsSet DEF US_MARKET_HOLIDAYS

LEMMA Rule2030 == HolidaysByRule(2030) = US_MARKET_HOLIDAYS[2030]
<1>1. /\ NthWeekday(2030, 1, 0, 3) = 21 /\ NthWeekday(2030, 2, 0, 3) = 18
      /\ NthWeekday(2030, 9, 0, 1) = 2 /\ NthWeekday(2030, 11, 3, 4) = 28
  <2>1. /\ weekday(2030, 1, 21) = 0 /\ weekday(2030, 2, 18) = 0
        /\ weekday(2030, 9, 2) = 0 /\ weekday(2030, 11, 28) = 3
    BY DEF weekday
  <2> QED
    BY <2>1, NthWeekdayIs DEF Month
<1>2. LastWeekday(2030, 5, 0) = 27
  <2>1. weekday(2030, 5, 27) = 0
    BY DEF weekday
  <2> QED
    BY <2>1, LastMondayOfMay
<1>3. GoodFriday(2030) = <<4, 19>>
  <2>1. EasterInMarch(2030) = 52
    BY DEF EasterInMarch
  <2> QED
    BY <2>1 DEF GoodFriday
<1>4. /\ weekday(2030, 1, 1) = 1 /\ weekday(2030, 6, 19) = 2
      /\ weekday(2030, 7, 4) = 3 /\ weekday(2030, 12, 25) = 2
  BY DEF weekday
<1>5. /\ Observed(2030, 6, 19) = <<6, 19>> /\ Observed(2030, 7, 4) = <<7, 4>>
      /\ Observed(2030, 12, 25) = <<12, 25>> /\ Observed(2030, 1, 1) = <<1, 1>>
  BY <1>4 DEF Observed
<1> QED
  BY <1>1, <1>2, <1>3, <1>4, <1>5, RuleAsSet DEF US_MARKET_HOLIDAYS

\* In a year of the table the gate opens on exactly the days the rule leaves
\* open.
LEMMA GateByRule ==
  ASSUME NEW y \in 2026..2030, NEW m \in Month, NEW d \in Int
  PROVE  is_trading_day(<<y, m, d>>) <=> Open(<<y, m, d>>)
<1>1. US_MARKET_HOLIDAYS[y] = HolidaysByRule(y)
  BY Rule2026, Rule2027, Rule2028, Rule2029, Rule2030
<1>2. IsHoliday(<<y, m, d>>) <=> <<m, d>> \in HolidaysByRule(y)
  <2>1. DOMAIN US_MARKET_HOLIDAYS = 2026..2030
    BY DEF US_MARKET_HOLIDAYS
  <2> QED
    BY <1>1, <2>1 DEF IsHoliday
<1>3. weekday(y, m, d) < 5 <=> weekday(y, m, d) \notin {5, 6}
  BY WeekdayType
<1> QED
  BY <1>2, <1>3 DEF is_trading_day, Open

\* The gate opens on every day that the rule leaves open: in the years of the
\* table, and in all others, where it opens on every weekday.
LEMMA GateOpens ==
  ASSUME NEW y \in Nat, NEW m \in Month, NEW d \in Int, Open(<<y, m, d>>)
  PROVE  is_trading_day(<<y, m, d>>)
<1>1. CASE y \in 2026..2030
  BY <1>1, GateByRule
<1>2. CASE y \notin 2026..2030
  <2>1. weekday(y, m, d) < 5
    BY WeekdayType DEF Open
  <2>2. ~IsHoliday(<<y, m, d>>)
    BY <1>2 DEF IsHoliday, US_MARKET_HOLIDAYS
  <2> QED
    BY <2>1, <2>2 DEF is_trading_day
<1> QED
  BY <1>1, <1>2

------------------------------------------------------------------------------
(* The walk *)

\* What a date of the walk is.
IsDate(date) ==
  \E y \in FirstYear..LastYear, m \in Month : \E d \in 1..DaysIn(y, m) : date = <<y, m, d>>

\* On every day of the schedule that has had its trigger, and on which the gate
\* opens, there was a run.
NoRunMissed ==
  \A e \in 28..today[3] :
    (e < today[3] \/ ~due) /\ is_trading_day(<<today[1], today[2], e>>) => e \in ran

CalInv == IsDate(today) /\ CalendarTypeOK /\ NoRunMissed

LEMMA InitCal == Init => CalInv
<1> SUFFICES ASSUME Init PROVE CalInv
  OBVIOUS
<1>1. today = <<FirstYear, 1, 1>> /\ due = (1 \in ScheduledDays) /\ ran = {}
  BY DEF Init
<1>2. 1 \in 1..DaysIn(FirstYear, 1) /\ 1 \in Month /\ FirstYear \in FirstYear..LastYear
  BY YearsAssumption DEF DaysIn, Month
<1>3. today[1] = FirstYear /\ today[2] = 1 /\ today[3] = 1
  BY <1>1
<1>4. IsDate(today)
  BY <1>1, <1>2 DEF IsDate
<1>5. CalendarTypeOK
  BY <1>1, <1>2, <1>3 DEF CalendarTypeOK, Month
<1>6. NoRunMissed
  BY <1>3 DEF NoRunMissed
<1> QED
  BY <1>4, <1>5, <1>6 DEF CalInv

LEMMA TriggerKeeps == CalInv /\ Trigger => CalInv'
<1> SUFFICES ASSUME CalInv, Trigger PROVE CalInv'
  OBVIOUS
<1>1. PICK y \in FirstYear..LastYear, m \in Month :
        \E d \in 1..DaysIn(y, m) : today = <<y, m, d>>
  BY DEF CalInv, IsDate
<1>2. PICK d \in 1..DaysIn(y, m) : today = <<y, m, d>>
  BY <1>1
<1>3. today' = today /\ due' = FALSE
  BY DEF Trigger
<1>4. today[1] = y /\ today[2] = m /\ today[3] = d
  BY <1>2
<1>5. ran' = IF is_trading_day(<<y, m, d>>) THEN ran \union {d} ELSE ran
  BY <1>2, <1>4 DEF Trigger
<1>6. d \in 1..31
  <2>1. y \in Nat
    BY YearsAssumption
  <2> QED
    BY <2>1, DaysInFacts
<1>7. ran' \subseteq 1..d
  BY <1>4, <1>5, <1>6 DEF CalInv, CalendarTypeOK
<1>8. CalendarTypeOK'
  BY <1>3, <1>4, <1>7 DEF CalInv, CalendarTypeOK
<1>9. ASSUME NEW e \in 28..d, is_trading_day(<<y, m, e>>)
      PROVE  e \in ran'
  <2>1. CASE e = d
    BY <1>5, <1>9, <2>1
  <2>2. CASE e < d
    <3>1. e \in ran
      BY <1>4, <1>9, <2>2 DEF CalInv, NoRunMissed
    <3> QED
      BY <1>5, <3>1
  <2> QED
    BY <1>6, <2>1, <2>2
<1>10. NoRunMissed'
  BY <1>3, <1>4, <1>9 DEF NoRunMissed
<1> QED
  BY <1>3, <1>8, <1>10 DEF CalInv

LEMMA NextDayKeeps == CalInv /\ NextDay => CalInv'
<1> SUFFICES ASSUME CalInv, NextDay PROVE CalInv'
  OBVIOUS
<1>1. PICK y \in FirstYear..LastYear, m \in Month :
        \E d \in 1..DaysIn(y, m) : today = <<y, m, d>>
  BY DEF CalInv, IsDate
<1>2. PICK d \in 1..DaysIn(y, m) : today = <<y, m, d>>
  BY <1>1
<1>3. today[1] = y /\ today[2] = m /\ today[3] = d
  BY <1>2
<1>4. y \in Nat /\ d \in 1..31 /\ DaysIn(y, m) \in 28..31
  <2>1. y \in Nat
    BY YearsAssumption
  <2> QED
    BY <2>1, DaysInFacts
<1>5. /\ ~due /\ Tomorrow[1] <= LastYear /\ today' = Tomorrow
      /\ due' = (today'[3] \in 28..31)
      /\ ran' = IF today'[2] = today[2] THEN ran ELSE {}
  BY DEF NextDay, ScheduledDays
<1>6. CASE d < DaysIn(y, m)
  <2>1. today' = <<y, m, d + 1>> /\ d + 1 \in 1..DaysIn(y, m)
    BY <1>3, <1>4, <1>5, <1>6 DEF Tomorrow
  <2>2. today'[1] = y /\ today'[2] = m /\ today'[3] = d + 1
    BY <2>1
  <2>3. ran' = ran /\ ran \subseteq 1..d
    BY <1>3, <1>5, <2>2 DEF CalInv, CalendarTypeOK
  <2>4. IsDate(today')
    BY <2>1 DEF IsDate
  <2>5. ran' \subseteq 1..(d + 1)
    BY <1>4, <2>3
  <2>6. CalendarTypeOK'
    BY <1>5, <2>1, <2>2, <2>5 DEF CalendarTypeOK, Month
  <2>7. ASSUME NEW e \in 28..(d + 1), e < d + 1 \/ ~due', is_trading_day(<<y, m, e>>)
        PROVE  e \in ran'
    <3>1. d + 1 \in 28..31
      BY <1>4, <2>1
    <3>2. due'
      BY <1>5, <2>2, <3>1
    <3>3. e \in 28..d
      BY <1>4, <2>7, <3>2
    <3>4. e \in ran
      BY <1>3, <1>5, <2>7, <3>3 DEF CalInv, NoRunMissed
    <3> QED
      BY <2>3, <3>4
  <2>8. NoRunMissed'
    BY <2>2, <2>7 DEF NoRunMissed
  <2> QED
    BY <2>4, <2>6, <2>8 DEF CalInv
<1>7. CASE ~(d < DaysIn(y, m))
  <2>1. PICK z \in Nat, n \in Month :
          today' = <<z, n, 1>> /\ z \in FirstYear..LastYear /\ n # m
    <3>1. CASE m < 12
      <4>1. today' = <<y, m + 1, 1>>
        BY <1>3, <1>5, <1>7, <3>1 DEF Tomorrow
      <4>2. m + 1 \in Month /\ m + 1 # m
        BY <3>1 DEF Month
      <4> QED
        BY <1>4, <4>1, <4>2
    <3>2. CASE ~(m < 12)
      <4>1. today' = <<y + 1, 1, 1>>
        BY <1>3, <1>5, <1>7, <3>2 DEF Tomorrow
      <4>2. y + 1 <= LastYear
        BY <1>5, <4>1
      <4>3. 1 \in Month /\ 1 # m
        BY <3>2 DEF Month
      <4>4. y + 1 \in Nat /\ y + 1 \in FirstYear..LastYear
        BY <1>4, <4>2, YearsAssumption
      <4> QED
        BY <4>1, <4>3, <4>4
    <3> QED
      BY <3>1, <3>2
  <2>2. today'[1] = z /\ today'[2] = n /\ today'[3] = 1
    BY <2>1
  <2>3. ran' = {}
    BY <1>3, <1>5, <2>1, <2>2
  <2>4. 1 \in 1..DaysIn(z, n)
    BY <2>1, DaysInFacts
  <2>5. IsDate(today')
    BY <2>1, <2>4 DEF IsDate
  <2>6. CalendarTypeOK'
    BY <1>5, <2>1, <2>2, <2>3, <2>4 DEF CalendarTypeOK, Month
  <2>7. NoRunMissed'
    BY <2>2 DEF NoRunMissed
  <2> QED
    BY <2>5, <2>6, <2>7 DEF CalInv
<1> QED
  BY <1>6, <1>7

LEMMA CalInvariant == Spec => []CalInv
<1>1. CalInv /\ UNCHANGED vars => CalInv'
  BY DEF vars, CalInv, CalendarTypeOK, NoRunMissed
<1>2. CalInv /\ [Next]_vars => CalInv'
  BY <1>1, TriggerKeeps, NextDayKeeps DEF Next
<1> QED
  BY InitCal, <1>2, PTL DEF Spec

\* The walk stays in the calendar, and a run is on a day that has come.
THEOREM CalendarTypeCorrect == Spec => []CalendarTypeOK
<1>1. CalInv => CalendarTypeOK
  BY DEF CalInv
<1> QED
  BY CalInvariant, <1>1, PTL

LEMMA MonthEndStep ==
  ASSUME CalInv, NextDay, today'[2] # today[2], today[2] # 2
  PROVE  LastOpenDay(today[1], today[2]) \in ran
<1>1. PICK y \in FirstYear..LastYear, m \in Month :
        \E d \in 1..DaysIn(y, m) : today = <<y, m, d>>
  BY DEF CalInv, IsDate
<1>2. PICK d \in 1..DaysIn(y, m) : today = <<y, m, d>>
  BY <1>1
<1>3. today[1] = y /\ today[2] = m /\ today[3] = d
  BY <1>2
<1>4. y \in Nat /\ m \in Month \ {2} /\ DaysIn(y, m) \in 28..31
  <2>1. y \in Nat
    BY YearsAssumption
  <2> QED
    BY <1>3, <2>1, DaysInFacts
<1>5. d = DaysIn(y, m)
  <2>1. CASE d < DaysIn(y, m)
    <3>1. today' = <<y, m, d + 1>>
      BY <1>3, <2>1 DEF NextDay, Tomorrow
    <3> QED
      BY <1>3, <3>1
  <2> QED
    BY <1>4, <2>1
<1>6. PICK e : e = LastOpenDay(y, m)
  OBVIOUS
<1>7. e \in 28..DaysIn(y, m) /\ Open(<<y, m, e>>)
  BY <1>4, <1>6, LastOpenDayFacts
<1>8. e \in 28..31
  BY <1>4, <1>7
<1>9. is_trading_day(<<y, m, e>>)
  BY <1>4, <1>7, <1>8, GateOpens
<1>10. ~due
  BY DEF NextDay
<1>11. e \in ran
  BY <1>3, <1>5, <1>7, <1>9, <1>10 DEF CalInv, NoRunMissed
<1> QED
  BY <1>3, <1>6, <1>11

\* Every month but February is traded on its last trading day, in every year
\* of the calendar: in the years of the table and in those it has no row for.
THEOREM EveryLongMonthRuns == Spec => LongMonthsRunAtTheirEnd
<1> DEFINE AtItsEnd ==
             (today'[2] # today[2] /\ today[2] # 2)
               => LastOpenDay(today[1], today[2]) \in ran
<1>1. CalInv /\ [Next]_vars => [AtItsEnd]_vars
  <2>1. CalInv /\ NextDay => AtItsEnd
    BY MonthEndStep
  <2>2. Trigger => AtItsEnd
    BY DEF Trigger
  <2> QED
    BY <2>1, <2>2 DEF Next
<1> HIDE DEF AtItsEnd
<1>2. Spec => [][AtItsEnd]_vars
  BY CalInvariant, <1>1, PTL DEF Spec
<1> QED
  BY <1>2 DEF LongMonthsRunAtTheirEnd, AtItsEnd

\* A walk over years of the table meets no holiday the table has not, and no
\* trading day that the table takes for a holiday.
THEOREM TableIsTheRule ==
  ASSUME FirstYear >= 2026, LastYear <= 2030
  PROVE  Spec => []TableAgreesWithRule
<1>1. CalInv => TableAgreesWithRule
  <2> SUFFICES ASSUME CalInv PROVE TableAgreesWithRule
    OBVIOUS
  <2>1. PICK y \in FirstYear..LastYear, m \in Month :
               \E d \in 1..DaysIn(y, m) : today = <<y, m, d>>
    BY DEF CalInv, IsDate
  <2>2. PICK d \in 1..DaysIn(y, m) : today = <<y, m, d>>
    BY <2>1
  <2>3. y \in 2026..2030
    BY YearsAssumption
  <2> QED
    BY <2>2, <2>3, GateByRule DEF TableAgreesWithRule
<1> QED
  BY CalInvariant, <1>1, PTL
==============================================================================
