----------------------------- MODULE SignalProofs -----------------------------
(***************************************************************************)
(* Proofs about MarketSignal, for every set of prices, every set of        *)
(* lookbacks and every length of the broker's answer.                      *)
(***************************************************************************)
EXTENDS MarketSignal, FiniteSetTheorems, WellFoundedInduction, TLAPS

------------------------------------------------------------------------------
(* The rows of the broker, read back in the order of their months *)

LEMMA DailyCloses ==
  ASSUME NEW b \in Seq(Price)
  PROVE  get_daily_closes(b) =
           [i \in 1..Len(b) |-> [month |-> Len(b) - i + 1, close |-> b[Len(b) - i + 1]]]
<1> DEFINE asc == [m \in 1..Len(b) |-> [month |-> m, close |-> b[m]]]
<1>1. Len(b) \in Nat /\ DOMAIN b = 1..Len(b)
  OBVIOUS
<1>2. Len(asc) = Len(b)
  BY <1>1
<1>3. get_daily_closes(b) = Reverse(asc)
  BY <1>1 DEF get_daily_closes
<1>4. Reverse(asc) = [i \in 1..Len(b) |-> asc[(Len(b) - i) + 1]]
  BY <1>2 DEF Reverse
<1>5. \A i \in 1..Len(b) : Len(b) - i + 1 \in 1..Len(b)
  BY <1>1
<1> QED
  BY <1>3, <1>4, <1>5

\* In by_date the i-th row is that of month i.
LEMMA ByDate ==
  ASSUME NEW b \in Seq(Price)
  PROVE  by_date(get_daily_closes(b)) =
           [i \in 1..Len(b) |-> [month |-> i, close |-> b[i]]]
<1> DEFINE rows == get_daily_closes(b)
           before(k) == {j \in DOMAIN rows : rows[j].month < rows[k].month}
<1>1. PICK n \in Nat : n = Len(b)
  OBVIOUS
<1>2. /\ DOMAIN rows = 1..n
      /\ \A i \in 1..n : rows[i].month = n - i + 1 /\ rows[i].close = b[n - i + 1]
      /\ \A i \in 1..n : rows[i] = [month |-> n - i + 1, close |-> b[n - i + 1]]
  BY <1>1, DailyCloses
<1> HIDE DEF rows
<1>3. ASSUME NEW k \in 1..n
      PROVE  Cardinality(before(k)) = n - k
  <2>1. before(k) = (k + 1)..n
    BY <1>1, <1>2
  <2>2. Cardinality((k + 1)..n) = n - k
    <3>1. k + 1 \in Int /\ n \in Int
      BY <1>1
    <3>2. Cardinality((k + 1)..n) = IF k + 1 > n THEN 0 ELSE n - (k + 1) + 1
      BY <3>1, FS_Interval
    <3> QED
      BY <1>1, <3>2
  <2> QED
    BY <2>1, <2>2
<1> HIDE DEF before
<1>4. ASSUME NEW i \in 1..n
      PROVE  (CHOOSE k \in DOMAIN rows : Cardinality(before(k)) = i - 1) = n - i + 1
  <2>1. n - i + 1 \in 1..n /\ n - (n - i + 1) = i - 1
    BY <1>1
  <2>2. \A k \in 1..n : Cardinality(before(k)) = i - 1 <=> k = n - i + 1
    BY <1>1, <1>3
  <2> QED
    BY <1>2, <2>1, <2>2
<1>5. by_date(rows) =
        [i \in DOMAIN rows |-> rows[CHOOSE k \in DOMAIN rows : Cardinality(before(k)) = i - 1]]
  BY DEF by_date, before
<1>6. by_date(rows) = [i \in 1..n |-> rows[n - i + 1]]
  BY <1>2, <1>4, <1>5
<1>7. ASSUME NEW i \in 1..n
      PROVE  rows[n - i + 1] = [month |-> i, close |-> b[i]]
  <2>1. n - i + 1 \in 1..n /\ n - (n - i + 1) + 1 = i
    BY <1>1
  <2> QED
    BY <1>2, <2>1
<1> QED
  BY <1>1, <1>6, <1>7 DEF rows

\* What is cut off the front of a series.
Cut(b) == IF Len(b) > Months THEN Len(b) - Months ELSE 0

LEMMA MonthEnd ==
  ASSUME NEW b \in Seq(Price)
  PROVE  month_end_closes(get_daily_closes(b)) = [i \in 1..(Len(b) - Cut(b)) |-> b[Cut(b) + i]]
<1> DEFINE series == by_date(get_daily_closes(b))
<1>1. PICK n \in Nat : n = Len(b)
  OBVIOUS
<1>2. series = [i \in 1..n |-> [month |-> i, close |-> b[i]]]
  BY <1>1, ByDate
<1>3. Len(series) = n /\ \A i \in 1..n : series[i].close = b[i]
  BY <1>2
<1>4. PICK c \in Nat : c = Cut(b) /\ c <= n
  <2>1. Cut(b) = IF n > Months THEN n - Months ELSE 0
    BY <1>1 DEF Cut
  <2>2. Months \in Nat
    BY MonthsAssumption
  <2>3. Cut(b) \in Nat /\ Cut(b) <= n
    BY <2>1, <2>2
  <2> QED
    BY <2>3
<1>5. month_end_closes(get_daily_closes(b)) =
        [i \in 1 .. Len(series) - c |-> series[c + i].close]
  BY <1>1, <1>3, <1>4 DEF month_end_closes, Cut
<1> HIDE DEF series
<1>6. \A i \in 1..(n - c) : c + i \in 1..n
  BY <1>1, <1>4
<1> QED
  BY <1>1, <1>3, <1>4, <1>5, <1>6

\* The series of a fund that is not held: no close is more than one half away
\* from the close before it, unless that is missing.
Calm(b) ==
  \A j \in 2..Len(b) : b[j - 1] > 0 =>
    2 * (b[j] - b[j - 1]) <= b[j - 1] /\ 2 * (b[j - 1] - b[j]) <= b[j - 1]

LEMMA OutliersAre ==
  ASSUME NEW b \in Seq(Price)
  PROVE  detect_outliers(get_daily_closes(b)) = {} <=> Calm(b)
<1> DEFINE ordered == by_date(get_daily_closes(b))
           far(x, y) == 2 * (y - x) > x \/ 2 * (x - y) > x
           J == {j \in 2 .. Len(ordered) :
                   ordered[j - 1].close > 0 /\ far(ordered[j - 1].close, ordered[j].close)}
<1>1. PICK n \in Nat : n = Len(b)
  OBVIOUS
<1>2. ordered = [i \in 1..n |-> [month |-> i, close |-> b[i]]]
  BY <1>1, ByDate
<1>3. Len(ordered) = n /\ \A i \in 1..n : ordered[i].close = b[i]
  BY <1>2
<1>4. detect_outliers(get_daily_closes(b)) = {ordered[j].month : j \in J}
  BY DEF detect_outliers
<1>5. {ordered[j].month : j \in J} = {} <=> J = {}
  <2> HIDE DEF J
  <2> QED
    OBVIOUS
<1>6. ASSUME NEW j \in 2..n
      PROVE  /\ ordered[j - 1].close = b[j - 1] /\ ordered[j].close = b[j]
             /\ b[j - 1] \in Nat /\ b[j] \in Nat
  <2>1. j - 1 \in 1..n /\ j \in 1..n
    BY <1>1
  <2>2. b[j - 1] \in Price /\ b[j] \in Price
    BY <1>1, <2>1
  <2> QED
    BY <1>3, <2>1, <2>2, PriceAssumption
<1> HIDE DEF ordered
<1>7. J = {} <=> \A j \in 2..n : ~ (b[j - 1] > 0 /\ far(b[j - 1], b[j]))
  BY <1>3, <1>6
<1>8. ASSUME NEW j \in 2..n
      PROVE  (~far(b[j - 1], b[j]))
               <=> /\ 2 * (b[j] - b[j - 1]) <= b[j - 1]
                   /\ 2 * (b[j - 1] - b[j]) <= b[j - 1]
  BY <1>6
<1> HIDE DEF far
<1> QED
  BY <1>1, <1>4, <1>5, <1>7, <1>8 DEF Calm

------------------------------------------------------------------------------
(* The series and the result *)

SignalInv ==
  /\ bars \in [Fund -> Seq(Price)]
  /\ SignalTypeOK
  /\ result \in {"none", SignalOf(bars)}

LEMMA SignalOfType ==
  ASSUME NEW b
  PROVE  SignalOf(b) \in Signals \union {"OUTLIER_PENDING", "raised"}
<1>1. \A n, g : select(n, g) \in Signals
  BY DEF select, Signals
<1>2. \A c : decide_signal(c) \in Signals \union {"raised"}
  BY <1>1 DEF decide_signal
<1> QED
  BY <1>2 DEF SignalOf

LEMMA LastReplaced ==
  ASSUME NEW b \in Seq(Price), NEW p \in Price
  PROVE  /\ [b EXCEPT ![Len(b)] = p] \in Seq(Price)
         /\ Len([b EXCEPT ![Len(b)] = p]) = Len(b)
         /\ [b EXCEPT ![Len(b)] = p] = [i \in 1..Len(b) |-> IF i = Len(b) THEN p ELSE b[i]]
<1>1. PICK n \in Nat : n = Len(b) /\ DOMAIN b = 1..n /\ \A i \in 1..n : b[i] \in Price
  OBVIOUS
<1>2. PICK r : r = [i \in 1..n |-> IF i = n THEN p ELSE b[i]]
  OBVIOUS
<1>3. [b EXCEPT ![Len(b)] = p] = r
  BY <1>1, <1>2
<1>4. r \in Seq(Price) /\ Len(r) = n
  BY <1>1, <1>2
<1> QED
  BY <1>1, <1>2, <1>3, <1>4

LEMMA InitSignal == Init => SignalInv
<1> SUFFICES ASSUME Init PROVE SignalInv
  OBVIOUS
<1>1. ASSUME NEW f \in Fund PROVE bars[f] \in Seq(Price) /\ Len(bars[f]) = 1
  <2>1. PICK p \in Price : bars[f] = <<p>>
    BY DEF Init
  <2> QED
    BY <2>1
<1>2. bars \in [Fund -> Seq(Price)]
  BY <1>1 DEF Init
<1>3. 1 \in 1..MaxMonths
  BY MonthsAssumption
<1>4. result = "none"
  BY DEF Init
<1> QED
  BY <1>1, <1>2, <1>3, <1>4 DEF SignalInv, SignalTypeOK, Fund

LEMMA SignalStep == SignalInv /\ [Next]_vars => SignalInv'
<1> SUFFICES ASSUME SignalInv, [Next]_vars PROVE SignalInv'
  OBVIOUS
<1>1. CASE Run
  <2>1. bars' = bars /\ result' = SignalOf(bars)
    BY <1>1 DEF Run
  <2> QED
    BY <2>1, SignalOfType DEF SignalInv, SignalTypeOK
<1>2. CASE NextMonth
  <2>1. PICK p \in [Fund -> Price] : bars' = [f \in Fund |-> Append(bars[f], p[f])]
    BY <1>2 DEF NextMonth
  <2>2. result' = "none" /\ \A f \in Fund : Len(bars[f]) < MaxMonths
    BY <1>2 DEF NextMonth
  <2>3. ASSUME NEW f \in Fund
        PROVE  bars'[f] \in Seq(Price) /\ Len(bars'[f]) = Len(bars[f]) + 1
    <3>1. bars[f] \in Seq(Price) /\ p[f] \in Price /\ bars'[f] = Append(bars[f], p[f])
      BY <2>1 DEF SignalInv
    <3> QED
      BY <3>1
  <2>4. bars' \in [Fund -> Seq(Price)]
    BY <2>1, <2>3
  <2>5. Len(bars'["QQQM"]) = Len(bars'["GLDM"]) /\ Len(bars'["QQQM"]) \in 1..MaxMonths
    BY <2>2, <2>3, MonthsAssumption DEF SignalInv, SignalTypeOK, Fund
  <2> QED
    BY <2>2, <2>3, <2>4, <2>5 DEF SignalInv, SignalTypeOK
<1>3. CASE \E f \in Fund : Trade(f)
  <2>1. PICK f \in Fund, p \in Price : bars' = [bars EXCEPT ![f][Len(bars[f])] = p]
    BY <1>3 DEF Trade
  <2>2. result' = "none"
    BY <1>3 DEF Trade
  <2>3. \A h \in Fund : bars[h] \in Seq(Price)
    BY DEF SignalInv
  <2>4. ASSUME NEW h \in Fund
        PROVE  bars'[h] \in Seq(Price) /\ Len(bars'[h]) = Len(bars[h])
    <3>1. CASE h = f
      <4>1. bars'[h] = [bars[h] EXCEPT ![Len(bars[h])] = p]
        BY <2>1, <3>1 DEF SignalInv
      <4> QED
        BY <2>3, <4>1, LastReplaced
    <3>2. CASE h # f
      BY <2>1, <2>3, <3>2 DEF SignalInv
    <3> QED
      BY <3>1, <3>2
  <2>5. bars' \in [Fund -> Seq(Price)]
    BY <2>1, <2>4 DEF SignalInv
  <2> QED
    BY <2>2, <2>4, <2>5 DEF SignalInv, SignalTypeOK, Fund
<1>4. CASE UNCHANGED vars
  BY <1>4 DEF vars, SignalInv, SignalTypeOK
<1> QED
  BY <1>1, <1>2, <1>3, <1>4 DEF Next

LEMMA SignalInvariant == Spec => []SignalInv
  BY InitSignal, SignalStep, PTL DEF Spec

\* The two series stay as long as each other, and a run ends in a signal, a
\* hold or a ValueError.
THEOREM SignalTypeCorrect == Spec => []SignalTypeOK
<1>1. SignalInv => SignalTypeOK
  BY DEF SignalInv
<1> QED
  BY SignalInvariant, <1>1, PTL

------------------------------------------------------------------------------
(* What a run computes, on the bars themselves *)

LEMMA CutFacts ==
  ASSUME NEW b \in Seq(Price)
  PROVE  /\ Cut(b) \in Nat /\ Len(b) - Cut(b) \in 0..Months
         /\ Len(b) - Cut(b) = IF Len(b) > Months THEN Months ELSE Len(b)
<1>1. Months \in Nat /\ Len(b) \in Nat
  BY MonthsAssumption
<1>2. Cut(b) = IF Len(b) > Months THEN Len(b) - Months ELSE 0
  BY DEF Cut
<1> QED
  BY <1>1, <1>2

\* A series that can be scored.
Ready(b) ==
  /\ Len(b) > 0 /\ b[Len(b)] > 0
  /\ \A n \in Lookbacks : n \in 1..(Len(b) - 1) /\ n < Months /\ b[Len(b) - n] > 0

Returns(b) == [n \in Lookbacks |-> (Scale * b[Len(b)]) \div b[Len(b) - n] - Scale]

Score(b) == SumFunctionOnSet(Returns(b), Lookbacks)

LEMMA ScoreIs ==
  ASSUME NEW b \in Seq(Price)
  PROVE  /\ Scorable(month_end_closes(get_daily_closes(b))) <=> Ready(b)
         /\ Ready(b) => momentum_score(month_end_closes(get_daily_closes(b))) = Score(b)
<1> DEFINE c == Cut(b)
           s == month_end_closes(get_daily_closes(b))
<1>1. c \in Nat /\ Len(b) - c \in 0..Months /\ Len(b) \in Nat /\ Months \in Nat
  BY CutFacts, MonthsAssumption
<1>2. s = [i \in 1..(Len(b) - c) |-> b[c + i]]
  BY MonthEnd
<1>3. Len(s) = Len(b) - c
  BY <1>1, <1>2
<1>4. /\ \E l \in Lookbacks : TRUE
      /\ \A n \in Lookbacks : n \in Nat \ {0}
  BY MonthsAssumption
<1>5. Scorable(s) <=> /\ \A n \in Lookbacks : Len(s) > n
                      /\ s[Len(s)] > 0
                      /\ \A n \in Lookbacks : s[Len(s) - n] > 0
  BY DEF Scorable, Last
<1>6. \A n \in Lookbacks : Len(s) > n <=> n \in 1..(Len(b) - 1) /\ n < Months
  BY <1>1, <1>3, <1>4, CutFacts
<1> HIDE DEF c, s
<1>7. ASSUME NEW n \in Nat, Len(s) > n
      PROVE  s[Len(s) - n] = b[Len(b) - n]
  <2>1. Len(s) - n \in 1..(Len(b) - c) /\ c + (Len(s) - n) = Len(b) - n
    BY <1>1, <1>3, <1>7
  <2> QED
    BY <1>2, <2>1
<1>8. Len(s) > 0 => s[Len(s)] = b[Len(b)]
  <2>1. Len(s) > 0 => s[Len(s) - 0] = b[Len(b) - 0]
    BY <1>7
  <2>2. Len(s) - 0 = Len(s) /\ Len(b) - 0 = Len(b)
    BY <1>1, <1>3
  <2> QED
    BY <2>1, <2>2
<1>9. (\A n \in Lookbacks : Len(s) > n) => Len(s) > 0 /\ Len(b) > 0
  BY <1>1, <1>3, <1>4
<1>10. ASSUME \A n \in Lookbacks : Len(s) > n
       PROVE  /\ s[Len(s)] = b[Len(b)]
              /\ \A n \in Lookbacks : s[Len(s) - n] = b[Len(b) - n]
  BY <1>4, <1>7, <1>8, <1>9, <1>10
<1>11. Scorable(s) <=> Ready(b)
  <2>1. Scorable(s) => Ready(b)
    BY <1>5, <1>6, <1>9, <1>10 DEF Ready
  <2>2. Ready(b) => Scorable(s)
    BY <1>5, <1>6, <1>10 DEF Ready
  <2> QED
    BY <2>1, <2>2
<1>12. ASSUME Ready(b) PROVE momentum_score(s) = Score(b)
  <2>1. \A n \in Lookbacks : Len(s) > n
    BY <1>6, <1>12 DEF Ready
  <2>2. [n \in Lookbacks |-> (Scale * s[Len(s)]) \div s[Len(s) - n] - Scale] = Returns(b)
    BY <1>10, <2>1 DEF Returns
  <2>3. DOMAIN Returns(b) = Lookbacks
    BY DEF Returns
  <2>4. momentum_score(s) = SumFunction(Returns(b))
    BY <2>2 DEF momentum_score, Last
  <2> QED
    BY <2>3, <2>4 DEF SumFunction, Score
<1> QED
  BY <1>11, <1>12 DEF s

LEMMA SignalOfIs ==
  ASSUME NEW b \in [Fund -> Seq(Price)]
  PROVE  SignalOf(b) =
           IF \E f \in Fund : ~Calm(b[f]) THEN "OUTLIER_PENDING"
           ELSE IF \A f \in Fund : Ready(b[f])
                THEN select(Score(b["QQQM"]), Score(b["GLDM"])) ELSE "raised"
<1> DEFINE rows == [f \in Fund |-> get_daily_closes(b[f])]
           closes == [f \in Fund |-> month_end_closes(rows[f])]
<1>1. SignalOf(b) = IF \E f \in Fund : detect_outliers(rows[f]) # {}
                    THEN "OUTLIER_PENDING" ELSE decide_signal(closes)
  BY DEF SignalOf
<1>2. \A f \in Fund : rows[f] = get_daily_closes(b[f])
                      /\ closes[f] = month_end_closes(get_daily_closes(b[f]))
  OBVIOUS
<1>3. "QQQM" \in Fund /\ "GLDM" \in Fund
  BY DEF Fund
<1> HIDE DEF rows, closes
<1>4. \A f \in Fund : detect_outliers(rows[f]) = {} <=> Calm(b[f])
  BY <1>2, OutliersAre
<1>5. \A f \in Fund : Scorable(closes[f]) <=> Ready(b[f])
  BY <1>2, ScoreIs
<1>6. \A f \in Fund : Ready(b[f]) => momentum_score(closes[f]) = Score(b[f])
  BY <1>2, ScoreIs
<1>7. decide_signal(closes) = IF \A f \in Fund : Ready(b[f])
                              THEN select(Score(b["QQQM"]), Score(b["GLDM"])) ELSE "raised"
  BY <1>3, <1>5, <1>6 DEF decide_signal
<1> QED
  BY <1>1, <1>4, <1>7

\* What a run that ends in a signal has seen.
LEMMA SignalSeen ==
  ASSUME SignalInv, result \in Signals
  PROVE  /\ bars \in [Fund -> Seq(Price)]
         /\ \A f \in Fund : Calm(bars[f]) /\ Ready(bars[f])
         /\ result = select(Score(bars["QQQM"]), Score(bars["GLDM"]))
<1>1. bars \in [Fund -> Seq(Price)] /\ result = SignalOf(bars)
  BY DEF SignalInv, Signals
<1>2. result \notin {"OUTLIER_PENDING", "raised"}
  BY DEF Signals
<1> QED
  BY <1>1, <1>2, SignalOfIs

------------------------------------------------------------------------------
(* The window of a signal *)

LEMMA LeastOf ==
  ASSUME NEW T \in SUBSET Nat, T # {}
  PROVE  \E i \in T : \A j \in T : i <= j
<1>1. PICK i \in T : \A j \in T : ~ (<<j, i>> \in OpToRel(<, Nat))
  BY WFMin, NatLessThanWellFounded, Zenon
<1>2. ASSUME NEW j \in T PROVE ~ (j < i)
  BY <1>1, Zenon DEF OpToRel
<1>3. ASSUME NEW j \in T PROVE i <= j
  <2>1. i \in Nat /\ j \in Nat
    OBVIOUS
  <2> QED
    BY <1>2, <2>1
<1> QED
  BY <1>3

\* A close that follows a positive one is positive, or it is an outlier.
LEMMA NoGap ==
  ASSUME NEW b \in Seq(Price), Calm(b), NEW m \in 1..Len(b), b[m] > 0
  PROVE  \A i \in m..Len(b) : b[i] > 0
<1>1. PICK n \in Nat : n = Len(b)
  OBVIOUS
<1>2. \A i \in 1..n : b[i] \in Nat
  <2>1. \A i \in 1..n : b[i] \in Price
    BY <1>1
  <2> QED
    BY <2>1, PriceAssumption
<1> DEFINE T == {i \in 1..n : i >= m /\ ~(b[i] > 0)}
<1> SUFFICES ASSUME T # {} PROVE FALSE
  BY <1>1
<1>3. PICK i \in T : \A j \in T : i <= j
  <2>1. T \in SUBSET Nat
    OBVIOUS
  <2> HIDE DEF T
  <2> QED
    BY <2>1, LeastOf
<1>4. i \in 1..n /\ i >= m /\ b[i] = 0 /\ i # m
  BY <1>2, <1>3
<1>5. i \in 2..n /\ i - 1 \in 1..n /\ i - 1 >= m
  BY <1>1, <1>4
<1>6. b[i - 1] > 0
  BY <1>3, <1>5
<1>7. b[i - 1] \in Nat /\ 2 * (b[i - 1] - b[i]) <= b[i - 1]
  BY <1>1, <1>2, <1>5, <1>6 DEF Calm
<1> QED
  BY <1>4, <1>6, <1>7

\* The months a score does not look at are not missing either, if Months is the
\* longest lookback plus one (13 and 12 in the code): the chain of closes from
\* the oldest one of the window, which is scored, never falls to 0.
THEOREM WindowsHaveNoGap ==
  ASSUME Months - 1 \in Lookbacks
  PROVE  Spec => []NoSignalOverMissingClose
<1>1. SignalInv => NoSignalOverMissingClose
  <2> SUFFICES ASSUME SignalInv, result \in Signals, NEW f \in Fund,
                      NEW i \in 1..Len(bars[f]), i > Len(bars[f]) - Months
               PROVE  bars[f][i] > 0
    BY DEF NoSignalOverMissingClose
  <2>1. bars \in [Fund -> Seq(Price)] /\ Calm(bars[f]) /\ Ready(bars[f])
    BY SignalSeen
  <2>2. PICK b \in Seq(Price) : b = bars[f]
    BY <2>1
  <2>3. Calm(b) /\ Ready(b)
    BY <2>1, <2>2
  <2>4. Months \in Nat \ {0} /\ Len(b) \in Nat
    BY MonthsAssumption
  <2>5. Months - 1 \in 1..(Len(b) - 1) /\ b[Len(b) - (Months - 1)] > 0
    BY <2>3 DEF Ready
  <2>6. PICK m \in 1..Len(b) : m = Len(b) - (Months - 1) /\ b[m] > 0
    BY <2>4, <2>5
  <2>7. i \in m..Len(b)
    BY <2>2, <2>4, <2>6
  <2> QED
    BY <2>2, <2>3, <2>6, <2>7, NoGap
<1> QED
  BY <1>1, SignalInvariant, PTL

------------------------------------------------------------------------------
(* Sums and products over finite sets.  What they yield does not depend on  *)
(* the order in which the elements are taken.                               *)

Chosen(s) == CHOOSE x \in s : TRUE

\* A set of subsets of a finite set has one that holds no other.
LEMMA SmallestSubset ==
  ASSUME NEW S, IsFiniteSet(S), NEW T \in SUBSET SUBSET S, T # {}
  PROVE  \E s \in T : \A r \in T : r \subseteq s => r = s
<1>1. IsWellFoundedOn(StrictSubsetOrdering(S), SUBSET S)
  BY FS_StrictSubsetOrderingWellFounded, FS_FiniteSubsetsOfFinite
<1>2. PICK s \in T : \A r \in T : <<r, s>> \notin StrictSubsetOrdering(S)
  BY <1>1, WFMin
<1>3. ASSUME NEW r \in T, r \subseteq s, r # s PROVE FALSE
  BY <1>2, <1>3 DEF StrictSubsetOrdering
<1> QED
  BY <1>3

LEMMA ChosenIn ==
  ASSUME NEW s, s # {}
  PROVE  Chosen(s) \in s
  BY DEF Chosen

Adds(h, g, S) ==
  h = [s \in SUBSET S |-> IF s = {} THEN 0 ELSE g[Chosen(s)] + h[s \ {Chosen(s)}]]

LEMMA SumIsChosen ==
  ASSUME NEW g, NEW S
  PROVE  SumFunctionOnSet(g, S) = (CHOOSE h : Adds(h, g, S))[S]
  BY DEF SumFunctionOnSet, FoldFunctionOnSet, MapThenFoldSet, Adds, Chosen

\* What a function of this kind gives for one set.
LEMMA AddsNone ==
  ASSUME NEW S, NEW g, NEW h, Adds(h, g, S)
  PROVE  h[{}] = 0
  BY DEF Adds

LEMMA AddsAt ==
  ASSUME NEW S, NEW g, NEW h, Adds(h, g, S)
  PROVE  \A s \in SUBSET S :
           s # {} => h[s] = g[Chosen(s)] + h[s \ {Chosen(s)}]
  BY DEF Adds

\* Two of them agree where both are defined.
LEMMA AddsOnce ==
  ASSUME NEW A, NEW B, IsFiniteSet(A), NEW g, NEW h, NEW i,
         Adds(h, g, A), Adds(i, g, B), NEW s \in SUBSET A, s \subseteq B
  PROVE  h[s] = i[s]
<1> DEFINE T == {r \in SUBSET A : r \subseteq B /\ h[r] # i[r]}
<1> SUFFICES ASSUME T # {} PROVE FALSE
  OBVIOUS
<1>1. PICK r \in T : \A q \in T : q \subseteq r => q = r
  <2>1. T \in SUBSET SUBSET A
    OBVIOUS
  <2> HIDE DEF T
  <2> QED
    BY <2>1, SmallestSubset
<1>2. r \in SUBSET A /\ r \in SUBSET B /\ h[r] # i[r]
  BY <1>1
<1>3. r # {}
  <2>1. h[{}] = 0 /\ i[{}] = 0
    BY AddsNone
  <2> QED
    BY <1>2, <2>1
<1>4. PICK q : q = r \ {Chosen(r)}
  OBVIOUS
<1>5. q \subseteq r /\ q # r /\ q \in SUBSET A /\ q \subseteq B
  BY <1>2, <1>3, <1>4, ChosenIn
<1>6. h[q] = i[q]
  BY <1>1, <1>5
<1> HIDE DEF T
<1>7. h[r] = g[Chosen(r)] + h[q]
  <2>1. \A t \in SUBSET A : t # {} => h[t] = g[Chosen(t)] + h[t \ {Chosen(t)}]
    BY AddsAt
  <2> QED
    BY <1>2, <1>3, <1>4, <2>1
<1>8. i[r] = g[Chosen(r)] + i[q]
  <2>1. \A t \in SUBSET B : t # {} => i[t] = g[Chosen(t)] + i[t \ {Chosen(t)}]
    BY AddsAt
  <2> QED
    BY <1>2, <1>3, <1>4, <2>1
<1> QED
  BY <1>2, <1>6, <1>7, <1>8

\* Where there is one, the sum is its value, and follows its recursion.
LEMMA SumFrom ==
  ASSUME NEW S, IsFiniteSet(S), NEW g,
         \A r \in SUBSET S : \E h : Adds(h, g, r)
  PROVE  SumFunctionOnSet(g, S)
           = IF S = {} THEN 0
             ELSE g[Chosen(S)] + SumFunctionOnSet(g, S \ {Chosen(S)})
<1>1. ASSUME NEW r \in SUBSET S
      PROVE  \E h : Adds(h, g, r) /\ SumFunctionOnSet(g, r) = h[r]
  BY SumIsChosen
<1>2. PICK h : Adds(h, g, S) /\ SumFunctionOnSet(g, S) = h[S]
  BY <1>1
<1>3. CASE S = {}
  BY <1>2, <1>3, AddsNone
<1>4. CASE S # {}
  <2>1. PICK q : q = S \ {Chosen(S)}
    OBVIOUS
  <2>2. q \in SUBSET S
    BY <2>1
  <2>3. PICK i : Adds(i, g, q) /\ SumFunctionOnSet(g, q) = i[q]
    BY <1>1, <2>2
  <2>4. h[q] = i[q]
    BY <1>2, <2>2, <2>3, AddsOnce
  <2>5. h[S] = g[Chosen(S)] + h[q]
    BY <1>2, <1>4, <2>1, AddsAt
  <2> QED
    BY <1>2, <1>4, <2>1, <2>3, <2>4, <2>5
<1> QED
  BY <1>3, <1>4

LEMMA AddsExists ==
  ASSUME NEW S, IsFiniteSet(S), NEW g
  PROVE  \E h : Adds(h, g, S)
<1> DEFINE T == {r \in SUBSET S : ~ \E h : Adds(h, g, r)}
<1> SUFFICES ASSUME T # {} PROVE FALSE
  OBVIOUS
<1>1. PICK r \in T : \A q \in T : q \subseteq r => q = r
  <2>1. T \in SUBSET SUBSET S
    OBVIOUS
  <2> HIDE DEF T
  <2> QED
    BY <2>1, SmallestSubset
<1>2. \A q \in SUBSET r : q # r => \E h : Adds(h, g, q)
  BY <1>1
<1> DEFINE H == [s \in SUBSET r |->
                   IF s = {} THEN 0 ELSE g[Chosen(s)] + SumFunctionOnSet(g, s \ {Chosen(s)})]
<1>3. ASSUME NEW q \in SUBSET r, q # r
      PROVE  H[q] = SumFunctionOnSet(g, q)
  <2>1. IsFiniteSet(q)
    BY <1>1, FS_Subset
  <2>2. \A p \in SUBSET q : \E h : Adds(h, g, p)
    BY <1>2, <1>3
  <2> HIDE DEF T
  <2> QED
    BY <2>1, <2>2, SumFrom
<1>4. Adds(H, g, r)
  <2>1. ASSUME NEW s \in SUBSET r, s # {}
        PROVE  H[s \ {Chosen(s)}] = SumFunctionOnSet(g, s \ {Chosen(s)})
    <3>1. s \ {Chosen(s)} \in SUBSET r /\ s \ {Chosen(s)} # r
      BY <2>1, ChosenIn
    <3> HIDE DEF H
    <3> QED
      BY <1>3, <3>1
  <2>2. H = [s \in SUBSET r |->
               IF s = {} THEN 0 ELSE g[Chosen(s)] + H[s \ {Chosen(s)}]]
    BY <2>1
  <2> HIDE DEF H
  <2> QED
    BY <2>2 DEF Adds
<1> QED
  BY <1>1, <1>4

LEMMA SumChosen ==
  ASSUME NEW S, IsFiniteSet(S), NEW g, S # {}
  PROVE  SumFunctionOnSet(g, S) = g[Chosen(S)] + SumFunctionOnSet(g, S \ {Chosen(S)})
<1>1. \A r \in SUBSET S : \E h : Adds(h, g, r)
  BY FS_Subset, AddsExists
<1> QED
  BY <1>1, SumFrom

LEMMA SumOfNone ==
  ASSUME NEW g
  PROVE  SumFunctionOnSet(g, {}) = 0
<1>1. IsFiniteSet({})
  BY FS_EmptySet
<1>2. \A r \in SUBSET {} : \E h : Adds(h, g, r)
  BY <1>1, AddsExists
<1> QED
  BY <1>1, <1>2, SumFrom

ProductOf(g, S) == FoldFunctionOnSet(LAMBDA x, y : x * y, 1, g, S)

Multiplies(h, g, S) ==
  h = [s \in SUBSET S |-> IF s = {} THEN 1 ELSE g[Chosen(s)] * h[s \ {Chosen(s)}]]

LEMMA ProductIsChosen ==
  ASSUME NEW g, NEW S
  PROVE  ProductOf(g, S) = (CHOOSE h : Multiplies(h, g, S))[S]
  BY DEF ProductOf, FoldFunctionOnSet, MapThenFoldSet, Multiplies, Chosen

\* What a function of this kind gives for one set.
LEMMA MultipliesNone ==
  ASSUME NEW S, NEW g, NEW h, Multiplies(h, g, S)
  PROVE  h[{}] = 1
  BY DEF Multiplies

LEMMA MultipliesAt ==
  ASSUME NEW S, NEW g, NEW h, Multiplies(h, g, S)
  PROVE  \A s \in SUBSET S :
           s # {} => h[s] = g[Chosen(s)] * h[s \ {Chosen(s)}]
  BY DEF Multiplies

\* Two of them agree where both are defined.
LEMMA MultipliesOnce ==
  ASSUME NEW A, NEW B, IsFiniteSet(A), NEW g, NEW h, NEW i,
         Multiplies(h, g, A), Multiplies(i, g, B), NEW s \in SUBSET A, s \subseteq B
  PROVE  h[s] = i[s]
<1> DEFINE T == {r \in SUBSET A : r \subseteq B /\ h[r] # i[r]}
<1> SUFFICES ASSUME T # {} PROVE FALSE
  OBVIOUS
<1>1. PICK r \in T : \A q \in T : q \subseteq r => q = r
  <2>1. T \in SUBSET SUBSET A
    OBVIOUS
  <2> HIDE DEF T
  <2> QED
    BY <2>1, SmallestSubset
<1>2. r \in SUBSET A /\ r \in SUBSET B /\ h[r] # i[r]
  BY <1>1
<1>3. r # {}
  <2>1. h[{}] = 1 /\ i[{}] = 1
    BY MultipliesNone
  <2> QED
    BY <1>2, <2>1
<1>4. PICK q : q = r \ {Chosen(r)}
  OBVIOUS
<1>5. q \subseteq r /\ q # r /\ q \in SUBSET A /\ q \subseteq B
  BY <1>2, <1>3, <1>4, ChosenIn
<1>6. h[q] = i[q]
  BY <1>1, <1>5
<1> HIDE DEF T
<1>7. h[r] = g[Chosen(r)] * h[q]
  <2>1. \A t \in SUBSET A : t # {} => h[t] = g[Chosen(t)] * h[t \ {Chosen(t)}]
    BY MultipliesAt
  <2> QED
    BY <1>2, <1>3, <1>4, <2>1
<1>8. i[r] = g[Chosen(r)] * i[q]
  <2>1. \A t \in SUBSET B : t # {} => i[t] = g[Chosen(t)] * i[t \ {Chosen(t)}]
    BY MultipliesAt
  <2> QED
    BY <1>2, <1>3, <1>4, <2>1
<1> QED
  BY <1>2, <1>6, <1>7, <1>8

\* Where there is one, the product is its value, and follows its recursion.
LEMMA ProductFrom ==
  ASSUME NEW S, IsFiniteSet(S), NEW g,
         \A r \in SUBSET S : \E h : Multiplies(h, g, r)
  PROVE  ProductOf(g, S) = IF S = {} THEN 1 ELSE g[Chosen(S)] * ProductOf(g, S \ {Chosen(S)})
<1>1. ASSUME NEW r \in SUBSET S
      PROVE  \E h : Multiplies(h, g, r) /\ ProductOf(g, r) = h[r]
  BY ProductIsChosen
<1>2. PICK h : Multiplies(h, g, S) /\ ProductOf(g, S) = h[S]
  BY <1>1
<1>3. CASE S = {}
  BY <1>2, <1>3, MultipliesNone
<1>4. CASE S # {}
  <2>1. PICK q : q = S \ {Chosen(S)}
    OBVIOUS
  <2>2. q \in SUBSET S
    BY <2>1
  <2>3. PICK i : Multiplies(i, g, q) /\ ProductOf(g, q) = i[q]
    BY <1>1, <2>2
  <2>4. h[q] = i[q]
    BY <1>2, <2>2, <2>3, MultipliesOnce
  <2>5. h[S] = g[Chosen(S)] * h[q]
    BY <1>2, <1>4, <2>1, MultipliesAt
  <2> QED
    BY <1>2, <1>4, <2>1, <2>3, <2>4, <2>5
<1> QED
  BY <1>3, <1>4

LEMMA MultipliesExists ==
  ASSUME NEW S, IsFiniteSet(S), NEW g
  PROVE  \E h : Multiplies(h, g, S)
<1> DEFINE T == {r \in SUBSET S : ~ \E h : Multiplies(h, g, r)}
<1> SUFFICES ASSUME T # {} PROVE FALSE
  OBVIOUS
<1>1. PICK r \in T : \A q \in T : q \subseteq r => q = r
  <2>1. T \in SUBSET SUBSET S
    OBVIOUS
  <2> HIDE DEF T
  <2> QED
    BY <2>1, SmallestSubset
<1>2. \A q \in SUBSET r : q # r => \E h : Multiplies(h, g, q)
  BY <1>1
<1> DEFINE H == [s \in SUBSET r |->
                   IF s = {} THEN 1 ELSE g[Chosen(s)] * ProductOf(g, s \ {Chosen(s)})]
<1>3. ASSUME NEW q \in SUBSET r, q # r
      PROVE  H[q] = ProductOf(g, q)
  <2>1. IsFiniteSet(q)
    BY <1>1, FS_Subset
  <2>2. \A p \in SUBSET q : \E h : Multiplies(h, g, p)
    BY <1>2, <1>3
  <2> HIDE DEF T
  <2> QED
    BY <2>1, <2>2, ProductFrom
<1>4. Multiplies(H, g, r)
  <2>1. ASSUME NEW s \in SUBSET r, s # {}
        PROVE  H[s \ {Chosen(s)}] = ProductOf(g, s \ {Chosen(s)})
    <3>1. s \ {Chosen(s)} \in SUBSET r /\ s \ {Chosen(s)} # r
      BY <2>1, ChosenIn
    <3> HIDE DEF H
    <3> QED
      BY <1>3, <3>1
  <2>2. H = [s \in SUBSET r |->
               IF s = {} THEN 1 ELSE g[Chosen(s)] * H[s \ {Chosen(s)}]]
    BY <2>1
  <2> HIDE DEF H
  <2> QED
    BY <2>2 DEF Multiplies
<1> QED
  BY <1>1, <1>4

LEMMA ProductChosen ==
  ASSUME NEW S, IsFiniteSet(S), NEW g, S # {}
  PROVE  ProductOf(g, S) = g[Chosen(S)] * ProductOf(g, S \ {Chosen(S)})
<1>1. \A r \in SUBSET S : \E h : Multiplies(h, g, r)
  BY FS_Subset, MultipliesExists
<1> QED
  BY <1>1, ProductFrom

LEMMA ProductOfNone ==
  ASSUME NEW g
  PROVE  ProductOf(g, {}) = 1
<1>1. IsFiniteSet({})
  BY FS_EmptySet
<1>2. \A r \in SUBSET {} : \E h : Multiplies(h, g, r)
  BY <1>1, MultipliesExists
<1> QED
  BY <1>1, <1>2, ProductFrom

\* Term by term: the sum of larger numbers is larger.
LEMMA SumUpTo ==
  ASSUME NEW S, IsFiniteSet(S), NEW f, NEW g,
         \A x \in S : f[x] \in Int /\ g[x] \in Int /\ f[x] <= g[x]
  PROVE  /\ SumFunctionOnSet(f, S) \in Int /\ SumFunctionOnSet(g, S) \in Int
         /\ SumFunctionOnSet(f, S) <= SumFunctionOnSet(g, S)
<1> DEFINE Ok(r) == /\ SumFunctionOnSet(f, r) \in Int /\ SumFunctionOnSet(g, r) \in Int
                    /\ SumFunctionOnSet(f, r) <= SumFunctionOnSet(g, r)
           T == {r \in SUBSET S : ~Ok(r)}
<1> SUFFICES ASSUME T # {} PROVE FALSE
  OBVIOUS
<1>1. PICK r \in T : \A q \in T : q \subseteq r => q = r
  <2>1. T \in SUBSET SUBSET S
    OBVIOUS
  <2> HIDE DEF T
  <2> QED
    BY <2>1, SmallestSubset
<1>2. IsFiniteSet(r) /\ r \in SUBSET S /\ ~Ok(r)
  BY <1>1, FS_Subset
<1>3. r # {}
  BY <1>2, SumOfNone
<1>4. PICK x, q : x = Chosen(r) /\ q = r \ {x}
  OBVIOUS
<1>5. x \in r /\ q \in SUBSET S /\ q \subseteq r /\ q # r
  BY <1>2, <1>3, <1>4, ChosenIn
<1>6. Ok(q)
  BY <1>1, <1>5
<1>7. /\ SumFunctionOnSet(f, r) = f[x] + SumFunctionOnSet(f, q)
      /\ SumFunctionOnSet(g, r) = g[x] + SumFunctionOnSet(g, q)
  BY <1>2, <1>3, <1>4, SumChosen
<1>8. f[x] \in Int /\ g[x] \in Int /\ f[x] <= g[x]
  BY <1>2, <1>5
<1> QED
  BY <1>2, <1>6, <1>7, <1>8

\* If c times one is k times what the other has over d, term by term, then so
\* are their sums.
LEMMA SumScaled ==
  ASSUME NEW S, IsFiniteSet(S), NEW f, NEW g, NEW c \in Int, NEW k \in Int, NEW d \in Int,
         \A x \in S : f[x] \in Int /\ g[x] \in Int /\ c * f[x] = k * (g[x] - d)
  PROVE  /\ SumFunctionOnSet(f, S) \in Int /\ SumFunctionOnSet(g, S) \in Int
         /\ c * SumFunctionOnSet(f, S) = k * (SumFunctionOnSet(g, S) - Cardinality(S) * d)
<1> DEFINE Ok(r) == /\ SumFunctionOnSet(f, r) \in Int /\ SumFunctionOnSet(g, r) \in Int
                    /\ c * SumFunctionOnSet(f, r) =
                         k * (SumFunctionOnSet(g, r) - Cardinality(r) * d)
           T == {r \in SUBSET S : ~Ok(r)}
<1> SUFFICES ASSUME T # {} PROVE FALSE
  OBVIOUS
<1>1. PICK r \in T : \A q \in T : q \subseteq r => q = r
  <2>1. T \in SUBSET SUBSET S
    OBVIOUS
  <2> HIDE DEF T
  <2> QED
    BY <2>1, SmallestSubset
<1>2. IsFiniteSet(r) /\ r \in SUBSET S /\ ~Ok(r)
  BY <1>1, FS_Subset
<1>3. r # {}
  <2>1. CASE r = {}
    <3>1. SumFunctionOnSet(f, r) = 0 /\ SumFunctionOnSet(g, r) = 0 /\ Cardinality(r) = 0
      BY <2>1, SumOfNone, FS_EmptySet
    <3>2. Ok(r)
      BY <3>1
    <3> QED
      BY <1>2, <3>2
  <2> QED
    BY <2>1
<1>4. PICK x, q : x = Chosen(r) /\ q = r \ {x}
  OBVIOUS
<1>5. x \in r /\ q \in SUBSET S /\ q \subseteq r /\ q # r
  BY <1>2, <1>3, <1>4, ChosenIn
<1>6. Ok(q)
  BY <1>1, <1>5
<1>7. PICK m \in Nat : m = Cardinality(q) /\ Cardinality(r) = m + 1
  <2>1. IsFiniteSet(q) /\ Cardinality(q) = Cardinality(r) - 1
    BY <1>2, <1>4, <1>5, FS_RemoveElement
  <2>2. Cardinality(q) \in Nat /\ Cardinality(r) \in Nat
    BY <1>2, <2>1, FS_CardinalityType
  <2> QED
    BY <2>1, <2>2
<1>8. PICK F \in Int, G \in Int : F = SumFunctionOnSet(f, q) /\ G = SumFunctionOnSet(g, q)
  BY <1>6
<1>9. PICK u \in Int, v \in Int : u = f[x] /\ v = g[x] /\ c * u = k * (v - d)
  BY <1>2, <1>5
<1>10. SumFunctionOnSet(f, r) = u + F /\ SumFunctionOnSet(g, r) = v + G
  BY <1>2, <1>3, <1>4, <1>8, <1>9, SumChosen
<1>11. c * F = k * (G - m * d)
  BY <1>6, <1>7, <1>8
<1>12. c * (u + F) = k * ((v + G) - (m + 1) * d)
  <2>1. c * (u + F) = c * u + c * F
    OBVIOUS
  <2>2. (m + 1) * d = m * d + d
    OBVIOUS
  <2>3. PICK e \in Int : e = m * d
    OBVIOUS
  <2>4. k * (v - d) + k * (G - e) = k * ((v + G) - (e + d))
    OBVIOUS
  <2> QED
    BY <1>9, <1>11, <2>1, <2>2, <2>3, <2>4
<1>13. u + F \in Int /\ v + G \in Int
  OBVIOUS
<1> QED
  BY <1>2, <1>7, <1>10, <1>12, <1>13

\* A product is a multiple of each of its factors.
LEMMA ProductMultiple ==
  ASSUME NEW S, IsFiniteSet(S), NEW g, \A x \in S : g[x] \in Nat /\ g[x] > 0
  PROVE  /\ ProductOf(g, S) \in Nat /\ ProductOf(g, S) > 0
         /\ \A x \in S : \E k \in Nat : ProductOf(g, S) = k * g[x]
<1> DEFINE Ok(r) == /\ ProductOf(g, r) \in Nat /\ ProductOf(g, r) > 0
                    /\ \A x \in r : \E k \in Nat : ProductOf(g, r) = k * g[x]
           T == {r \in SUBSET S : ~Ok(r)}
<1> SUFFICES ASSUME T # {} PROVE FALSE
  OBVIOUS
<1>1. PICK r \in T : \A q \in T : q \subseteq r => q = r
  <2>1. T \in SUBSET SUBSET S
    OBVIOUS
  <2> HIDE DEF T
  <2> QED
    BY <2>1, SmallestSubset
<1>2. IsFiniteSet(r) /\ r \in SUBSET S /\ ~Ok(r)
  BY <1>1, FS_Subset
<1>3. r # {}
  <2>1. CASE r = {}
    <3>1. ProductOf(g, r) = 1
      BY <2>1, ProductOfNone
    <3>2. Ok(r)
      BY <2>1, <3>1
    <3> QED
      BY <1>2, <3>2
  <2> QED
    BY <2>1
<1>4. PICK x, q : x = Chosen(r) /\ q = r \ {x}
  OBVIOUS
<1>5. x \in r /\ q \in SUBSET S /\ q \subseteq r /\ q # r
  BY <1>2, <1>3, <1>4, ChosenIn
<1>6. Ok(q)
  BY <1>1, <1>5
<1>7. PICK a \in Nat, p \in Nat : a = g[x] /\ a > 0 /\ p = ProductOf(g, q) /\ p > 0
  BY <1>2, <1>5, <1>6
<1>8. ProductOf(g, r) = a * p
  BY <1>2, <1>3, <1>4, <1>7, ProductChosen
<1>9. a * p \in Nat /\ a * p > 0
  BY <1>7
<1>10. ASSUME NEW y \in r PROVE \E k \in Nat : a * p = k * g[y]
  <2>1. CASE y = x
    <3>1. a * p = p * g[y]
      BY <1>7, <2>1
    <3> QED
      BY <3>1
  <2>2. CASE y # x
    <3>1. y \in q
      BY <1>4, <2>2
    <3>2. PICK k \in Nat : p = k * g[y]
      BY <1>6, <1>7, <3>1
    <3>3. PICK z \in Nat : z = g[y]
      BY <1>2
    <3>4. a * (k * z) = (a * k) * z /\ a * k \in Nat
      OBVIOUS
    <3> QED
      BY <3>2, <3>3, <3>4
  <2> QED
    BY <2>1, <2>2
<1> QED
  BY <1>2, <1>8, <1>9, <1>10

------------------------------------------------------------------------------
(* The scores.  Every price divides Scale, so a return is a multiple of the *)
(* last close, less Scale.                                                  *)

LEMMA ExactReturn ==
  ASSUME NEW p \in Price, p > 0
  PROVE  \E k \in Nat : Scale = k * p /\ \A x \in Nat : (Scale * x) \div p = k * x
<1>1. p \in Nat /\ Scale \in Nat /\ Scale % p = 0
  BY PriceAssumption
<1>2. PICK k \in Nat : Scale = k * p
  BY <1>1
<1>3. ASSUME NEW x \in Nat PROVE (Scale * x) \div p = k * x
  <2>1. PICK y \in Nat : y = k * x
    OBVIOUS
  <2>2. Scale * x = y * p
    BY <1>1, <1>2, <2>1
  <2>3. (y * p) \div p = y
    BY <1>1
  <2> QED
    BY <2>1, <2>2, <2>3
<1> QED
  BY <1>2, <1>3

\* A better last close raises the score.
LEMMA ScoreUp ==
  ASSUME NEW b \in Seq(Price), Ready(b), NEW p \in Price, p >= b[Len(b)],
         NEW c, c = [b EXCEPT ![Len(b)] = p]
  PROVE  /\ c \in Seq(Price) /\ Ready(c)
         /\ Score(b) \in Int /\ Score(c) \in Int /\ Score(b) <= Score(c)
<1>1. PICK m \in Nat : m = Len(b) /\ m > 0
  BY DEF Ready
<1>2. c \in Seq(Price) /\ Len(c) = m /\ c = [i \in 1..m |-> IF i = m THEN p ELSE b[i]]
  BY <1>1, LastReplaced
<1>3. PICK l \in Nat : l = b[m] /\ l > 0 /\ p \in Nat /\ p >= l
  <2>1. b[m] \in Price
    BY <1>1
  <2> QED
    BY <1>1, <2>1, PriceAssumption DEF Ready
<1>4. c[m] = p
  BY <1>1, <1>2
<1>5. ASSUME NEW n \in Lookbacks
      PROVE  n \in 1..(m - 1) /\ n < Months /\ c[m - n] = b[m - n] /\ b[m - n] > 0
  <2>1. n \in 1..(m - 1) /\ n < Months /\ b[m - n] > 0
    BY <1>1 DEF Ready
  <2>2. m - n \in 1..m /\ m - n # m
    BY <2>1
  <2> QED
    BY <1>2, <2>1, <2>2
<1>6. Ready(c)
  BY <1>1, <1>2, <1>3, <1>4, <1>5 DEF Ready
<1>7. ASSUME NEW n \in Lookbacks
      PROVE  /\ Returns(b)[n] \in Int /\ Returns(c)[n] \in Int
             /\ Returns(b)[n] <= Returns(c)[n]
  <2>1. PICK q \in Price : q = b[m - n] /\ q > 0 /\ c[m - n] = q
    <3>1. m - n \in 1..m
      BY <1>1, <1>5
    <3> QED
      BY <1>1, <1>5, <3>1
  <2>2. PICK k \in Nat : Scale = k * q /\ \A x \in Nat : (Scale * x) \div q = k * x
    BY <2>1, ExactReturn
  <2>3. Returns(b)[n] = k * l - Scale
    BY <1>1, <1>3, <2>1, <2>2 DEF Returns
  <2>4. Returns(c)[n] = k * p - Scale
    BY <1>2, <1>3, <1>4, <2>1, <2>2 DEF Returns
  <2>5. k * l \in Int /\ k * p \in Int /\ k * l <= k * p
    <3>1. PICK d \in Nat : p = l + d
      <4>1. p - l \in Nat /\ p = l + (p - l)
        BY <1>3
      <4> QED
        BY <4>1
    <3>2. k * (l + d) = k * l + k * d /\ k * d \in Nat /\ k * l \in Nat
      OBVIOUS
    <3> QED
      BY <3>1, <3>2
  <2> QED
    BY <2>3, <2>4, <2>5, PriceAssumption
<1>8. IsFiniteSet(Lookbacks)
  BY MonthsAssumption
<1>9. Score(b) \in Int /\ Score(c) \in Int /\ Score(b) <= Score(c)
  BY <1>7, <1>8, SumUpTo DEF Score
<1> QED
  BY <1>2, <1>6, <1>9

\* momentum.py: a higher last close of the fund that a run chose leaves the
\* choice as it is, unless the rise is itself an outlier.
THEOREM BetterCloseIsSafe == Spec => []BetterCloseKeepsSignal
<1>1. SignalInv => BetterCloseKeepsSignal
  <2> SUFFICES ASSUME SignalInv, NEW f \in Fund,
                      result = (IF f = "QQQM" THEN "NASDAQ" ELSE "GOLD"),
                      NEW p \in Price, p >= Past(f, 0)
               PROVE  SignalOf([bars EXCEPT ![f][Len(bars[f])] = p])
                        \in {result, "OUTLIER_PENDING"}
    BY DEF BetterCloseKeepsSignal
  <2>1. result \in Signals
    BY DEF Signals
  <2>2. /\ bars \in [Fund -> Seq(Price)]
        /\ \A h \in Fund : Ready(bars[h])
        /\ result = select(Score(bars["QQQM"]), Score(bars["GLDM"]))
    BY <2>1, SignalSeen
  <2>3. PICK b, c : b \in Seq(Price) /\ b = bars[f] /\ c = [b EXCEPT ![Len(b)] = p]
    BY <2>2
  <2>4. p >= b[Len(b)]
    <3>1. Len(b) - 0 = Len(b)
      OBVIOUS
    <3> QED
      BY <2>3, <3>1 DEF Past
  <2>5. /\ c \in Seq(Price) /\ Ready(c)
        /\ Score(b) \in Int /\ Score(c) \in Int /\ Score(b) <= Score(c)
    BY <2>2, <2>3, <2>4, ScoreUp
  <2>6. PICK new \in [Fund -> Seq(Price)] :
          /\ new = [bars EXCEPT ![f][Len(bars[f])] = p]
          /\ new[f] = c /\ \A h \in Fund : h # f => new[h] = bars[h]
    <3>1. PICK new : new = [bars EXCEPT ![f][Len(bars[f])] = p]
      OBVIOUS
    <3>2. new = [bars EXCEPT ![f] = c]
      BY <2>3, <3>1
    <3>3. new[f] = c /\ \A h \in Fund : h # f => new[h] = bars[h]
      BY <2>2, <3>2
    <3>4. new \in [Fund -> Seq(Price)]
      BY <2>2, <2>5, <3>2
    <3> QED
      BY <3>1, <3>3, <3>4
  <2>7. \A h \in Fund : Ready(new[h])
    BY <2>2, <2>5, <2>6
  <2>8. SignalOf(new) \in {"OUTLIER_PENDING", select(Score(new["QQQM"]), Score(new["GLDM"]))}
    BY <2>7, SignalOfIs
  <2>9. ASSUME NEW h \in Fund PROVE Score(bars[h]) \in Int
    <3>1. PICK d \in Seq(Price) : d = bars[h] /\ Ready(d)
      BY <2>2
    <3>2. PICK q \in Price : q = d[Len(d)] /\ q >= d[Len(d)]
      <4>1. d[Len(d)] \in Price
        BY <3>1 DEF Ready
      <4> QED
        BY <4>1, PriceAssumption
    <3> QED
      BY <3>1, <3>2, ScoreUp
  <2>10. select(Score(new["QQQM"]), Score(new["GLDM"])) = result
    <3>1. CASE f = "QQQM"
      <4>1. Score(new["QQQM"]) = Score(c) /\ Score(new["GLDM"]) = Score(bars["GLDM"])
        BY <2>6, <3>1 DEF Fund
      <4> QED
        BY <2>2, <2>3, <2>5, <2>9, <3>1, <4>1 DEF select, Fund
    <3>2. CASE f = "GLDM"
      <4>1. Score(new["GLDM"]) = Score(c) /\ Score(new["QQQM"]) = Score(bars["QQQM"])
        BY <2>6, <3>2 DEF Fund
      <4> QED
        BY <2>2, <2>3, <2>5, <2>9, <3>2, <4>1 DEF select, Fund
    <3> QED
      BY <3>1, <3>2 DEF Fund
  <2> QED
    BY <2>6, <2>8, <2>10
<1> QED
  BY <1>1, SignalInvariant, PTL

------------------------------------------------------------------------------
(* The definition.  With den the product of the past closes, den times a    *)
(* score is Scale times the numerator of the definition, so the two agree   *)
(* in their signs and in their order.                                       *)

LEMMA SameSign ==
  ASSUME NEW d \in Int, NEW k \in Int, d > 0, k > 0, NEW s \in Int, NEW n \in Int, d * s = k * n
  PROVE  s <= 0 <=> n <= 0
<1>1. ASSUME s <= 0, n > 0 PROVE FALSE
  <2>1. d * s <= 0 /\ k * n > 0
    BY <1>1
  <2> QED
    BY <2>1
<1>2. ASSUME s > 0, n <= 0 PROVE FALSE
  <2>1. d * s > 0 /\ k * n <= 0
    BY <1>2
  <2> QED
    BY <2>1
<1> QED
  BY <1>1, <1>2

LEMMA SameOrder ==
  ASSUME NEW d \in Int, NEW e \in Int, NEW k \in Int, d > 0, e > 0, k > 0,
         NEW s \in Int, NEW t \in Int, NEW m \in Int, NEW n \in Int,
         d * s = k * m, e * t = k * n
  PROVE  s >= t <=> m * e >= n * d
<1>1. PICK D \in Int : D = d * e /\ D > 0
  OBVIOUS
<1>2. PICK x \in Int, y \in Int : x = t - s /\ y = n * d - m * e
  OBVIOUS
<1>3. D * t = k * (n * d)
  <2>1. D * t = d * (e * t)
    BY <1>1
  <2>2. d * (k * n) = k * (n * d)
    OBVIOUS
  <2> QED
    BY <2>1, <2>2
<1>4. D * s = k * (m * e)
  <2>1. D * s = e * (d * s)
    BY <1>1
  <2>2. e * (k * m) = k * (m * e)
    OBVIOUS
  <2> QED
    BY <2>1, <2>2
<1>5. D * x = D * t - D * s
  BY <1>2
<1>6. k * y = k * (n * d) - k * (m * e)
  BY <1>2
<1>7. D * x = k * y
  BY <1>3, <1>4, <1>5, <1>6
<1>8. x <= 0 <=> y <= 0
  BY <1>1, <1>7, SameSign
<1>9. PICK g \in Int, h \in Int : g = n * d /\ h = m * e
  OBVIOUS
<1> QED
  BY <1>2, <1>8, <1>9

LEMMA ScoreAsDefined ==
  ASSUME NEW f, NEW b \in Seq(Price), b = bars[f], Ready(b)
  PROVE  \E n \in Int, d \in Nat :
           /\ ScoreByDefinition(f) = <<n, d>> /\ d > 0
           /\ Score(b) \in Int /\ d * Score(b) = Scale * n
<1> DEFINE past == [n \in Lookbacks |-> Past(f, n)]
           terms(d) == [n \in Lookbacks |-> Past(f, 0) * (d \div past[n])]
<1>1. PICK m \in Nat : m = Len(b) /\ m > 0
  BY DEF Ready
<1>2. PICK l \in Nat : l = b[m] /\ l = Past(f, 0)
  <2>1. b[m] \in Price /\ m - 0 = m
    BY <1>1
  <2> QED
    BY <1>1, <2>1, PriceAssumption DEF Past
<1>3. ASSUME NEW n \in Lookbacks
      PROVE  past[n] \in Price /\ past[n] \in Nat /\ past[n] > 0 /\ past[n] = b[m - n]
  <2>1. m - n \in 1..m /\ b[m - n] > 0
    BY <1>1 DEF Ready
  <2>2. b[m - n] \in Price /\ past[n] = b[m - n]
    BY <1>1, <2>1 DEF Past
  <2> QED
    BY <2>1, <2>2, PriceAssumption
<1>4. IsFiniteSet(Lookbacks) /\ Cardinality(Lookbacks) \in Int
  BY MonthsAssumption, FS_CardinalityType
<1>5. DOMAIN past = Lookbacks /\ \A d : DOMAIN terms(d) = Lookbacks
  OBVIOUS
<1>6. ScoreByDefinition(f) =
        LET d == ProductOf(past, Lookbacks)
        IN <<SumFunctionOnSet(terms(d), Lookbacks) - Cardinality(Lookbacks) * d, d>>
  BY <1>5 DEF ScoreByDefinition, SumFunction, FoldFunction, ProductOf
<1> HIDE DEF past
<1>7. /\ ProductOf(past, Lookbacks) \in Nat /\ ProductOf(past, Lookbacks) > 0
      /\ \A n \in Lookbacks : \E j \in Nat : ProductOf(past, Lookbacks) = j * past[n]
  BY <1>3, <1>4, ProductMultiple
<1>8. PICK d \in Nat : d = ProductOf(past, Lookbacks) /\ d > 0
  BY <1>7
<1>9. PICK t : t = terms(d)
  OBVIOUS
<1>10. ASSUME NEW n \in Lookbacks
       PROVE  Returns(b)[n] \in Int /\ t[n] \in Int /\ d * Returns(b)[n] = Scale * (t[n] - d)
  <2>1. PICK q \in Price : q = past[n] /\ q = b[m - n] /\ q \in Nat /\ q > 0
    BY <1>3
  <2>2. PICK k \in Nat : Scale = k * q /\ \A x \in Nat : (Scale * x) \div q = k * x
    BY <2>1, ExactReturn
  <2>3. PICK j \in Nat : d = j * q
    BY <1>7, <1>8, <2>1
  <2>4. d \div q = j
    BY <2>1, <2>3
  <2>5. Returns(b)[n] = k * l - Scale
    BY <1>1, <1>2, <2>1, <2>2 DEF Returns
  <2>6. t[n] = l * j
    BY <1>2, <1>9, <2>1, <2>4
  <2>7. PICK u \in Int, v \in Int : u = k * l /\ v = l * j
    OBVIOUS
  <2>8. d * u = Scale * v
    <3>1. (j * q) * (k * l) = (k * q) * (l * j)
      BY <2>1
    <3> QED
      BY <2>2, <2>3, <2>7, <3>1
  <2>9. d * (u - Scale) = d * u - d * Scale /\ Scale * (v - d) = Scale * v - Scale * d
    BY PriceAssumption
  <2>10. d * Scale = Scale * d
    BY PriceAssumption
  <2>11. d * (u - Scale) = Scale * (v - d)
    BY <2>8, <2>9, <2>10
  <2> QED
    BY <2>5, <2>6, <2>7, <2>11, PriceAssumption
<1>11. /\ Score(b) \in Int /\ SumFunctionOnSet(t, Lookbacks) \in Int
       /\ d * Score(b) = Scale * (SumFunctionOnSet(t, Lookbacks) - Cardinality(Lookbacks) * d)
  <2>1. d \in Int /\ Scale \in Int
    BY PriceAssumption
  <2>2. PICK r : r = Returns(b)
    OBVIOUS
  <2>3. \A n \in Lookbacks : r[n] \in Int /\ t[n] \in Int /\ d * r[n] = Scale * (t[n] - d)
    BY <1>10, <2>2
  <2>4. /\ SumFunctionOnSet(r, Lookbacks) \in Int /\ SumFunctionOnSet(t, Lookbacks) \in Int
        /\ d * SumFunctionOnSet(r, Lookbacks) =
             Scale * (SumFunctionOnSet(t, Lookbacks) - Cardinality(Lookbacks) * d)
    BY <1>4, <2>1, <2>3, SumScaled
  <2> QED
    BY <2>2, <2>4 DEF Score
<1>12. PICK n \in Int : n = SumFunctionOnSet(t, Lookbacks) - Cardinality(Lookbacks) * d
  BY <1>4, <1>11
<1>13. ScoreByDefinition(f) = <<n, d>>
  BY <1>6, <1>8, <1>9, <1>12
<1> QED
  BY <1>8, <1>11, <1>12, <1>13

\* What the code computes from rows that come newest first, cut to Months and
\* indexed from the end, is the strategy's definition, whatever the lookbacks,
\* the window and the prices.
THEOREM TheSignalIsTheDefinition == Spec => []SignalAsDefined
<1>1. SignalInv => SignalAsDefined
  <2> SUFFICES ASSUME SignalInv, result \in Signals PROVE result = SignalByDefinition
    BY DEF SignalAsDefined
  <2>1. /\ bars \in [Fund -> Seq(Price)]
        /\ \A h \in Fund : Ready(bars[h])
        /\ result = select(Score(bars["QQQM"]), Score(bars["GLDM"]))
    BY SignalSeen
  <2>2. bars["QQQM"] \in Seq(Price) /\ Ready(bars["QQQM"])
        /\ bars["GLDM"] \in Seq(Price) /\ Ready(bars["GLDM"])
    BY <2>1 DEF Fund
  <2>3. PICK m \in Int, d \in Nat :
          /\ ScoreByDefinition("QQQM") = <<m, d>> /\ d > 0
          /\ Score(bars["QQQM"]) \in Int /\ d * Score(bars["QQQM"]) = Scale * m
    BY <2>2, ScoreAsDefined
  <2>4. PICK n \in Int, e \in Nat :
          /\ ScoreByDefinition("GLDM") = <<n, e>> /\ e > 0
          /\ Score(bars["GLDM"]) \in Int /\ e * Score(bars["GLDM"]) = Scale * n
    BY <2>2, ScoreAsDefined
  <2>5. PICK s \in Int, t \in Int : s = Score(bars["QQQM"]) /\ t = Score(bars["GLDM"])
    BY <2>3, <2>4
  <2>6. Scale \in Int /\ Scale > 0 /\ d \in Int /\ e \in Int
    BY PriceAssumption
  <2>7. (s <= 0 <=> m <= 0) /\ (t <= 0 <=> n <= 0)
    BY <2>3, <2>4, <2>5, <2>6, SameSign
  <2>8. s >= t <=> m * e >= n * d
    BY <2>3, <2>4, <2>5, <2>6, SameOrder
  <2>9. SignalByDefinition = IF m <= 0 /\ n <= 0 THEN "CASH"
                             ELSE IF m * e >= n * d THEN "NASDAQ" ELSE "GOLD"
    BY <2>3, <2>4 DEF SignalByDefinition
  <2>10. result = IF s <= 0 /\ t <= 0 THEN "CASH" ELSE IF s >= t THEN "NASDAQ" ELSE "GOLD"
    BY <2>1, <2>5 DEF select
  <2> QED
    BY <2>7, <2>8, <2>9, <2>10
<1> QED
  BY <1>1, SignalInvariant, PTL
==============================================================================
