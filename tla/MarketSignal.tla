---------------------------- MODULE MarketSignal ----------------------------
(***************************************************************************)
(* The signal of a run, from the broker's price rows to NASDAQ, GOLD or    *)
(* CASH: HttpKisClient.get_daily_closes, market_data.py, momentum.py and   *)
(* the part of run_cycle that puts them together.                          *)
(*                                                                         *)
(* The broker is asked for monthly bars (GUBN=2).  The bar of the current  *)
(* month moves until the month is over.  Scores are kept as integers:      *)
(* Scale is a multiple of every price, so that (Scale * a) \div b is       *)
(* exact, and the sum of the returns stands for their mean.                *)
(***************************************************************************)
EXTENDS Integers, FiniteSets, SequencesExt

CONSTANTS Price,                  \* closes; 0: a row without a close
          Lookbacks,              \* LOOKBACK_MONTHS
          Months,                 \* CycleDeps.months
          Scale,                  \* a multiple of every price
          MaxMonths               \* bound: the months walked

ASSUME PriceAssumption ==
  /\ Scale \in Nat \ {0}
  /\ \A p \in Price : p \in Nat /\ (p > 0 => Scale % p = 0)

ASSUME MonthsAssumption ==
  /\ Months \in Nat \ {0}
  /\ MaxMonths \in Nat \ {0}
  /\ IsFiniteSet(Lookbacks) /\ Lookbacks # {} /\ Lookbacks \subseteq Nat \ {0}

VARIABLES
  bars,    \* the broker's monthly closes of each fund, oldest first
  result   \* what the latest run made of them

vars == <<bars, result>>

Fund == {"QQQM", "GLDM"}
Signals == {"NASDAQ", "GOLD", "CASH"}

---------------------------------------------------------------------------
(* Market data                                                             *)

\* The rows of the answer: the newest month first.
get_daily_closes(b) ==
  Reverse([m \in DOMAIN b |-> [month |-> m, close |-> b[m]]])

\* The rows from the oldest to the newest: the i-th has i - 1 rows before it.
by_date(rows) ==
  LET before(k) == {j \in DOMAIN rows : rows[j].month < rows[k].month}
  IN [i \in DOMAIN rows |-> rows[CHOOSE k \in DOMAIN rows : Cardinality(before(k)) = i - 1]]

\* The last close of each month (a monthly bar is the one row of its month),
\* of the last Months months.
month_end_closes(rows) ==
  LET series == by_date(rows)
      first  == IF Len(series) > Months THEN Len(series) - Months ELSE 0
  IN [i \in 1 .. Len(series) - first |-> series[first + i].close]

\* Mutated form of detect_outliers: only rises are flagged.
detect_rises(rows) ==
  LET ordered == by_date(rows)
  IN {ordered[i].month : i \in {j \in 2 .. Len(ordered) :
        /\ ordered[j - 1].close > 0
        /\ 2 * (ordered[j].close - ordered[j - 1].close) > ordered[j - 1].close}}

\* The rows whose close is more than one half away from that of the row before.
detect_outliers(rows) ==
  LET ordered == by_date(rows)
      far(a, b) == 2 * (b - a) > a \/ 2 * (a - b) > a
  IN {ordered[i].month : i \in {j \in 2 .. Len(ordered) :
        ordered[j - 1].close > 0 /\ far(ordered[j - 1].close, ordered[j].close)}}

---------------------------------------------------------------------------
(* Momentum                                                                *)

\* momentum_score raises ValueError on any other series.
Scorable(prices) ==
  /\ \A n \in Lookbacks : Len(prices) > n
  /\ Last(prices) > 0
  /\ \A n \in Lookbacks : prices[Len(prices) - n] > 0

\* Mutated form of momentum_score: each lookback is one month short.
score_one_short(prices) ==
  SumFunction([n \in Lookbacks |->
                 (Scale * Last(prices)) \div prices[Len(prices) - n + 1] - Scale])

\* Mutated form of momentum_score: the quotient is upside down.
score_inverted(prices) ==
  SumFunction([n \in Lookbacks |->
                 (Scale * prices[Len(prices) - n]) \div Last(prices) - Scale])

\* The sum of the returns over the lookbacks.
momentum_score(prices) ==
  SumFunction([n \in Lookbacks |->
                 (Scale * Last(prices)) \div prices[Len(prices) - n] - Scale])

\* Mutated form of select: the ticker in place of the asset.
select_ticker(nasdaq, gold) ==
  IF nasdaq <= 0 /\ gold <= 0 THEN "CASH" ELSE IF nasdaq >= gold THEN "QQQM" ELSE "GLDM"

\* Cash if neither score is positive; a tie goes to NASDAQ.
select(nasdaq, gold) ==
  IF nasdaq <= 0 /\ gold <= 0 THEN "CASH" ELSE IF nasdaq >= gold THEN "NASDAQ" ELSE "GOLD"

decide_signal(closes) ==
  IF \A f \in Fund : Scorable(closes[f])
  THEN select(momentum_score(closes["QQQM"]), momentum_score(closes["GLDM"]))
  ELSE "raised"

\* run_cycle: an outlier of either fund holds the run before any score.
SignalOf(b) ==
  LET rows == [f \in Fund |-> get_daily_closes(b[f])]
  IN IF \E f \in Fund : detect_outliers(rows[f]) # {}
     THEN "OUTLIER_PENDING"
     ELSE decide_signal([f \in Fund |-> month_end_closes(rows[f])])

---------------------------------------------------------------------------
Init ==
  /\ bars \in [Fund -> {<<p>> : p \in Price}]
  /\ result = "none"

\* The price of a fund moves, and its bar of the month with it.
Trade(f) ==
  /\ \E p \in Price : bars' = [bars EXCEPT ![f][Len(bars[f])] = p]
  /\ result' = "none"

\* A month ends, its bars stay.
NextMonth ==
  /\ \A f \in Fund : Len(bars[f]) < MaxMonths
  /\ \E p \in [Fund -> Price] : bars' = [f \in Fund |-> Append(bars[f], p[f])]
  /\ result' = "none"

\* A run reaches its decision.
Run ==
  /\ result = "none"
  /\ result' = SignalOf(bars)
  /\ UNCHANGED bars

Next == Run \/ NextMonth \/ \E f \in Fund : Trade(f)

Spec == Init /\ [][Next]_vars

---------------------------------------------------------------------------
(* The definition of the signal (PRD_momentum_bot.md:128-133), by calendar *)
(* month and with exact fractions <<numerator, denominator>>: the          *)
(* reference the code is compared with.                                    *)

Past(f, n) == bars[f][Len(bars[f]) - n]

\* The mean of the returns, times the number of lookbacks.
ScoreByDefinition(f) ==
  LET past == [n \in Lookbacks |-> Past(f, n)]
      den  == FoldFunction(LAMBDA p, q : p * q, 1, past)
  IN <<SumFunction([n \in Lookbacks |-> Past(f, 0) * (den \div past[n])])
         - Cardinality(Lookbacks) * den, den>>

SignalByDefinition ==
  LET n == ScoreByDefinition("QQQM")
      g == ScoreByDefinition("GLDM")
  IN IF n[1] <= 0 /\ g[1] <= 0 THEN "CASH"
     ELSE IF n[1] * g[2] >= g[1] * n[2] THEN "NASDAQ" ELSE "GOLD"

---------------------------------------------------------------------------
\* Both funds have the same months, and a run ends in a signal, a hold or a
\* ValueError.
SignalTypeOK ==
  /\ \A f \in Fund : bars[f] \in Seq(Price)
  /\ Len(bars["QQQM"]) = Len(bars["GLDM"]) /\ Len(bars["QQQM"]) \in 1 .. MaxMonths
  /\ result \in Signals \union {"none", "OUTLIER_PENDING", "raised"}

\* What the code computes from rows that come newest first, cut to Months and
\* indexed from the end, is the strategy's definition: the fund with the better
\* mean return over the calendar lookbacks, or cash.
SignalAsDefined == result \in Signals => result = SignalByDefinition

\* A row without a close reads as 0 and a score looks at three past months
\* only, yet no run trades over such a row within its window, in either fund:
\* the fall to 0 is an outlier, and a 0 at the start of the window, which falls
\* from nothing, is at the longest lookback and raises.  This rests on Months
\* being the longest lookback plus one.
NoSignalOverMissingClose ==
  result \in Signals =>
    \A f \in Fund : \A i \in 1 .. Len(bars[f]) :
      i > Len(bars[f]) - Months => bars[f][i] > 0

\* A better last close never costs a fund its signal: with a higher close of
\* the chosen fund the run would decide the same, or be held for an outlier.
BetterCloseKeepsSignal ==
  \A f \in Fund : result = (IF f = "QQQM" THEN "NASDAQ" ELSE "GOLD") =>
    \A p \in Price : p >= Past(f, 0) =>
      SignalOf([bars EXCEPT ![f][Len(bars[f])] = p]) \in {result, "OUTLIER_PENDING"}
=============================================================================
