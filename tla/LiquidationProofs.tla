-------------------------- MODULE LiquidationProofs --------------------------
(***************************************************************************)
(* What the cycle promises with a liquidation beside it, for every worth   *)
(* of the account, every combination of masked failures and every number   *)
(* of processes.                                                           *)
(***************************************************************************)
EXTENDS Liquidation, StrategyCycleProofs

------------------------------------------------------------------------------
(* To the cycle, the handler of an /emergency-stop is the user who pauses,  *)
(* and another executor on the account.                                     *)

Uses(p) ==
  \/ \E t \in Target, b \in Position \cup {NoBalance} : Begin(p, t, b)
  \/ Execute(p) \/ Return(p) \/ Raise(p)

WebStep == Uses(web) /\ UNCHANGED cycle

KeepsLocals(p) ==
  /\ pc'[p] = pc[p] /\ target'[p] = target[p]
  /\ snap'[p] = snap[p] /\ seen'[p] = seen[p]
  /\ leg'[p] = leg[p] /\ next'[p] = next[p]

LEMMA SystemStep ==
  ASSUME CycleTypeInv, [SystemNext]_systemvars
  PROVE  [CycleNext]_allvars \/ WebStep
<1>1. CASE EmergencyStop
  <2>1. CASE paused
    BY <1>1, <2>1 DEF EmergencyStop, allvars, cycle, CycleTypeInv, CycleTypeOK
  <2>2. CASE ~paused
    BY <1>1, <2>2 DEF EmergencyStop, Pause, CycleNext
  <2> QED
    BY <2>1, <2>2
<1>2. CASE CallLiquidator
  BY <1>2 DEF CallLiquidator, WebStep, Uses, Target
<1>3. CASE RunLiquidator \/ Answer
  BY <1>3 DEF RunLiquidator, Answer, WebStep, Uses
<1>4. CASE LiquidatorFails \/ LogSales
  BY <1>4 DEF LiquidatorFails, LogSales, WebStep, Uses, allvars
<1>5. CASE Others \/ Resumed
  BY <1>5 DEF Others, Resumed, CycleNext
<1>6. CASE UNCHANGED systemvars
  BY <1>6 DEF systemvars
<1> QED
  BY <1>1, <1>2, <1>3, <1>4, <1>5, <1>6 DEF SystemNext, Liquidate

\* The locals of a call of execute() are its own.
LEMMA OthersKeepLocals ==
  ASSUME TypeInv, NEW p \in Proc, NEW r \in Proc, r # p, Uses(p)
  PROVE  KeepsLocals(r)
<1> USE DEF TypeInv, TypeOK, KeepsLocals
<1>1. ASSUME Forget(p) PROVE KeepsLocals(r)
  BY <1>1 DEF Forget
<1>2. ASSUME NEW s, NEW d, NEW q, NEW to, PlaceOrder(p, s, d, q, to)
      PROVE  KeepsLocals(r)
  BY <1>1, <1>2 DEF PlaceOrder, AddLeg, Goto
<1>3. CASE \E t \in Target, b \in Position \cup {NoBalance} : Begin(p, t, b)
  BY <1>3 DEF Begin, Goto
<1>4. CASE Return(p) \/ Raise(p)
  BY <1>1, <1>4 DEF Return, Raise
<1>5. CASE Snapshot(p) \/ OpenOrders(p) \/ SellsDone(p) \/ PollSettlement(p)
  BY <1>5 DEF Snapshot, OpenOrders, SellsDone, PollSettlement, Goto, locals
<1>6. CASE Sell(p)
  BY <1>2, <1>6 DEF Sell, AddLeg
<1>7. CASE BuyLeg(p)
  BY <1>7 DEF BuyLeg, AddLeg, Goto
<1>8. CASE Buy(p)
  BY <1>2, <1>8 DEF Buy
<1> QED
  BY <1>3, <1>4, <1>5, <1>6, <1>7, <1>8 DEF Uses, Execute

------------------------------------------------------------------------------
(* Types *)

LEMMA WebStepTypes ==
  ASSUME CycleTypeInv, WebStep
  PROVE  CycleTypeInv'
<1>1. web \in Proc
  BY LiquidationAssumption
<1>2. AnyStep
  BY <1>1 DEF WebStep, Uses, AnyStep, Next
<1>3. TypeInv' /\ TypeOK'
  BY <1>2, StepTypes DEF CycleTypeInv, TypeInv
<1> QED
  BY <1>3 DEF WebStep, CycleTypeInv, CycleTypeOK, cycle, run, ghosts

LEMMA HandlerTypes ==
  ASSUME LiquidationTypeOK, [SystemNext]_systemvars
  PROVE  /\ stage' \in {"off", "stop", "execute", "answer"}
         /\ answer' \in {"none", "sold", "nothing", "error"}
         /\ quiet' \in BOOLEAN /\ meddled' \subseteq Slot
         /\ rows' \subseteq Ticker /\ taken' \subseteq Ticker
<1> USE DEF LiquidationTypeOK
<1>1. CASE EmergencyStop \/ CallLiquidator
  BY <1>1 DEF EmergencyStop, CallLiquidator
<1>2. CASE RunLiquidator \/ LogSales \/ Answer \/ LiquidatorFails
  BY <1>2 DEF RunLiquidator, LogSales, Listed, Answer, LiquidatorFails
<1>3. CASE Others \/ Resumed
  BY <1>3 DEF Others, Resumed, Working
<1>4. CASE UNCHANGED systemvars
  BY <1>4 DEF systemvars, liquidation
<1> QED
  BY <1>1, <1>2, <1>3, <1>4 DEF SystemNext, Liquidate

SystemTypeInv == CycleTypeInv /\ LiquidationTypeOK

LEMMA SystemTypeStep == SystemTypeInv /\ [SystemNext]_systemvars => SystemTypeInv'
<1> SUFFICES ASSUME SystemTypeInv, [SystemNext]_systemvars
             PROVE  SystemTypeInv'
  OBVIOUS
<1>1. CycleTypeInv'
  BY SystemStep, CycleTypeStep, WebStepTypes DEF SystemTypeInv
<1> QED
  BY <1>1, HandlerTypes DEF SystemTypeInv, CycleTypeInv, LiquidationTypeOK

LEMMA SystemInitTypes == LiquidationInit => SystemTypeInv
  BY CycleInitTypes
  DEF LiquidationInit, SystemTypeInv, LiquidationTypeOK, CycleTypeInv

\* Every variable of the two processes keeps its type.
THEOREM SystemTypeCorrect == SystemSpec => []LiquidationTypeOK
<1>1. SystemTypeInv => LiquidationTypeOK
  BY DEF SystemTypeInv
<1> QED
  BY <1>1, SystemInitTypes, SystemTypeStep, PTL DEF SystemSpec

------------------------------------------------------------------------------
(* The pause and the log *)

\* A run triggered after the flag of an /emergency-stop was written, or of a
\* /pause, never has an order at the broker, whatever the liquidation beside
\* it does.
THEOREM LiquidationStopsTheCycle == SystemSpec => []PausedRunNeverTrades
<1> DEFINE I == SystemTypeInv /\ PausedInv
<1>1. LiquidationInit => I
  BY SystemInitTypes DEF LiquidationInit, CycleInit, PausedInv
<1>2. I /\ [SystemNext]_systemvars => I'
  <2> SUFFICES ASSUME I, [SystemNext]_systemvars PROVE PausedInv'
    BY SystemTypeStep
  <2>1. CASE [CycleNext]_allvars
    BY <2>1, PausedStep
  <2>2. CASE WebStep
    BY <2>2 DEF WebStep, cycle, run, ghosts, PausedInv
  <2> QED
    BY <2>1, <2>2, SystemStep DEF SystemTypeInv
<1>3. I => PausedRunNeverTrades
  BY DEF PausedInv, PausedRunNeverTrades
<1> QED
  BY <1>1, <1>2, <1>3, PTL DEF SystemSpec

LEMMA WebStepLogs ==
  ASSUME LogInv, WebStep
  PROVE  LogInv'
<1>1. CycleTypeInv /\ TypeInv /\ CycleTypeInv'
  BY WebStepTypes DEF LogInv, CycleTypeInv
<1>2. /\ pc'[cron] = pc[cron] /\ target'[cron] = target[cron]
      /\ leg'[cron] = leg[cron] /\ next'[cron] = next[cron]
  BY <1>1, OthersKeepLocals, LiquidationAssumption, CycleAssumption
     DEF WebStep, KeepsLocals
<1>3. FreeLegs(cron)'
  BY <1>2 DEF LogInv, FreeLegs
<1>4. PlacedSlots' = PlacedSlots /\ AcceptedSlots' = AcceptedSlots
  BY <1>2 DEF PlacedSlots, AcceptedSlots, placed, SlotOf, SideOf
<1>5. UNCHANGED <<step, status, accepted, logged>>
  BY DEF WebStep, cycle, run, ghosts
<1> QED
  BY <1>1, <1>2, <1>3, <1>4, <1>5 DEF LogInv, RowsAccepted, ExecutedRunIsLogged

LEMMA SystemLogs ==
  /\ LiquidationInit => LogInv
  /\ LogInv /\ [SystemNext]_systemvars => LogInv'
<1>1. LiquidationInit => LogInv
  BY CycleInitLogs DEF LiquidationInit
<1>2. LogInv /\ [SystemNext]_systemvars => LogInv'
  BY SystemStep, LogStep, WebStepLogs DEF LogInv
<1> QED
  BY <1>1, <1>2

\* When the cycle says EXECUTED, it has logged exactly its own accepted orders,
\* though a liquidation trades on the same account meanwhile.
THEOREM LogIsComplete == SystemSpec => []ExecutedRunIsLogged
<1>1. LogInv => ExecutedRunIsLogged
  BY DEF LogInv
<1> QED
  BY <1>1, SystemLogs, PTL DEF SystemSpec

------------------------------------------------------------------------------
(* The sale of an /emergency-stop is complete.  While nothing disturbs it,  *)
(* each ticker is either still as the snapshot read it, or the shares it    *)
(* holds are the shares its one order offers.                               *)

Offer(k) == IF book[k] = <<>> THEN 0 ELSE Head(book[k])

Ahead(s) ==
  /\ book[<<s, "SELL">>] = <<>>
  /\ pc[web] # "snapshot" => snap[web][s] = held[s]

Disposed(s) ==
  leg[web][s].state # "rejected" =>
    /\ held[s] = Offer(<<s, "SELL">>)
    /\ placed(web, s) \/ held[s] = 0

Visited(i) == pc[web] = "done" \/ (pc[web] = "sell" /\ i < next[web])

Selling ==
  /\ pc[web] \in {"snapshot", "open_orders", "sell", "done"}
  /\ target[web] = "CASH"
  /\ pc[web] = "snapshot" => snap[web] = NoBalance
  /\ pc[web] = "sell" => seen[web] = {}
  /\ \A i \in 1..2 : IF Visited(i) THEN Disposed(ALL_TICKERS[i])
                                   ELSE Ahead(ALL_TICKERS[i])

OneSale ==
  \A s \in Ticker : book[<<s, "BUY">>] = <<>> /\ Len(book[<<s, "SELL">>]) <= 1

AllOffered ==
  /\ \A s \in Ticker : held[s] = Offer(<<s, "SELL">>)
  /\ answer = "nothing" => held = NoPosition

QuietInv ==
  quiet =>
    /\ paused /\ step \in {"off", "gate"}
    /\ OneSale
    /\ stage = "off" => AllOffered
    /\ stage = "stop" => Working = {}
    /\ stage \in {"execute", "answer"} => Selling
    /\ stage = "answer" => pc[web] = "done"

\* A slot with one order at most offers what that order offers.
LEMMA SumOfNone == SumFunction(<<>>) = 0
<1>1. DOMAIN <<>> = {} /\ SUBSET {} = {{}}
  OBVIOUS
<1> QED
  BY <1>1 DEF SumFunction, SumFunctionOnSet, FoldFunctionOnSet, MapThenFoldSet

LEMMA SumOfOne ==
  ASSUME NEW n \in Nat
  PROVE  SumFunction(<<n>>) = n
<1> DEFINE R(g) == [S \in SUBSET {1} |->
                      IF S = {} THEN 0
                      ELSE LET x == CHOOSE x \in S : TRUE
                           IN  <<n>>[x] + g[S \ {x}]]
           sum == [S \in SUBSET {1} |-> IF S = {} THEN 0 ELSE n]
           chosen == CHOOSE g : g = R(g)
<1>1. DOMAIN <<n>> = {1} /\ SUBSET {1} = {{}, {1}}
  OBVIOUS
<1>2. (CHOOSE x \in {1} : TRUE) = 1
  OBVIOUS
<1>3. ASSUME NEW g PROVE R(g)[{}] = 0 /\ R(g)[{1}] = n + g[{}]
  <2>1. R(g)[{}] = 0
    OBVIOUS
  <2>2. R(g)[{1}] = <<n>>[1] + g[{1} \ {1}]
    BY <1>2
  <2>3. {1} \ {1} = {}
    OBVIOUS
  <2> QED
    BY <2>1, <2>2, <2>3
<1>4. sum = R(sum)
  <2>1. DOMAIN R(sum) = {{}, {1}} /\ DOMAIN sum = {{}, {1}}
    BY <1>1
  <2>2. sum[{}] = 0 /\ sum[{1}] = n
    OBVIOUS
  <2>3. R(sum)[{}] = 0 /\ R(sum)[{1}] = n
    BY <1>3, <2>2
  <2>4. /\ sum = [S \in DOMAIN sum |-> sum[S]]
        /\ R(sum) = [S \in DOMAIN R(sum) |-> R(sum)[S]]
    OBVIOUS
  <2> HIDE DEF sum, R
  <2> QED
    BY <2>1, <2>2, <2>3, <2>4
<1>5. chosen = R(chosen)
  <2> HIDE DEF R, sum
  <2> QED
    BY <1>4
<1>6. chosen[{1}] = n
  <2> HIDE DEF R, chosen
  <2> QED
    BY <1>3, <1>5
<1>7. SumFunction(<<n>>) = chosen[DOMAIN <<n>>]
  BY <1>1 DEF SumFunction, SumFunctionOnSet, FoldFunctionOnSet, MapThenFoldSet
<1> QED
  BY <1>1, <1>6, <1>7

LEMMA OneOrder ==
  ASSUME NEW b \in Seq(Nat \ {0}), b # <<>>, Len(b) <= 1
  PROVE  b = <<Head(b)>> /\ Head(b) \in Nat \ {0}
<1>1. Len(b) \in Nat /\ Len(b) # 0
  OBVIOUS
<1>2. \A n \in Nat : n # 0 /\ n <= 1 => n = 1
  OBVIOUS
<1>3. Len(b) = 1
  BY <1>1, <1>2
<1> QED
  BY <1>3

LEMMA OfferFacts ==
  ASSUME AccountTypeOK, NEW k \in Slot, Len(book[k]) <= 1
  PROVE  /\ SumFunction(book[k]) = Offer(k)
         /\ Offer(k) \in Nat
         /\ Offer(k) = 0 <=> book[k] = <<>>
         /\ book[k] # <<>> => book[k] = <<Offer(k)>>
<1>1. book[k] \in Seq(Nat \ {0})
  BY DEF AccountTypeOK
<1>2. CASE book[k] = <<>>
  BY <1>2, SumOfNone DEF Offer
<1>3. CASE book[k] # <<>>
  <2>1. book[k] = <<Head(book[k])>> /\ Head(book[k]) \in Nat \ {0}
    BY <1>1, <1>3, OneOrder
  <2> QED
    BY <1>3, <2>1, SumOfOne DEF Offer
<1> QED
  BY <1>2, <1>3

LEMMA AllOfferedIsComplete ==
  SystemTypeInv /\ QuietInv => LiquidationIsComplete
<1> SUFFICES ASSUME SystemTypeInv, QuietInv, quiet, stage = "off", NEW s \in Ticker
             PROVE  /\ held[s] = SumFunction(book[<<s, "SELL">>])
                    /\ book[<<s, "BUY">>] = <<>>
                    /\ answer = "nothing" => held = NoPosition
  BY DEF LiquidationIsComplete, Ticker
<1>1. AccountTypeOK /\ <<s, "SELL">> \in Slot
  BY DEF SystemTypeInv, CycleTypeInv, TypeInv, TypeOK, Slot, Side
<1>2. OneSale /\ AllOffered
  BY DEF QuietInv
<1> QED
  BY <1>1, <1>2, OfferFacts DEF OneSale, AllOffered

\* A fill moves one share of one ticker and touches one slot.
LEMMA FillMoves ==
  ASSUME AccountTypeOK, NEW s \in Ticker, NEW d \in Side, Fill(s, d)
  PROVE  /\ book[<<s, d>>] # <<>>
         /\ held'[s] = IF d = "BUY" THEN held[s] + 1 ELSE held[s] - 1
         /\ \A r \in Ticker : r # s => held'[r] = held[r]
         /\ \A m \in Slot : m # <<s, d>> => book'[m] = book[m]
BY DEF Fill, AccountTypeOK, Position, Slot

LEMMA FillOffers ==
  ASSUME AccountTypeOK, NEW s \in Ticker, NEW d \in Side, Fill(s, d),
         Len(book[<<s, d>>]) <= 1
  PROVE  /\ Len(book'[<<s, d>>]) <= 1
         /\ Offer(<<s, d>>)' = Offer(<<s, d>>) - 1
<1> DEFINE k == <<s, d>>
<1>1. k \in Slot /\ book[k] # <<>>
  BY FillMoves DEF Slot
<1>2. book[k] = <<Offer(k)>> /\ Offer(k) \in Nat \ {0}
  BY <1>1, OfferFacts
<1>3. Head(book[k]) = Offer(k) /\ Tail(book[k]) = <<>>
  BY <1>2
<1>4. book'[k] = IF Offer(k) = 1 THEN <<>> ELSE <<Offer(k) - 1>> \o <<>>
  BY <1>1, <1>3 DEF Fill, AccountTypeOK
<1>5. CASE Offer(k) = 1
  BY <1>2, <1>4, <1>5 DEF Offer
<1>6. CASE Offer(k) # 1
  <2>1. Offer(k) - 1 \in Nat
    BY <1>2
  <2>2. <<Offer(k) - 1>> \o <<>> = <<Offer(k) - 1>>
    BY <2>1
  <2>3. book'[k] = <<Offer(k) - 1>>
    BY <1>4, <1>6, <2>2
  <2> QED
    BY <2>1, <2>3 DEF Offer
<1> QED
  BY <1>5, <1>6

\* One share of the one order of a ticker is sold.
LEMMA SaleFilled ==
  ASSUME AccountTypeOK, OneSale, NEW s \in Ticker, NEW d \in Side, Fill(s, d)
  PROVE  /\ OneSale'
         /\ book[<<s, "SELL">>] # <<>> /\ held[s] > 0
         /\ held'[s] = held[s] - 1
         /\ Offer(<<s, "SELL">>)' = Offer(<<s, "SELL">>) - 1
         /\ \A r \in Ticker : r # s =>
              /\ held'[r] = held[r]
              /\ book'[<<r, "SELL">>] = book[<<r, "SELL">>]
<1>1. d = "SELL" /\ held[s] > 0
  BY DEF Fill, OneSale, Side
<1>2. \A r \in Ticker, e \in Side : <<r, e>> \in Slot
  BY DEF Slot
<1>3. Len(book'[<<s, "SELL">>]) <= 1
      /\ Offer(<<s, "SELL">>)' = Offer(<<s, "SELL">>) - 1
  BY <1>1, FillOffers DEF OneSale
<1>4. OneSale'
  BY <1>1, <1>2, <1>3, FillMoves DEF OneSale, Side
<1> QED
  BY <1>1, <1>2, <1>3, <1>4, FillMoves DEF Side

\* The market fills the sales and settles them, as long as nothing expires.
LEMMA MarketKeepsQuiet ==
  ASSUME SystemTypeInv, QuietInv, Others, MarketMoves, quiet'
  PROVE  QuietInv'
<1>1. /\ quiet /\ ~Expiry /\ Market
      /\ UNCHANGED <<executor, step, paused, stage, answer>>
  BY DEF Others, MarketMoves, run
<1>2. UNCHANGED <<pc, target, snap, seen, leg, next>>
  BY <1>1 DEF executor, locals
<1>3. AccountTypeOK /\ OneSale
  BY <1>1 DEF SystemTypeInv, CycleTypeInv, TypeInv, TypeOK, QuietInv
<1>4. CASE Settle
  BY <1>1, <1>2, <1>4 DEF Settle, QuietInv, OneSale, AllOffered, Offer, Working,
     Selling, Visited, Disposed, Ahead, placed
<1>5. CASE \E s \in Ticker, d \in Side : Fill(s, d)
  <2>1. PICK s \in Ticker, d \in Side : Fill(s, d)
    BY <1>5
  <2>2. /\ OneSale'
        /\ book[<<s, "SELL">>] # <<>> /\ held[s] > 0
        /\ held'[s] = held[s] - 1
        /\ Offer(<<s, "SELL">>)' = Offer(<<s, "SELL">>) - 1
        /\ \A r \in Ticker : r # s =>
             /\ held'[r] = held[r]
             /\ book'[<<r, "SELL">>] = book[<<r, "SELL">>]
    BY <1>3, <2>1, SaleFilled
  <2>3. \A r \in Ticker : r # s => Offer(<<r, "SELL">>)' = Offer(<<r, "SELL">>)
    BY <2>2 DEF Offer
  <2>4. stage # "stop"
    BY <1>1, <2>2 DEF QuietInv, Working, Slot, Side
  <2>5. stage = "off" => AllOffered'
    BY <1>1, <2>2, <2>3 DEF QuietInv, AllOffered, NoPosition
  <2>6. ASSUME stage \in {"execute", "answer"} PROVE Selling'
    <3>1. Selling
      BY <1>1, <2>6 DEF QuietInv
    <3>2. \A r \in Ticker : (Disposed(r) => Disposed(r)') /\ (Ahead(r) => Ahead(r)')
      <4>1. (Disposed(s) => Disposed(s)') /\ ~Ahead(s)
        BY <1>2, <2>2 DEF Disposed, Ahead, placed
      <4>2. \A r \in Ticker : r # s => (Disposed(r) => Disposed(r)')
        BY <1>2, <2>2, <2>3 DEF Disposed, placed
      <4>3. \A r \in Ticker : r # s => (Ahead(r) => Ahead(r)')
        BY <1>2, <2>2 DEF Ahead
      <4> QED
        BY <4>1, <4>2, <4>3
    <3>3. \A i \in 1..2 : Visited(i)' <=> Visited(i)
      BY <1>2 DEF Visited
    <3> QED
      BY <1>2, <3>1, <3>2, <3>3, LoopFacts DEF Selling
  <2> QED
    BY <1>1, <1>2, <2>2, <2>4, <2>5, <2>6 DEF QuietInv
<1> QED
  BY <1>1, <1>4, <1>5 DEF Market, Expiry

\* One turn of the sell loop disposes of its ticker: the order it places offers
\* every share, for the balance it goes by is still true.
LEMMA SellDisposes ==
  ASSUME SystemTypeInv, FreeLegs(web), OneSale, Selling, Sell(web),
         pc'[web] # "idle",
         NEW i \in 1..2, i = next[web],
         NEW q, q = snap[web][ALL_TICKERS[i]]
  PROVE  OneSale' /\ Selling'
<1> DEFINE s == ALL_TICKERS[i]
           k == <<s, "SELL">>
<1>1. TypeOK /\ AccountTypeOK /\ web \in Proc
  BY LiquidationAssumption DEF SystemTypeInv, CycleTypeInv, TypeInv, TypeOK
<1>2. /\ pc[web] = "sell" /\ s \in Ticker /\ k \in Slot
      /\ target[web] = "CASH" /\ seen[web] = {}
  BY <1>1, LoopFacts DEF Sell, Selling, TypeOK, Slot, Side
<1>3. /\ q = held[s] /\ q \in Nat /\ book[k] = <<>>
      /\ leg[web][s].state = "none"
  <2>1. Ahead(s)
    BY <1>2 DEF Selling, Visited
  <2> QED
    BY <1>1, <1>2, <2>1 DEF Ahead, FreeLegs, AccountTypeOK, Position
<1>4. s # SymbolOf(target[web]) /\ ~HasOpen(web, s, "SELL")
  BY <1>2, SymbolFacts DEF HasOpen, Ticker
<1>5. CASE q = 0
  <2>1. /\ next' = [next EXCEPT ![web] = @ + 1]
        /\ UNCHANGED <<account, pc, target, snap, seen, leg>>
    BY <1>3, <1>4, <1>5 DEF Sell
  <2>2. Disposed(s)
    BY <1>3, <1>5 DEF Disposed, Offer
  <2>3. \A r \in Ticker : (Disposed(r) => Disposed(r)') /\ (Ahead(r) => Ahead(r)')
    BY <2>1 DEF Disposed, Ahead, Offer, placed, account
  <2>4. next'[web] = i + 1
    BY <1>1, <2>1 DEF TypeOK
  <2>5. \A j \in 1..2 : Visited(j)' <=> (Visited(j) \/ j = i)
    BY <1>2, <2>1, <2>4 DEF Visited
  <2> HIDE DEF s, k
  <2>6. \A j \in 1..2 : IF Visited(j)' THEN Disposed(ALL_TICKERS[j])'
                                       ELSE Ahead(ALL_TICKERS[j])'
    BY <1>2, <2>2, <2>3, <2>5, LoopFacts DEF Selling, s
  <2>7. OneSale'
    BY <2>1 DEF OneSale, account
  <2> QED
    BY <1>2, <2>1, <2>6, <2>7 DEF Selling
<1>6. CASE q # 0
  <2>1. PICK o \in PostOutcomes :
          /\ o[1] * q <= Free(s, "SELL")
          /\ Accept(s, "SELL", q, o[1])
          /\ o[2] # "raised"
          /\ AddLeg(web, s, o[2], q)
          /\ Goto(web, "sell")
          /\ next' = [next EXCEPT ![web] = @ + 1]
          /\ UNCHANGED <<target, snap, seen, polls, qty>>
    <3>1. PlaceOrder(web, s, "SELL", q, "sell")
      BY <1>3, <1>4, <1>6 DEF Sell
    <3>2. ~Forget(web)
      BY <1>1 DEF Forget, TypeOK
    <3> HIDE DEF s
    <3> QED
      BY <3>1, <3>2 DEF PlaceOrder
  <2>2. o[1] * q <= q
    BY <1>3, <2>1, SumOfNone DEF Free
  <2>3. o[1] \in 0..1
    <3>1. o[1] \in 0..3
      BY DEF PostOutcomes
    <3>2. o[1] \notin {2, 3}
      BY <1>3, <1>6, <2>2
    <3> QED
      BY <3>1, <3>2
  <2>4. o[2] \in {"accepted", "rejected"} /\ (o[2] = "accepted" => o[1] = 1)
    BY <2>1, <2>3 DEF PostOutcomes
  <2>5. /\ UNCHANGED held
        /\ book'[k] = IF o[1] = 0 THEN <<>> ELSE <<q>>
        /\ \A m \in Slot : m # k => book'[m] = book[m]
    <3>1. book' = [book EXCEPT ![k] = @ \o [n \in 1..o[1] |-> q]]
      BY <2>1 DEF Accept
    <3>2. o[1] = 0 => [n \in 1..o[1] |-> q] = <<>>
      OBVIOUS
    <3>3. o[1] = 1 => [n \in 1..o[1] |-> q] = <<q>>
      OBVIOUS
    <3>4. <<>> \o <<>> = <<>> /\ <<>> \o <<q>> = <<q>>
      BY <1>3
    <3>5. book'[k] = <<>> \o [n \in 1..o[1] |-> q]
      BY <1>1, <1>2, <1>3, <3>1 DEF AccountTypeOK
    <3>6. book'[k] = IF o[1] = 0 THEN <<>> ELSE <<q>>
      BY <2>3, <3>2, <3>3, <3>4, <3>5
    <3>7. \A m \in Slot : m # k => book'[m] = book[m]
      BY <1>1, <3>1 DEF AccountTypeOK
    <3> QED
      BY <2>1, <3>6, <3>7 DEF Accept
  <2>6. /\ leg'[web][s].state = o[2]
        /\ \A r \in Ticker : r # s => leg'[web][r] = leg[web][r]
        /\ pc'[web] = "sell" /\ next'[web] = i + 1
        /\ UNCHANGED <<target, snap, seen>>
    BY <1>1, <1>2, <2>1 DEF AddLeg, Goto, TypeOK
  <2>7. Disposed(s)'
    <3>1. o[1] = 1 => Offer(k)' = q
      <4> HIDE DEF k
      <4>1. <<q>> # <<>> /\ Head(<<q>>) = q
        BY <1>3
      <4>2. o[1] = 1 => book'[k] = <<q>>
        BY <2>5
      <4> QED
        BY <4>1, <4>2 DEF Offer
    <3>2. held'[s] = q
      BY <1>3, <2>5
    <3>3. leg'[web][s].state = "accepted" \/ leg'[web][s].state = "rejected"
      BY <2>4, <2>6
    <3>4. leg'[web][s].state = "accepted" => Offer(k)' = q
      BY <2>4, <2>6, <3>1
    <3> HIDE DEF s
    <3> QED
      BY <3>2, <3>3, <3>4 DEF Disposed, placed
  <2>8. OneSale'
    <3>1. \A r \in Ticker : <<r, "BUY">> \in Slot /\ <<r, "SELL">> \in Slot
      BY DEF Slot, Side
    <3>2. Len(book'[k]) <= 1
      BY <2>5
    <3> QED
      BY <2>5, <3>1, <3>2 DEF OneSale
  <2> HIDE DEF s
  <2>9. \A r \in Ticker : r # s => /\ Disposed(r) => Disposed(r)'
                                   /\ Ahead(r) => Ahead(r)'
    <3>1. \A r \in Ticker : r # s => book'[<<r, "SELL">>] = book[<<r, "SELL">>]
      BY <2>5 DEF Slot, Side
    <3> QED
      BY <1>2, <2>5, <2>6, <3>1 DEF Disposed, Ahead, Offer, placed
  <2>10. \A j \in 1..2 : Visited(j)' <=> (Visited(j) \/ j = i)
    BY <1>2, <2>6 DEF Visited
  <2>11. \A j \in 1..2 : IF Visited(j)' THEN Disposed(ALL_TICKERS[j])'
                                        ELSE Ahead(ALL_TICKERS[j])'
    <3>1. \A j \in 1..2 : j = i <=> ALL_TICKERS[j] = s
      BY <1>2, LoopFacts DEF s
    <3> QED
      <4>1. \A j \in 1..2 : j # i =>
              IF Visited(j) THEN Disposed(ALL_TICKERS[j])'
                            ELSE Ahead(ALL_TICKERS[j])'
        BY <2>9, <3>1, LoopFacts DEF Selling
      <4>2. Disposed(ALL_TICKERS[i])' /\ Visited(i)'
        BY <1>2, <2>7, <2>10 DEF s
      <4>3. \A j \in 1..2 : j # i => (Visited(j)' <=> Visited(j))
        BY <2>10
      <4> QED
        BY <4>1, <4>2, <4>3
  <2> QED
    BY <1>2, <2>6, <2>8, <2>11 DEF Selling
<1> QED
  BY <1>5, <1>6

\* The reads before the loop are true, and after it there is nothing to buy.
LEMMA ReadsAndEnd ==
  ASSUME SystemTypeInv, "balance" \notin Faults, FreeLegs(web), OneSale, Selling,
         Snapshot(web) \/ OpenOrders(web) \/ SellsDone(web)
  PROVE  OneSale' /\ Selling'
<1>1. TypeOK /\ web \in Proc
  BY LiquidationAssumption DEF SystemTypeInv, CycleTypeInv, TypeInv
<1>2. UNCHANGED <<account, target, leg, next>>
  BY DEF Snapshot, OpenOrders, SellsDone, locals
<1>3. OneSale'
  BY <1>2 DEF OneSale, account
<1>4. \A s \in Ticker : Disposed(s) => Disposed(s)'
  BY <1>2 DEF Disposed, Offer, placed, account
<1>5. CASE Snapshot(web)
  <2>1. pc[web] = "snapshot" /\ pc'[web] = "open_orders"
    BY <1>1, <1>5 DEF Snapshot, Goto, TypeOK
  <2>2. snap'[web] = held
    <3>1. BalanceAnswers = {held} /\ snap[web] = NoBalance
      BY <2>1 DEF BalanceAnswers, Selling
    <3> QED
      BY <1>1, <1>5, <3>1 DEF Snapshot, TypeOK
  <2>3. \A i \in 1..2 : Ahead(ALL_TICKERS[i])'
    BY <1>2, <2>1, <2>2 DEF Selling, Visited, Ahead, account
  <2> QED
    BY <1>2, <1>3, <2>1, <2>3 DEF Selling, Visited
<1>6. CASE OpenOrders(web)
  <2>1. /\ pc[web] = "open_orders" /\ pc'[web] = "sell"
        /\ UNCHANGED snap /\ next[web] = 1
    BY <1>1, <1>6 DEF OpenOrders, Goto, FreeLegs, TypeOK
  <2>2. \A s \in Ticker : book[<<s, "SELL">>] = <<>>
    BY <2>1, LoopFacts DEF Selling, Visited, Ahead
  <2>3. seen'[web] = {}
    <3>1. Working = {}
      <4>1. \A s \in Ticker, d \in Side : book[<<s, d>>] = <<>>
        BY <2>2 DEF Side, OneSale
      <4> QED
        BY <4>1 DEF Working, Slot
    <3>2. \A a \in OpenOrdersAnswers : a = {}
      BY <3>1 DEF OpenOrdersAnswers
    <3> QED
      BY <1>1, <1>6, <3>2 DEF OpenOrders, TypeOK
  <2>4. \A i \in 1..2 : Ahead(ALL_TICKERS[i])' /\ ~Visited(i)'
    BY <1>2, <2>1 DEF Selling, Visited, Ahead, account
  <2> QED
    BY <1>2, <1>3, <2>1, <2>3, <2>4 DEF Selling
<1>7. CASE SellsDone(web)
  <2>1. pc[web] = "sell" /\ next[web] = 3 /\ pc'[web] = "done"
    BY <1>1, <1>7 DEF SellsDone, Selling, Goto, TypeOK
  <2>2. \A i \in 1..2 : Disposed(ALL_TICKERS[i])' /\ Visited(i)'
    BY <1>4, <2>1, LoopFacts DEF Selling, Visited
  <2> QED
    BY <1>2, <1>3, <2>1, <2>2 DEF Selling
<1> QED
  BY <1>5, <1>6, <1>7

\* To the executor of the liquidation the cycle is a stranger.
LEMMA CycleUses ==
  ASSUME CycleTypeInv, [CycleNext]_allvars
  PROVE  Uses(cron) \/ UNCHANGED executor
<1>1. CASE CallExecute
  BY <1>1 DEF CallExecute, Uses, CycleTypeInv, CycleTypeOK
<1>2. CASE RunExecutor \/ Settlement \/ Report \/ Die
  BY <1>2 DEF RunExecutor, Settlement, Report, Die, Uses, vars
<1>3. CASE \/ Trigger \/ Gate \/ Day \/ MarketData \/ Decide \/ Before
           \/ After \/ Record \/ Pause \/ Resume \/ MarketMoves
           \/ UNCHANGED allvars
  BY <1>3 DEF Trigger, Gate, Day, MarketData, Decide, Before, After, Record,
              Pause, Resume, MarketMoves, allvars, vars
<1> QED
  BY <1>1, <1>2, <1>3 DEF CycleNext, RunCycle

LEMMA CycleKeepsWeb ==
  ASSUME CycleTypeInv, [CycleNext]_allvars
  PROVE  KeepsLocals(web)
<1>1. CASE Uses(cron)
  BY <1>1, OthersKeepLocals, CycleAssumption, LiquidationAssumption
     DEF CycleTypeInv
<1>2. CASE UNCHANGED executor
  BY <1>2 DEF executor, locals, KeepsLocals
<1> QED
  BY <1>1, <1>2, CycleUses

LEMMA FreeLegsKept ==
  ASSUME NEW p \in Proc, FreeLegs(p), KeepsLocals(p)
  PROVE  FreeLegs(p)'
BY DEF FreeLegs, KeepsLocals

LEMMA WebLegsStep ==
  ASSUME CycleTypeInv, [CycleNext]_allvars \/ WebStep, FreeLegs(web)
  PROVE  FreeLegs(web)'
<1>1. web \in Proc /\ TypeInv
  BY LiquidationAssumption DEF CycleTypeInv
<1>2. CASE [CycleNext]_allvars
  BY <1>1, <1>2, CycleKeepsWeb, FreeLegsKept
<1>3. CASE WebStep
  BY <1>1, <1>3, FreeLegsExecute DEF WebStep, Uses
<1> QED
  BY <1>2, <1>3

SaleInv == SystemTypeInv /\ FreeLegs(web) /\ QuietInv

LEMMA KeptQuiet ==
  ASSUME QuietInv, quiet, UNCHANGED <<account, stage, answer>>,
         KeepsLocals(web), paused', step' \in {"off", "gate"}
  PROVE  QuietInv'
<1>1. /\ OneSale' <=> OneSale
      /\ AllOffered' <=> AllOffered
      /\ Working' = Working
  BY DEF account, OneSale, AllOffered, Offer, Working
<1>2. Selling' <=> Selling
  <2>1. \A s \in Ticker : (Disposed(s)' <=> Disposed(s)) /\ (Ahead(s)' <=> Ahead(s))
    BY DEF account, KeepsLocals, Disposed, Ahead, Offer, placed
  <2>2. \A i \in 1..2 : Visited(i)' <=> Visited(i)
    BY DEF KeepsLocals, Visited
  <2> QED
    BY <2>1, <2>2, LoopFacts DEF Selling, KeepsLocals
<1> QED
  BY <1>1, <1>2 DEF QuietInv, KeepsLocals

LEMMA WebKeepsQuiet ==
  ASSUME SaleInv, "balance" \notin Faults, quiet',
         EmergencyStop \/ Liquidate
  PROVE  QuietInv'
<1>1. TypeOK /\ AccountTypeOK /\ web \in Proc
  BY LiquidationAssumption
  DEF SaleInv, SystemTypeInv, CycleTypeInv, TypeInv, TypeOK
<1>2. ASSUME Working = {} PROVE \A s \in Ticker, d \in Side : book[<<s, d>>] = <<>>
  BY <1>2 DEF Working, Slot
<1>3. CASE EmergencyStop
  <2>1. /\ Working = {} /\ step \in {"off", "gate"}
        /\ paused' /\ stage' = "stop" /\ UNCHANGED <<account, step>>
    BY <1>3 DEF EmergencyStop, run, vars
  <2>2. OneSale' /\ Working' = {}
    BY <1>2, <2>1 DEF OneSale, Side, Working, account
  <2> QED
    BY <2>1, <2>2 DEF QuietInv
<1>4. CASE CallLiquidator
  <2>1. /\ quiet /\ stage = "stop" /\ stage' = "execute"
        /\ Begin(web, "CASH", NoBalance)
        /\ UNCHANGED <<account, step, paused>>
    BY <1>4 DEF CallLiquidator, Begin, cycle, run
  <2>2. Working = {} /\ OneSale /\ paused /\ step \in {"off", "gate"}
    BY <2>1, <1>4 DEF CallLiquidator, SaleInv, QuietInv
  <2>3. pc'[web] = "snapshot" /\ target'[web] = "CASH" /\ snap'[web] = NoBalance
    BY <1>1, <2>1 DEF Begin, Goto, TypeOK
  <2>4. \A s \in Ticker : Ahead(s)'
    BY <1>2, <2>1, <2>2, <2>3 DEF Ahead, account, Side
  <2>5. Selling'
    BY <2>3, <2>4, LoopFacts DEF Selling, Visited
  <2> QED
    BY <2>1, <2>2, <2>5 DEF QuietInv, OneSale, account
<1>5. CASE RunLiquidator
  <2>1. /\ quiet /\ pc'[web] # "idle" /\ stage = "execute" /\ stage' = "execute"
        /\ Execute(web) /\ UNCHANGED <<step, paused>>
    BY <1>5 DEF RunLiquidator, cycle, run
  <2>2. /\ SystemTypeInv /\ FreeLegs(web) /\ OneSale /\ Selling
        /\ paused /\ step \in {"off", "gate"}
    BY <2>1 DEF SaleInv, QuietInv
  <2>3. CASE Sell(web)
    <3>1. next[web] \in 1..2
      BY <1>1, <2>3 DEF Sell, TypeOK
    <3> QED
      BY <2>1, <2>2, <2>3, <3>1, SellDisposes DEF QuietInv
  <2>4. CASE Snapshot(web) \/ OpenOrders(web) \/ SellsDone(web)
    BY <2>1, <2>2, <2>4, ReadsAndEnd DEF QuietInv
  <2>5. CASE PollSettlement(web) \/ BuyLeg(web) \/ Buy(web)
    BY <2>2, <2>5 DEF PollSettlement, BuyLeg, Buy, Selling
  <2> QED
    BY <2>1, <2>3, <2>4, <2>5 DEF Execute
<1>6. CASE Answer
  <2>1. /\ quiet /\ \A s \in Ticker : leg[web][s].state # "rejected"
        /\ stage = "answer" /\ stage' = "off"
        /\ UNCHANGED <<account, step, paused>>
        /\ answer' = "nothing" => \A s \in Ticker : ~placed(web, s)
    BY <1>6 DEF Answer, Listed, Return, cycle, run
  <2>2. /\ OneSale /\ Selling /\ pc[web] = "done"
        /\ paused /\ step \in {"off", "gate"}
    BY <2>1 DEF SaleInv, QuietInv
  <2>3. \A s \in Ticker : Disposed(s)
    BY <2>2, LoopFacts DEF Selling, Visited
  <2>4. \A s \in Ticker : /\ held[s] = Offer(<<s, "SELL">>)
                          /\ placed(web, s) \/ held[s] = 0
    BY <2>1, <2>3 DEF Disposed
  <2>5. AllOffered'
    <3>1. ASSUME \A s \in Ticker : held[s] = 0 PROVE held = NoPosition
      BY <1>1, <3>1 DEF AccountTypeOK, Position, NoPosition
    <3> QED
      BY <2>1, <2>4, <3>1 DEF AllOffered, Offer, account
  <2> QED
    BY <2>1, <2>2, <2>5 DEF QuietInv, OneSale, account
<1>7. CASE LogSales
  <2>1. /\ quiet /\ stage = "execute" /\ stage' = "answer" /\ pc[web] = "done"
        /\ UNCHANGED <<account, pc, target, snap, seen, leg, next, step, paused>>
    BY <1>7 DEF LogSales, allvars, vars, executor, locals, cycle, run
  <2>2. /\ OneSale' <=> OneSale
        /\ \A s \in Ticker : Disposed(s)' <=> Disposed(s)
        /\ \A s \in Ticker : Ahead(s)' <=> Ahead(s)
        /\ \A i \in 1..2 : Visited(i)' <=> Visited(i)
    BY <2>1 DEF account, OneSale, Disposed, Ahead, Offer, placed, Visited
  <2>3. Selling'
    BY <2>1, <2>2, LoopFacts DEF SaleInv, QuietInv, Selling
  <2> QED
    BY <2>1, <2>2, <2>3 DEF SaleInv, QuietInv
<1> QED
  BY <1>3, <1>4, <1>5, <1>6, <1>7 DEF Liquidate

LEMMA SaleStep ==
  ASSUME "balance" \notin Faults
  PROVE  SaleInv /\ [SystemNext]_systemvars => SaleInv'
<1> SUFFICES ASSUME SaleInv, [SystemNext]_systemvars PROVE SaleInv'
  OBVIOUS
<1>1. SystemTypeInv /\ CycleTypeInv /\ SystemTypeInv' /\ FreeLegs(web) /\ QuietInv
  BY SystemTypeStep DEF SaleInv, SystemTypeInv
<1>2. FreeLegs(web)'
  BY <1>1, SystemStep, WebLegsStep
<1>3. QuietInv'
  <2>1. CASE ~quiet'
    BY <2>1 DEF QuietInv
  <2> SUFFICES ASSUME quiet' PROVE QuietInv'
    BY <2>1
  <2>2. CASE EmergencyStop \/ Liquidate
    BY <2>2, WebKeepsQuiet
  <2>3. CASE Others
    <3>1. /\ quiet /\ paused /\ step \in {"off", "gate"}
          /\ UNCHANGED <<stage, answer>>
      BY <1>1, <2>3 DEF Others, QuietInv
    <3>2. KeepsLocals(web)
      BY <1>1, <2>3, CycleKeepsWeb DEF Others, CycleNext
    <3>3. CASE MarketMoves
      BY <1>1, <2>3, <3>3, MarketKeepsQuiet
    <3>4. CASE Trigger \/ RunCycle \/ Die \/ Pause
      <4>1. /\ UNCHANGED account
            /\ paused' /\ step' \in {"off", "gate"}
        <5>1. CASE Trigger \/ Pause
          BY <3>1, <5>1 DEF Trigger, Pause, vars, run
        <5>2. CASE RunCycle
          <6>1. Gate
            BY <3>1, <5>2 DEF RunCycle, Day, MarketData, Decide, Before,
               CallExecute, RunExecutor, Settlement, After, Record, Report
          <6> QED
            BY <3>1, <6>1 DEF Gate, End, vars
        <5>3. CASE Die
          BY <3>1, <5>3 DEF Die, End, Raise, vars
        <5> QED
          BY <3>4, <5>1, <5>2, <5>3
      <4> QED
        BY <1>1, <3>1, <3>2, <4>1, KeptQuiet
    <3> QED
      BY <2>3, <3>3, <3>4 DEF Others
  <2>4. CASE LiquidatorFails \/ Resumed
    BY <2>4 DEF LiquidatorFails, Resumed
  <2>5. CASE UNCHANGED systemvars
    <3>1. /\ quiet /\ paused' /\ step' \in {"off", "gate"}
          /\ UNCHANGED <<account, stage, answer>> /\ KeepsLocals(web)
      BY <1>1, <2>5 DEF systemvars, liquidation, allvars, cycle, run, vars,
         executor, locals, KeepsLocals, QuietInv
    <3> QED
      BY <1>1, <3>1, KeptQuiet
  <2> QED
    BY <2>2, <2>3, <2>4, <2>5 DEF SystemNext
<1> QED
  BY <1>1, <1>2, <1>3 DEF SaleInv

\* PRD user story 31: when nothing else trades, the answer to an
\* /emergency-stop is true: every share still held is offered for sale, no buy
\* works, and "nothing was held" is said of an empty account only.  Whatever
\* happens to the query of the open orders, to the settlement and to the
\* answers of the order POSTs, as long as the balance is not read as empty.
THEOREM LiquidationCompletes ==
  ASSUME "balance" \notin Faults
  PROVE  SystemSpec => []LiquidationIsComplete
<1>1. LiquidationInit => SaleInv
  <2> SUFFICES ASSUME LiquidationInit PROVE SaleInv
    OBVIOUS
  <2>1. web \in Proc /\ SystemTypeInv
    BY SystemInitTypes, LiquidationAssumption
  <2>2. FreeLegs(web)
    BY <2>1 DEF LiquidationInit, CycleInit, Init, ExecutorInit, NoLeg, FreeLegs
  <2> QED
    BY <2>1, <2>2 DEF LiquidationInit, SaleInv, QuietInv
<1>2. SaleInv => LiquidationIsComplete
  BY AllOfferedIsComplete DEF SaleInv
<1> QED
  BY <1>1, <1>2, SaleStep, PTL DEF SystemSpec

------------------------------------------------------------------------------
(* What a complete report says.  The orders of a run are tracked from its   *)
(* trigger, in the slots where nobody else's order has worked since.        *)

Tracked(k) == k \notin meddled

\* How a step of the cycle treats the marks of others.
Marks ==
  step' # "off" =>
    IF Trigger THEN meddled' = Working ELSE meddled \subseteq meddled'

\* An order of the run offers what has not been filled of it, and every order
\* at work in the slot is the run's.
Counted(k) ==
  /\ Len(book[k]) <= 1
  /\ book[k] # <<>> => k \in accepted
  /\ k \notin accepted => filled[k] = 0
  /\ k \in accepted =>
       /\ k = SlotOf(target[cron], k[1])
       /\ leg[cron][k[1]].state = "accepted"
       /\ filled[k] + Offer(k) <= leg[cron][k[1]].quantity

\* What the report takes for the fill, with the balance after it.
Moved(k, balance) ==
  IF k[2] = "BUY" THEN balance[k[1]] - before[k[1]] ELSE before[k[1]] - balance[k[1]]

CountInv ==
  step # "off" =>
    \A k \in Slot : Tracked(k) =>
      /\ Counted(k)
      /\ step \in {"nav", "execute", "after"} => Moved(k, held) <= filled[k]
      /\ step \in {"record", "report"} => Moved(k, after) <= filled[k]

HonestInv ==
  /\ SystemTypeInv
  /\ LogInv
  /\ target[web] = "CASH"
  /\ CountInv

\* The balance is what it is said to be, and an order is posted once: what the
\* report needs to be right.
Truthful == Faults \cap {"balance", "post_5xx"} = {}

LEMMA SlotFacts ==
  /\ \A k \in Slot : /\ k = <<k[1], k[2]>> /\ k[1] \in Ticker /\ k[2] \in Side
  /\ \A s \in Ticker, d \in Side : /\ <<s, d>> \in Slot
                                   /\ <<s, d>>[1] = s /\ <<s, d>>[2] = d
BY DEF Slot

LEMMA CountTypes ==
  ASSUME CycleTypeInv
  PROVE  /\ AccountTypeOK
         /\ filled \in [Slot -> Nat]
         /\ before \in Position /\ after \in Position /\ held \in Position
         /\ cron \in Proc /\ web \in Proc
         /\ leg[cron] \in [Ticker -> Leg]
BY CycleAssumption, LiquidationAssumption
DEF CycleTypeInv, CycleTypeOK, TypeOK, AccountTypeOK

\* A complete report in these circumstances is an honest one.
LEMMA CompleteIsFilled ==
  ASSUME HonestInv, Report, note' = "complete", NEW k \in PlacedSlots, Tracked(k)
  PROVE  filled[k] = leg[cron][k[1]].quantity
<1>1. /\ step = "report" /\ FullyFilled
      /\ accepted = PlacedSlots /\ accepted \subseteq Slot
  BY DEF Report, End, HonestInv, LogInv, CycleTypeInv, CycleTypeOK
<1>2. /\ filled[k] + Offer(k) <= leg[cron][k[1]].quantity
      /\ Moved(k, after) <= filled[k]
      /\ Len(book[k]) <= 1
  BY <1>1 DEF HonestInv, CountInv, Counted
<1>3. /\ k \in Slot /\ k[1] \in Ticker /\ filled[k] \in Nat
      /\ leg[cron][k[1]].quantity \in Nat
      /\ before[k[1]] \in Nat /\ after[k[1]] \in Nat
  BY <1>1, CountTypes, SlotFacts DEF HonestInv, LogInv, Leg, Position
<1>4. Offer(k) \in Nat
  BY <1>2, <1>3, CountTypes, OfferFacts DEF HonestInv, LogInv
<1>5. LegFilled(k) >= leg[cron][k[1]].quantity
  BY <1>1 DEF FullyFilled
<1> DEFINE q == leg[cron][k[1]].quantity
           m == Moved(k, after)
<1>6. LegFilled(k) = IF m < 0 THEN 0 ELSE IF m > q THEN q ELSE m
  BY DEF LegFilled, Moved
<1>7. m \in Int
  BY <1>3 DEF Moved
<1> HIDE DEF m, q
<1> QED
  BY <1>2, <1>3, <1>4, <1>5, <1>6, <1>7 DEF m, q

\* An order is placed in a slot that was free, and counted from nothing.
LEMMA PlacingCounts ==
  ASSUME HonestInv, Truthful, PlacingStep(cron), step = "execute",
         accepted' = accepted \cup Grown, UNCHANGED filled,
         NEW k \in Slot, Tracked(k)
  PROVE  Counted(k)' /\ held' = held
<1>1. PICK s \in Ticker, q \in Nat \ {0}, o \in PostOutcomes :
        /\ Accept(s, SideOf(target[cron], s), q, o[1])
        /\ UNCHANGED target
        /\ leg[cron][s].state = "none"
        /\ leg'[cron][s] = [state |-> o[2], quantity |-> q]
        /\ placed(cron, s)'
        /\ \A r \in Ticker : r # s => leg'[cron][r] = leg[cron][r]
  BY DEF PlacingStep
<1>2. PICK j \in Slot, d \in Side : j = <<s, d>> /\ d = SideOf(target[cron], s)
  BY DEF Slot, Side, SideOf
<1>3. /\ AccountTypeOK /\ k = <<k[1], k[2]>> /\ k[1] \in Ticker
      /\ filled[k] \in Nat /\ filled'[k] = filled[k] /\ j[1] = s
  BY <1>2, CountTypes, SlotFacts DEF HonestInv, LogInv
<1>4. o[1] \in 0..1 /\ (o[1] = 1 => o[2] = "accepted")
  <2>1. o[2] # "raised"
    BY <1>1 DEF placed
  <2> QED
    BY <2>1 DEF Truthful, PostOutcomes
<1>5. Grown = IF o[1] = 0 THEN {} ELSE {j}
  BY <1>1, <1>2, <1>3, <1>4, AcceptGrows
<1>6. Counted(k)
  BY DEF HonestInv, CountInv
<1>7. /\ UNCHANGED held
      /\ k # j => book'[k] = book[k]
      /\ book' = [book EXCEPT ![j] = @ \o [i \in 1..o[1] |-> q]]
  BY <1>1, <1>2, <1>3 DEF Accept, AccountTypeOK
<1>8. j \notin accepted
  <2>1. \A m \in accepted : leg[cron][m[1]].state # "none"
    BY SlotFacts, PlacedAre DEF HonestInv, LogInv, SlotOf, placed
  <2> QED
    BY <1>1, <1>3, <2>1
<1>9. CASE k = j
  <2>1. book[k] = <<>> /\ filled[k] = 0
    BY <1>6, <1>8, <1>9 DEF Counted
  <2>2. CASE o[1] = 0
    <3>1. book'[k] = <<>>
      <4>1. [i \in 1..o[1] |-> q] = <<>>
        BY <2>2
      <4> QED
        BY <1>3, <1>7, <1>9, <2>1, <4>1 DEF AccountTypeOK
    <3>2. k \notin accepted'
      BY <1>5, <1>8, <1>9, <2>2
    <3>3. Len(book'[k]) <= 1
      BY <3>1
    <3> QED
      BY <1>3, <1>7, <2>1, <3>1, <3>2, <3>3 DEF Counted
  <2>3. CASE o[1] = 1
    <3>1. book'[k] = <<q>>
      <4>1. [i \in 1..o[1] |-> q] = <<q>>
        BY <2>3
      <4>2. book'[k] = <<>> \o <<q>>
        BY <1>3, <1>7, <1>9, <2>1, <4>1 DEF AccountTypeOK
      <4> QED
        BY <4>2
    <3>2. <<q>> # <<>> /\ Head(<<q>>) = q /\ Len(<<q>>) = 1
      OBVIOUS
    <3>3. Offer(k)' = q /\ Len(book'[k]) <= 1
      BY <3>1, <3>2 DEF Offer
    <3>4. /\ leg'[cron][k[1]].state = "accepted"
          /\ leg'[cron][k[1]].quantity = q
      BY <1>1, <1>3, <1>4, <1>9, <2>3
    <3>5. k \in accepted'
      BY <1>5, <1>9, <2>3
    <3>6. (k = SlotOf(target[cron], k[1]))'
      BY <1>1, <1>2, <1>3, <1>9 DEF SlotOf
    <3>7. filled'[k] + Offer(k)' <= leg'[cron][k[1]].quantity
      BY <1>3, <2>1, <3>3, <3>4
    <3> QED
      BY <1>7, <3>3, <3>4, <3>5, <3>6, <3>7 DEF Counted
  <2> QED
    BY <1>4, <1>7, <2>2, <2>3
<1>10. CASE k # j
  <2>1. book'[k] = book[k] /\ (k \in accepted' <=> k \in accepted)
    BY <1>5, <1>7, <1>10
  <2>2. k \in accepted => k[1] # s
    BY <1>2, <1>6, <1>10 DEF Counted, SlotOf
  <2>3. k \in accepted => leg'[cron][k[1]] = leg[cron][k[1]]
    BY <1>1, <1>3, <2>2
  <2> QED
    BY <1>1, <1>6, <1>7, <2>1, <2>3 DEF Counted, Offer
<1> QED
  BY <1>7, <1>9, <1>10

LEMMA RunExecutorCounts ==
  ASSUME HonestInv, Truthful, RunExecutor,
         step' # "off" => meddled \subseteq meddled'
  PROVE  CountInv'
<1>1. /\ TypeInv /\ FreeLegs(cron) /\ cron \in Proc /\ Execute(cron)
      /\ step = "execute" /\ UNCHANGED filled
      /\ accepted' = accepted \cup Grown
  BY CycleAssumption DEF HonestInv, LogInv, CycleTypeInv, RunExecutor, Grown
<1>2. CASE pc'[cron] = "idle"
  BY <1>2 DEF RunExecutor, End, CountInv
<1>3. CASE pc'[cron] # "idle"
  <2>1. UNCHANGED <<step, before, after>>
    BY <1>3 DEF RunExecutor, run
  <2> SUFFICES ASSUME NEW k \in Slot, Tracked(k)
               PROVE  Counted(k)' /\ Moved(k, held)' <= filled'[k]
    BY <1>1, <2>1 DEF CountInv, Tracked
  <2>2. Counted(k) /\ Moved(k, held) <= filled[k]
    BY <1>1 DEF HonestInv, CountInv
  <2>3. CASE PlacingStep(cron)
    BY <1>1, <2>1, <2>2, <2>3, PlacingCounts DEF Moved
  <2>4. CASE QuietStep(cron)
    <3>1. UNCHANGED <<held, book, target>> /\ Grown = {}
      <4>1. \A m \in Slot : Len(book[m]) \in Nat
        BY <1>1 DEF TypeInv, TypeOK, AccountTypeOK
      <4> QED
        BY <2>4, <4>1 DEF QuietStep, account, Grown
    <3>2. k \in accepted => leg'[cron][k[1]] = leg[cron][k[1]]
      BY <2>2, <2>4, SlotFacts DEF QuietStep, placed, Counted
    <3> QED
      BY <1>1, <2>1, <2>2, <3>1, <3>2 DEF Counted, Offer, Moved
  <2> QED
    BY <1>1, <1>3, <2>3, <2>4, ExecuteLegs
<1> QED
  BY <1>2, <1>3

\* A fill of an order of the run is counted once, and moves its balance by one.
LEMMA FillCounts ==
  ASSUME HonestInv, MarketMoves, NEW s \in Ticker, NEW d \in Side, Fill(s, d),
         step # "off", NEW k \in Slot, Tracked(k)
  PROVE  /\ Counted(k)'
         /\ Moved(k, held) <= filled[k] => Moved(k, held)' <= filled'[k]
<1>1. /\ AccountTypeOK /\ filled[k] \in Nat
      /\ k = <<k[1], k[2]>> /\ k[1] \in Ticker /\ k[2] \in Side
      /\ before[k[1]] \in Nat /\ held[k[1]] \in Nat
      /\ leg[cron][k[1]].quantity \in Nat
      /\ s # k[1] \/ d # k[2] => <<s, d>> # k
  BY CountTypes, SlotFacts DEF HonestInv, LogInv, Position, Leg
<1>2. Counted(k) /\ UNCHANGED <<leg, target, accepted, before>>
  BY DEF HonestInv, CountInv, MarketMoves, executor, locals, run
<1>3. filled'[k] = IF step # "off" /\ k \in accepted /\ held'[k[1]] = held[k[1]] +
                         (IF k[2] = "BUY" THEN 1 ELSE -1)
                     THEN filled[k] + 1 ELSE filled[k]
  BY DEF MarketMoves
<1>4. /\ held'[s] = IF d = "BUY" THEN held[s] + 1 ELSE held[s] - 1
      /\ \A r \in Ticker : r # s => held'[r] = held[r]
      /\ \A m \in Slot : m # <<s, d>> => book'[m] = book[m]
  BY <1>1, FillMoves
<1>5. (k = SlotOf(target[cron], k[1]))' <=> k = SlotOf(target[cron], k[1])
  BY <1>2 DEF SlotOf, SideOf
<1>6. CASE k = <<s, d>>
  <2>1. k[1] = s /\ k[2] = d
    BY <1>1, <1>6
  <2>2. book[k] # <<>> /\ k \in accepted
    BY <1>1, <1>2, <1>6, FillMoves DEF Counted
  <2>3. filled'[k] = filled[k] + 1
    BY <1>1, <1>3, <1>4, <2>1, <2>2 DEF Side
  <2>4. Len(book'[k]) <= 1 /\ Offer(k)' = Offer(k) - 1 /\ Offer(k) \in Nat
    BY <1>1, <1>2, <1>6, FillOffers, OfferFacts DEF Counted
  <2>5. filled'[k] + Offer(k)' <= leg'[cron][k[1]].quantity
    BY <1>1, <1>2, <2>2, <2>3, <2>4 DEF Counted
  <2>6. Counted(k)'
    BY <1>2, <1>5, <2>2, <2>4, <2>5 DEF Counted
  <2>7. Moved(k, held)' = Moved(k, held) + 1 /\ Moved(k, held) \in Int
    BY <1>1, <1>2, <1>4, <2>1 DEF Moved, Side
  <2> QED
    BY <1>1, <2>3, <2>6, <2>7
<1>7. CASE k # <<s, d>>
  <2>1. book'[k] = book[k]
    BY <1>4, <1>7
  <2>2. filled'[k] = filled[k]
    <3>1. CASE k[1] # s
      BY <1>1, <1>3, <1>4, <3>1
    <3>2. CASE k[1] = s /\ k[2] # d
      BY <1>1, <1>3, <1>4, <3>2 DEF Side
    <3> QED
      BY <1>1, <1>7, <3>1, <3>2
  <2>3. Counted(k)'
    BY <1>2, <1>5, <2>1, <2>2 DEF Counted, Offer
  <2>4. Moved(k, held)' <= Moved(k, held) /\ Moved(k, held)' \in Int
        /\ Moved(k, held) \in Int
    <3>1. CASE k[1] # s
      BY <1>1, <1>2, <1>4, <3>1 DEF Moved
    <3>2. CASE k[1] = s /\ k[2] # d
      BY <1>1, <1>2, <1>4, <3>2 DEF Moved, Side
    <3> QED
      BY <1>1, <1>7, <3>1, <3>2
  <2> QED
    BY <1>1, <2>2, <2>3, <2>4
<1> QED
  BY <1>6, <1>7

LEMMA MarketCounts ==
  ASSUME HonestInv, MarketMoves,
         step' # "off" => meddled \subseteq meddled'
  PROVE  CountInv'
<1>1. UNCHANGED <<leg, target, accepted, step, before, after>>
  BY DEF MarketMoves, executor, locals, run
<1> SUFFICES ASSUME step # "off", NEW k \in Slot, Tracked(k)
             PROVE  /\ Counted(k)'
                    /\ Moved(k, held) <= filled[k] => Moved(k, held)' <= filled'[k]
                    /\ filled[k] <= filled'[k]
  <2>1. \A k \in Slot : filled[k] \in Nat /\ filled'[k] \in Int
    BY CountTypes DEF HonestInv, LogInv, MarketMoves
  <2>2. \A k \in Slot : Moved(k, after) \in Int
    BY CountTypes, SlotFacts DEF HonestInv, LogInv, Position, Moved
  <2> QED
    BY <1>1, <2>1, <2>2 DEF HonestInv, CountInv, Tracked, Moved
<1>2. /\ AccountTypeOK /\ filled[k] \in Nat /\ Counted(k)
      /\ k[1] \in Ticker /\ held[k[1]] \in Nat
      /\ leg[cron][k[1]].quantity \in Nat
  BY CountTypes, SlotFacts DEF HonestInv, LogInv, CountInv, Position, Leg
<1>3. filled'[k] = IF step # "off" /\ k \in accepted /\ held'[k[1]] = held[k[1]] +
                         (IF k[2] = "BUY" THEN 1 ELSE -1)
                     THEN filled[k] + 1 ELSE filled[k]
  BY DEF MarketMoves
<1>4. filled[k] <= filled'[k]
  BY <1>2, <1>3
<1>5. (k = SlotOf(target[cron], k[1]))' <=> k = SlotOf(target[cron], k[1])
  BY <1>1 DEF SlotOf, SideOf
<1>6. CASE \E s \in Ticker, d \in Side : Fill(s, d)
  BY <1>4, <1>6, FillCounts
<1>7. CASE Settle
  <2>1. UNCHANGED <<held, book>>
    BY <1>7 DEF Settle
  <2>2. filled'[k] = filled[k]
    BY <1>2, <1>3, <2>1
  <2> QED
    BY <1>1, <1>2, <1>4, <1>5, <2>1, <2>2 DEF Counted, Offer, Moved
<1>8. CASE \E s \in Ticker, d \in Side : Expire(s, d)
  <2>1. PICK j \in Slot : UNCHANGED held /\ book' = [book EXCEPT ![j] = Tail(@)]
                          /\ book[j] # <<>>
    BY <1>8 DEF Expire, Slot
  <2>2. filled'[k] = filled[k]
    BY <1>2, <1>3, <2>1
  <2>3. book'[k] = book[k] \/ (book'[k] = <<>> /\ book[k] # <<>>)
    <3>1. CASE k = j
      <4>1. book[k] = <<Offer(k)>> /\ Offer(k) \in Nat
        BY <1>2, <2>1, <3>1, OfferFacts DEF Counted
      <4>2. Tail(book[k]) = <<>>
        BY <4>1
      <4> QED
        BY <1>2, <2>1, <3>1, <4>2 DEF AccountTypeOK
    <3>2. CASE k # j
      BY <1>2, <2>1, <3>2 DEF AccountTypeOK
    <3> QED
      BY <3>1, <3>2
  <2>4. /\ Len(book'[k]) <= 1
        /\ book'[k] # <<>> => book[k] # <<>>
        /\ Offer(k) \in Nat /\ Offer(k)' \in Nat /\ Offer(k)' <= Offer(k)
    BY <1>2, <2>3, OfferFacts DEF Counted, Offer
  <2>5. Counted(k)'
    BY <1>1, <1>2, <1>5, <2>2, <2>4 DEF Counted
  <2> QED
    BY <1>1, <1>4, <2>1, <2>2, <2>5 DEF Moved
<1> QED
  BY <1>6, <1>7, <1>8 DEF MarketMoves, Market

\* Steps that leave the counted state alone.
LEMMA CountKept ==
  ASSUME CountInv, UNCHANGED <<held, book, accepted, filled, before, after, step>>,
         step # "off" => meddled \subseteq meddled',
         target'[cron] = target[cron], leg'[cron] = leg[cron]
  PROVE  CountInv'
<1>1. \A k \in Slot : /\ Counted(k)' <=> Counted(k)
                      /\ step # "off" /\ Tracked(k)' => Tracked(k)
                      /\ Moved(k, held)' = Moved(k, held)
                      /\ Moved(k, after)' = Moved(k, after)
  BY DEF Counted, Tracked, Moved, Offer, SlotOf, SideOf
<1> QED
  BY <1>1 DEF CountInv

\* The steps of run_cycle around its executor.
LEMMA CycleCounts ==
  ASSUME HonestInv, Truthful, [CycleNext]_allvars,
         Marks
  PROVE  CountInv'
<1>1. /\ CountInv /\ AccountTypeOK /\ cron \in Proc
      /\ \A k \in Slot : filled[k] \in Nat
      /\ \A k \in Slot : held[k[1]] \in Nat
      /\ BalanceAnswers = {held}
  BY CountTypes, SlotFacts
  DEF HonestInv, LogInv, Position, Truthful, BalanceAnswers
<1>2. CASE Trigger
  <2>1. /\ \A k \in Slot : filled'[k] = 0
        /\ accepted' = {} /\ step' = "gate" /\ UNCHANGED book
    BY <1>2 DEF Trigger, vars, account
  <2>2. meddled' = Working
    BY <1>2, <2>1 DEF Marks
  <2>3. \A k \in Slot : Tracked(k)' => book'[k] = <<>>
    BY <2>1, <2>2 DEF Tracked, Working
  <2> QED
    BY <2>1, <2>3 DEF CountInv, Counted
<1>3. ASSUME step' = "off" PROVE CountInv'
  BY <1>3 DEF CountInv
<1>4. CASE \/ Gate \/ Day \/ MarketData \/ Decide \/ Before \/ After \/ Record
  <2>1. CASE step' = "off"
    BY <1>3, <2>1
  <2>2. CASE step' # "off"
    <3>1. /\ UNCHANGED <<held, book, target, leg, accepted, filled>>
          /\ step # "off" /\ ~Trigger
      BY <1>4, <2>2 DEF Gate, Day, MarketData, Decide, Before, After, Record,
         End, Proceed, Trigger, ghosts, vars, account, executor, locals
    <3>2. \A k \in Slot : /\ Counted(k)' <=> Counted(k)
                          /\ Tracked(k)' => Tracked(k)
      BY <2>2, <3>1 DEF Marks, Counted, Tracked, Offer, SlotOf, SideOf
    <3>3. CASE Before
      <4>1. before' = held /\ step' = "nav"
        BY <1>1, <2>2, <3>3 DEF Before, End, Proceed
      <4>2. \A k \in Slot : Moved(k, held)' = 0 /\ filled'[k] \in Nat
        BY <1>1, <3>1, <4>1 DEF Moved
      <4> QED
        BY <1>1, <3>1, <3>2, <4>1, <4>2 DEF CountInv
    <3>4. CASE After
      <4>1. after' = held /\ step = "after" /\ step' = "record" /\ UNCHANGED before
        BY <1>1, <3>4 DEF After, Proceed
      <4>2. \A k \in Slot : Moved(k, after)' = Moved(k, held)
        BY <4>1 DEF Moved
      <4> QED
        BY <1>1, <3>1, <3>2, <4>1, <4>2 DEF CountInv
    <3>5. CASE Record
      <4>1. step = "record" /\ step' = "report" /\ UNCHANGED <<before, after>>
        BY <3>5 DEF Record, Proceed
      <4>2. \A k \in Slot : Moved(k, after)' = Moved(k, after)
        BY <4>1 DEF Moved
      <4> QED
        BY <1>1, <3>1, <3>2, <4>1, <4>2 DEF CountInv
    <3>6. CASE Gate \/ Day \/ MarketData \/ Decide
      <4>1. step' \in {"day", "market", "decide", "before"}
        BY <2>2, <3>6 DEF Gate, Day, MarketData, Decide, End, Proceed
      <4> QED
        BY <1>1, <3>1, <3>2, <4>1 DEF CountInv
    <3> QED
      BY <1>4, <3>3, <3>4, <3>5, <3>6
  <2> QED
    BY <2>1, <2>2
<1>5. CASE CallExecute
  <2>1. /\ step = "nav" /\ step' = "execute" /\ accepted = {} /\ ~Trigger
        /\ UNCHANGED <<held, book, leg, before, accepted, filled>>
    BY <1>5 DEF CallExecute, Begin, Proceed, Trigger, account, ghosts,
                HonestInv, LogInv
  <2>2. \A k \in Slot : /\ Tracked(k)' => Tracked(k)
                        /\ Counted(k) => Counted(k)'
                        /\ Moved(k, held)' = Moved(k, held)
    BY <2>1 DEF Marks, Counted, Tracked, Moved
  <2> QED
    BY <1>1, <2>1, <2>2 DEF CountInv
<1>6. CASE Settlement
  <2>1. CASE step' = "off"
    BY <1>3, <2>1
  <2>2. CASE step' # "off"
    <3>1. /\ step = "execute" /\ step' = "after" /\ ~Trigger
          /\ UNCHANGED <<held, book, target, leg, before, accepted, filled>>
      BY <1>6, <2>2 DEF Settlement, Proceed, End, Trigger, vars, account,
         executor, locals, ghosts
    <3>2. \A k \in Slot : /\ Tracked(k)' => Tracked(k)
                          /\ Counted(k)' <=> Counted(k)
                          /\ Moved(k, held)' = Moved(k, held)
      BY <2>2, <3>1 DEF Marks, Counted, Tracked, Moved, Offer, SlotOf, SideOf
    <3> QED
      BY <1>1, <3>1, <3>2 DEF CountInv
  <2> QED
    BY <2>1, <2>2
<1>7. CASE Report \/ Die
  BY <1>3, <1>7 DEF Report, Die, End
<1>8. CASE Pause \/ Resume \/ UNCHANGED allvars
  <2>1. /\ UNCHANGED <<held, book, accepted, filled, before, after, step>>
        /\ UNCHANGED <<target, leg>>
    BY <1>8 DEF Pause, Resume, allvars, cycle, run, ghosts, vars, account,
       executor, locals
  <2>2. ~Trigger
    BY <2>1 DEF Trigger
  <2> QED
    BY <1>1, <2>1, <2>2, CountKept DEF Marks
<1>9. CASE RunExecutor \/ MarketMoves
  <2>1. ~Trigger
    BY <1>9 DEF RunExecutor, MarketMoves, run, Trigger
  <2> QED
    BY <1>9, <2>1, RunExecutorCounts, MarketCounts DEF Marks
<1> QED
  BY <1>2, <1>4, <1>5, <1>6, <1>7, <1>8, <1>9 DEF CycleNext, RunCycle

\* An executor places orders: only the market fills them.
LEMMA OrdersFillLater ==
  ASSUME NEW p \in Proc, Uses(p)
  PROVE  UNCHANGED held
<1>1. ASSUME NEW s, NEW d, NEW q, NEW to, PlaceOrder(p, s, d, q, to)
      PROVE  UNCHANGED held
  BY <1>1 DEF PlaceOrder, Accept
<1>2. CASE Sell(p) \/ Buy(p)
  BY <1>1, <1>2 DEF Sell, Buy, account
<1>3. CASE ~Sell(p) /\ ~Buy(p)
  BY <1>3 DEF Uses, Execute, Begin, Snapshot, OpenOrders, SellsDone, BuyLeg,
              PollSettlement, Return, Raise, account
<1> QED
  BY <1>2, <1>3

LEMMA WebTargets ==
  ASSUME TypeInv, target[web] = "CASH",
         Begin(web, "CASH", NoBalance) \/ Execute(web) \/ Return(web) \/ Raise(web)
  PROVE  target'[web] = "CASH"
<1>1. target \in [Proc -> Target] /\ web \in Proc
  BY LiquidationAssumption DEF TypeInv, TypeOK
<1>2. Forget(web) => target'[web] = "CASH"
  BY <1>1 DEF Forget
<1>3. CASE Begin(web, "CASH", NoBalance)
  BY <1>1, <1>3 DEF Begin
<1>4. CASE Return(web) \/ Raise(web)
  BY <1>2, <1>4 DEF Return, Raise
<1>5. CASE Execute(web)
  BY <1>2, <1>5 DEF Execute, Snapshot, OpenOrders, Sell, SellsDone,
     PollSettlement, BuyLeg, Buy, PlaceOrder, locals
<1> QED
  BY <1>3, <1>4, <1>5

\* Every step is the cycle's, or the liquidation's and told apart from it.
LEMMA StepsApart ==
  ASSUME CycleTypeInv, target[web] = "CASH", [SystemNext]_systemvars
  PROVE  /\ \/ [CycleNext]_allvars /\ Marks
            \/ /\ WebStep
               /\ meddled \subseteq meddled'
               /\ step # "off" =>
                    \A k \in Slot : book'[k] = book[k] \/ k \in meddled'
         /\ target'[web] = "CASH"
<1>1. TypeInv
  BY DEF CycleTypeInv
<1>2. CASE EmergencyStop
  <2>1. [CycleNext]_allvars
    <3>1. CASE paused
      BY <1>2, <3>1 DEF EmergencyStop, allvars, cycle, CycleTypeInv, CycleTypeOK
    <3>2. CASE ~paused
      BY <1>2, <3>2 DEF EmergencyStop, Pause, CycleNext
    <3> QED
      BY <3>1, <3>2
  <2> QED
    BY <1>2, <2>1 DEF EmergencyStop, Marks, Trigger, run, vars, executor, locals
<1>3. CASE CallLiquidator
  <2>1. WebStep
    BY <1>3 DEF CallLiquidator, WebStep, Uses, Target
  <2> QED
    BY <1>1, <1>3, <2>1, WebTargets DEF CallLiquidator, Begin, account
<1>4. CASE RunLiquidator
  <2>1. WebStep /\ target'[web] = "CASH"
    BY <1>1, <1>4, WebTargets DEF RunLiquidator, WebStep, Uses
  <2> QED
    BY <1>4, <2>1 DEF RunLiquidator
<1>5. CASE Answer
  <2>1. WebStep /\ target'[web] = "CASH"
    BY <1>1, <1>5, WebTargets DEF Answer, WebStep, Uses
  <2> QED
    BY <1>5, <2>1 DEF Answer, Return, account
<1>6. CASE LiquidatorFails
  <2>1. CASE UNCHANGED vars
    BY <1>6, <2>1
    DEF LiquidatorFails, Marks, Trigger, allvars, cycle, run, vars, executor, locals
  <2>2. CASE Raise(web)
    <3>1. WebStep /\ target'[web] = "CASH"
      BY <1>1, <1>6, <2>2, WebTargets DEF LiquidatorFails, WebStep, Uses
    <3> QED
      BY <1>6, <2>2, <3>1 DEF LiquidatorFails, Raise, account
  <2> QED
    BY <1>6, <2>1, <2>2 DEF LiquidatorFails
<1>7. CASE Others \/ Resumed
  <2>1. [CycleNext]_allvars /\ Marks
    <3>1. [CycleNext]_allvars
      BY <1>7 DEF Others, Resumed, CycleNext
    <3>2. CASE Others
      BY <3>1, <3>2 DEF Others, Marks
    <3>3. CASE Resumed
      BY <3>1, <3>3 DEF Resumed, Resume, run, Trigger, Marks
    <3> QED
      BY <1>7, <3>1, <3>2, <3>3
  <2>2. target'[web] = target[web]
    BY <2>1, CycleKeepsWeb DEF KeepsLocals
  <2> QED
    BY <2>1, <2>2
<1>8. CASE UNCHANGED systemvars \/ LogSales
  <2>1. UNCHANGED allvars /\ UNCHANGED meddled
    BY <1>8 DEF systemvars, LogSales, liquidation
  <2> QED
    BY <2>1 DEF Marks, Trigger, allvars, cycle, run, vars, executor, locals
<1> QED
  BY <1>2, <1>3, <1>4, <1>5, <1>6, <1>7, <1>8 DEF SystemNext, Liquidate

LEMMA WebCounts ==
  ASSUME HonestInv, WebStep, meddled \subseteq meddled',
         step # "off" => \A k \in Slot : book'[k] = book[k] \/ k \in meddled'
  PROVE  CountInv'
<1>1. /\ TypeInv /\ target[web] = "CASH" /\ CountInv
      /\ UNCHANGED <<accepted, filled, before, after, step>>
  BY DEF HonestInv, LogInv, CycleTypeInv, WebStep, cycle, run, ghosts
<1>2. target'[cron] = target[cron] /\ leg'[cron] = leg[cron]
  BY <1>1, OthersKeepLocals, LiquidationAssumption, CycleAssumption
     DEF WebStep, KeepsLocals
<1>3. UNCHANGED held
  BY OrdersFillLater, LiquidationAssumption DEF WebStep
<1>4. step # "off" =>
        \A k \in Slot : Tracked(k)' => book'[k] = book[k] /\ Tracked(k)
  BY DEF Tracked
<1>5. \A k \in Slot : book'[k] = book[k] =>
        /\ Counted(k)' <=> Counted(k)
        /\ Moved(k, held)' = Moved(k, held)
        /\ Moved(k, after)' = Moved(k, after)
  BY <1>1, <1>2, <1>3 DEF Counted, Moved, Offer, SlotOf, SideOf
<1> QED
  BY <1>1, <1>4, <1>5 DEF CountInv

LEMMA HonestStep ==
  ASSUME Truthful
  PROVE  HonestInv /\ [SystemNext]_systemvars => HonestInv'
<1> SUFFICES ASSUME HonestInv, [SystemNext]_systemvars PROVE HonestInv'
  OBVIOUS
<1>1. SystemTypeInv' /\ LogInv'
  BY SystemTypeStep, SystemLogs DEF HonestInv
<1>2. CycleTypeInv /\ target[web] = "CASH"
  BY DEF HonestInv, SystemTypeInv
<1>3. CountInv' /\ target'[web] = "CASH"
  BY <1>2, StepsApart, CycleCounts, WebCounts
<1> QED
  BY <1>1, <1>3 DEF HonestInv

\* strategy_cycle._format_report: a report of a complete switch comes after
\* every share of the run's orders is filled, whatever the market, the user and
\* an /emergency-stop do meanwhile, and whatever works when the run starts.  Left
\* out are the slots where others' orders worked beside it.
THEOREM CompleteReportsAreHonest ==
  ASSUME Truthful
  PROVE  SystemSpec => CompleteReportIsHonest
<1>1. LiquidationInit => HonestInv
  <2> SUFFICES ASSUME LiquidationInit PROVE HonestInv
    OBVIOUS
  <2>1. web \in Proc /\ SystemTypeInv /\ LogInv
    BY SystemInitTypes, SystemLogs, LiquidationAssumption
  <2>2. target[web] = "CASH"
    BY <2>1 DEF LiquidationInit, CycleInit, Init, ExecutorInit
  <2> QED
    BY <2>1, <2>2 DEF LiquidationInit, CycleInit, HonestInv, CountInv
<1> DEFINE Honest == Report /\ note' = "complete" =>
                       \A k \in PlacedSlots \ meddled :
                         filled[k] = leg[cron][k[1]].quantity
<1>2. HonestInv => Honest
  BY CompleteIsFilled DEF Tracked
<1>3. HonestInv /\ [SystemNext]_systemvars => [Honest]_systemvars
  BY <1>2
<1>4. SystemSpec => [][Honest]_systemvars
  <2> HIDE DEF Honest
  <2> QED
    BY <1>1, <1>3, HonestStep, PTL DEF SystemSpec
<1> QED
  BY <1>4 DEF CompleteReportIsHonest

------------------------------------------------------------------------------
(* What a liquidation writes to the trade log.  Its orders that the broker  *)
(* took are legs it has placed, and its legs taken for accepted are such.   *)

AcceptedSales == {s \in Ticker : leg[web][s].state = "accepted"}

StopLogInv ==
  /\ SystemTypeInv /\ FreeLegs(web) /\ target[web] = "CASH"
  /\ stage = "stop" => taken = {}
  /\ stage \in {"execute", "answer"} =>
       AcceptedSales \subseteq taken /\ taken \subseteq Listed
  /\ stage = "answer" => rows = Listed
  /\ AnsweredSalesAreLogged

LEMMA RunLiquidatorLogs ==
  ASSUME StopLogInv, RunLiquidator, stage' # "off"
  PROVE  AcceptedSales' \subseteq taken' /\ taken' \subseteq Listed'
<1>1. /\ web \in Proc /\ TypeInv /\ FreeLegs(web) /\ target[web] = "CASH"
      /\ Execute(web) /\ pc'[web] # "idle"
      /\ AcceptedSales \subseteq taken /\ taken \subseteq Listed
  BY LiquidationAssumption
     DEF StopLogInv, SystemTypeInv, CycleTypeInv, RunLiquidator
<1>2. /\ taken' = taken \cup {s \in Ticker : <<s, "SELL">> \in Grown}
      /\ \A s \in Ticker : SlotOf("CASH", s) = <<s, "SELL">>
  BY SymbolFacts DEF RunLiquidator, Grown, Slot, Side, SlotOf, SideOf, Ticker
<1>3. CASE QuietStep(web)
  <2>1. Grown = {}
    <3>1. \A k \in Slot : Len(book[k]) \in Nat
      BY <1>1 DEF TypeInv, TypeOK, AccountTypeOK
    <3> QED
      BY <1>3, <3>1 DEF QuietStep, Grown, account
  <2>2. AcceptedSales' = AcceptedSales /\ Listed' = Listed
    BY <1>3 DEF QuietStep, AcceptedSales, Listed
  <2> QED
    BY <1>1, <1>2, <2>1, <2>2
<1>4. CASE PlacingStep(web)
  <2>1. PICK s \in Ticker :
          /\ Grown \subseteq {<<s, "SELL">>}
          /\ leg[web][s].state = "none"
          /\ placed(web, s)'
          /\ leg'[web][s].state = "accepted" => <<s, "SELL">> \in Grown
          /\ \A r \in Ticker : r # s => leg'[web][r] = leg[web][r]
    BY <1>1, <1>2, <1>4 DEF PlacingStep
  <2>2. \A r \in Ticker : placed(web, r) => placed(web, r)'
    BY <2>1 DEF placed
  <2> QED
    BY <1>1, <1>2, <2>1, <2>2 DEF AcceptedSales, Listed
<1> QED
  BY <1>1, <1>3, <1>4, ExecuteLegs

LEMMA StopLogStep == StopLogInv /\ [SystemNext]_systemvars => StopLogInv'
<1> SUFFICES ASSUME StopLogInv, [SystemNext]_systemvars PROVE StopLogInv'
  OBVIOUS
<1>1. /\ SystemTypeInv /\ CycleTypeInv /\ SystemTypeInv' /\ CycleTypeInv'
      /\ FreeLegs(web) /\ target[web] = "CASH"
  BY SystemTypeStep DEF StopLogInv, SystemTypeInv
<1>2. FreeLegs(web)' /\ target'[web] = "CASH"
  BY <1>1, SystemStep, WebLegsStep, StepsApart
<1> DEFINE Rest ==
       /\ stage = "stop" => taken = {}
       /\ stage \in {"execute", "answer"} =>
            AcceptedSales \subseteq taken /\ taken \subseteq Listed
       /\ stage = "answer" => rows = Listed
       /\ AnsweredSalesAreLogged
<1>3. Rest
  BY DEF StopLogInv
<1> SUFFICES Rest'
  BY <1>1, <1>2 DEF StopLogInv
<1>4. CASE EmergencyStop
  BY <1>4 DEF EmergencyStop, AnsweredSalesAreLogged
<1>5. CASE CallLiquidator
  <2>1. /\ stage = "stop" /\ stage' = "execute" /\ UNCHANGED taken
        /\ pc'[web] = "snapshot"
    BY <1>1, <1>5, LiquidationAssumption
       DEF CallLiquidator, Begin, Goto, CycleTypeInv, TypeInv, TypeOK
  <2>2. AcceptedSales' = {}
    BY <1>2, <2>1 DEF FreeLegs, AcceptedSales
  <2> QED
    BY <1>3, <2>1, <2>2 DEF AnsweredSalesAreLogged
<1>6. CASE RunLiquidator
  <2>1. CASE stage' = "off"
    <3>1. answer' = "error"
      BY <1>6, <2>1 DEF RunLiquidator
    <3> QED
      BY <2>1, <3>1 DEF AnsweredSalesAreLogged
  <2>2. CASE stage' # "off"
    <3>1. stage' = "execute"
      BY <1>6, <2>2 DEF RunLiquidator
    <3> QED
      BY <1>6, <2>2, <3>1, RunLiquidatorLogs DEF AnsweredSalesAreLogged
  <2> QED
    BY <2>1, <2>2
<1>7. CASE LogSales
  <2>1. AcceptedSales' = AcceptedSales /\ Listed' = Listed
    BY <1>7 DEF LogSales, allvars, vars, executor, locals, AcceptedSales, Listed, placed
  <2> QED
    BY <1>3, <1>7, <2>1 DEF LogSales, AnsweredSalesAreLogged
<1>8. CASE Answer
  <2>1. /\ stage' = "off" /\ UNCHANGED <<rows, taken>>
        /\ taken \subseteq rows /\ rows = Listed /\ AcceptedSales \subseteq taken
        /\ answer' = "sold" <=> rows # {}
        /\ quiet' => \A s \in Ticker : leg[web][s].state # "rejected"
    BY <1>3, <1>8 DEF Answer
  <2>2. quiet' => rows \subseteq AcceptedSales
    BY <2>1 DEF Listed, AcceptedSales, placed
  <2> QED
    BY <2>1, <2>2 DEF AnsweredSalesAreLogged
<1>9. CASE LiquidatorFails
  BY <1>9 DEF LiquidatorFails, AnsweredSalesAreLogged
<1>10. CASE Others \/ Resumed \/ UNCHANGED systemvars
  <2>1. KeepsLocals(web)
    <3>1. [CycleNext]_allvars
      BY <1>10 DEF Others, Resumed, CycleNext, systemvars
    <3> QED
      BY <1>1, <3>1, CycleKeepsWeb
  <2>2. AcceptedSales' = AcceptedSales /\ Listed' = Listed
    BY <2>1 DEF KeepsLocals, AcceptedSales, Listed, placed
  <2>3. UNCHANGED <<stage, answer, rows, taken>>
    BY <1>10 DEF Others, Resumed, systemvars, liquidation
  <2>4. quiet' => quiet
    <3>1. CASE Others
      <4>1. quiet' = (quiet /\ ~Expiry)
        BY <3>1 DEF Others
      <4> QED
        BY <4>1, Zenon
    <3>2. CASE Resumed \/ UNCHANGED systemvars
      BY <3>2 DEF Resumed, systemvars, liquidation
    <3> QED
      BY <1>10, <3>1, <3>2
  <2> QED
    BY <1>3, <2>2, <2>3, <2>4 DEF AnsweredSalesAreLogged
<1> QED
  BY <1>4, <1>5, <1>6, <1>7, <1>8, <1>9, <1>10 DEF SystemNext, Liquidate

\* record_trade after an /emergency-stop: whatever the market, the cycle and the
\* user do meanwhile, an answered liquidation has a row for each of its orders
\* that the broker took, and the answer lists sales just when the log does.
THEOREM LiquidationIsLogged == SystemSpec => []AnsweredSalesAreLogged
<1>1. LiquidationInit => StopLogInv
  <2> SUFFICES ASSUME LiquidationInit PROVE StopLogInv
    OBVIOUS
  <2>1. web \in Proc /\ SystemTypeInv
    BY SystemInitTypes, LiquidationAssumption
  <2>2. FreeLegs(web) /\ target[web] = "CASH"
    BY <2>1 DEF LiquidationInit, CycleInit, Init, ExecutorInit, NoLeg, FreeLegs
  <2> QED
    BY <2>1, <2>2 DEF LiquidationInit, StopLogInv, AnsweredSalesAreLogged
<1>2. StopLogInv => AnsweredSalesAreLogged
  BY DEF StopLogInv
<1> QED
  BY <1>1, <1>2, StopLogStep, PTL DEF SystemSpec

------------------------------------------------------------------------------
(* Both executors end *)

\* Every call execute() makes leaves fewer calls to be made, in the cycle and
\* in the liquidation, whatever the other of them does to the account.
THEOREM BothAdvance == SystemSpec => ExecuteAdvances
<1> DEFINE I == SystemTypeInv /\ AdvanceInv
           Advances == \A p \in Proc :
                         Execute(p) => CallsLeft(p)' \in 0..(CallsLeft(p) - 1)
<1>1. LiquidationInit => I
  BY SystemInitTypes, InitAdvances DEF LiquidationInit, CycleInit
<1>2. I /\ [SystemNext]_systemvars => I' /\ [Advances]_vars
  <2> SUFFICES ASSUME I, [SystemNext]_systemvars PROVE I' /\ [Advances]_vars
    OBVIOUS
  <2>1. [AnyStep]_vars
    <3>1. CASE [CycleNext]_allvars
      BY <3>1, CycleIsStep DEF SystemTypeInv
    <3>2. CASE WebStep
      BY <3>2, LiquidationAssumption DEF WebStep, Uses, AnyStep, Next
    <3> QED
      BY <3>1, <3>2, SystemStep DEF SystemTypeInv
  <2>2. Advances
    BY StepAdvances
  <2> QED
    BY <2>1, <2>2, SystemTypeStep, StepKeepsAdvanceInv
<1>3. SystemSpec => [][Advances]_vars
  <2> HIDE DEF I, Advances
  <2> QED
    BY <1>1, <1>2, PTL DEF SystemSpec
<1> QED
  BY <1>3 DEF ExecuteAdvances
==============================================================================
