------------------------- MODULE StrategyCycleProofs -------------------------
(***************************************************************************)
(* Proofs about the executor on its own and in the cron cycle, for every   *)
(* worth of the account, every set of processes, every combination of      *)
(* masked failures and every settlement timeout.  The theorems about Spec  *)
(* are those of OrderExecutor, those about CycleSpec are of StrategyCycle, *)
(* and those about RecoverySpec of CycleRecovery.                          *)
(***************************************************************************)
EXTENDS CycleRecovery, TLAPS

------------------------------------------------------------------------------
(* The tickers *)

LEMMA SymbolFacts ==
  /\ SymbolOf("CASH") = "None"
  /\ \A t \in Target : t # "CASH" => SymbolOf(t) \in Ticker
BY DEF SymbolOf, TICKER, Target, Ticker

LEMMA LoopFacts ==
  /\ \A i \in 1..2 : ALL_TICKERS[i] \in Ticker
  /\ ALL_TICKERS[1] # ALL_TICKERS[2]
  /\ Ticker = {ALL_TICKERS[1], ALL_TICKERS[2]}
BY DEF ALL_TICKERS, Ticker

LEMMA BalanceFacts ==
  AccountTypeOK => \A h \in BalanceAnswers : h \in Position
BY DEF AccountTypeOK, BalanceAnswers, NoPosition, Position

LEMMA OutcomeFacts ==
  /\ \A o \in PostOutcomes : o[1] \in Nat
  /\ "post_5xx" \notin Faults => \A o \in PostOutcomes : o[1] \in 0..1
BY DEF PostOutcomes

------------------------------------------------------------------------------
(* Type correctness.  TypeOK needs to know where a local has been set: a    *)
(* buy leg has a target with a symbol, every step after the snapshot has    *)
(* holdings, and a buy order has a quantity.                                *)

\* The steps a composition may take with an executor: the caller's cached
\* balance is then any that the account once had.
AnyStep ==
  \/ Next
  \/ \E p \in Proc, t \in Target, b \in Position \cup {NoBalance} : Begin(p, t, b)

BuySteps == {"wait", "buy", "order"}

TypeInv ==
  /\ TypeOK
  /\ \A p \in Proc : pc[p] \in BuySteps => target[p] # "CASH"
  /\ \A p \in Proc : pc[p] \notin {"idle", "snapshot"} => snap[p] \in Position
  /\ \A p \in Proc : pc[p] = "order" => qty[p] # 0

LEMMA ForgetTypes ==
  ASSUME TypeInv, NEW p \in Proc, Forget(p)
  PROVE  /\ pc' \in [Proc -> Steps \cup {"idle"}]
         /\ target' \in [Proc -> Target]
         /\ snap' \in [Proc -> Position \cup {NoBalance}]
         /\ seen' \in [Proc -> SUBSET Slot]
         /\ leg' \in [Proc -> [Ticker -> Leg]]
         /\ next' \in [Proc -> 1..3]
         /\ polls' \in [Proc -> Nat]
         /\ qty' \in [Proc -> Nat]
         /\ \A r \in Proc : pc'[r] \in BuySteps => target'[r] # "CASH"
         /\ \A r \in Proc :
              pc'[r] \notin {"idle", "snapshot"} => snap'[r] \in Position
         /\ \A r \in Proc : pc'[r] = "order" => qty'[r] # 0
<1>1. NoLeg \in Leg
  BY DEF NoLeg, Leg, LegState
<1>2. [s \in Ticker |-> NoLeg] \in [Ticker -> Leg]
  BY <1>1
<1>. QED BY <1>2 DEF Forget, TypeInv, TypeOK, Target, BuySteps

LEMMA LegTypes ==
  ASSUME leg \in [Proc -> [Ticker -> Leg]], NEW p \in Proc, NEW s \in Ticker,
         NEW state \in LegState, NEW q \in Nat, AddLeg(p, s, state, q)
  PROVE  leg' \in [Proc -> [Ticker -> Leg]]
<1>. DEFINE new == [state |-> state, quantity |-> q]
<1>1. new \in Leg
  BY DEF Leg
<1>2. [leg[p] EXCEPT ![s] = new] \in [Ticker -> Leg]
  BY <1>1
<1>. HIDE DEF new
<1>3. leg' = [leg EXCEPT ![p] = [leg[p] EXCEPT ![s] = new]]
  BY DEF AddLeg, new
<1>. QED BY <1>2, <1>3

LEMMA AcceptTypes ==
  ASSUME AccountTypeOK, NEW s \in Ticker, NEW d \in Side,
         NEW q \in Nat \ {0}, NEW n \in Nat,
         n * q <= Free(s, d), Accept(s, d, q, n)
  PROVE  AccountTypeOK'
<1>1. <<s, d>> \in Slot
  BY DEF Slot
<1>2. [i \in 1..n |-> q] \in Seq(Nat \ {0})
  OBVIOUS
<1>3. book' \in [Slot -> Seq(Nat \ {0})]
  <2>1. book[<<s, d>>] \o [i \in 1..n |-> q] \in Seq(Nat \ {0})
    BY <1>1, <1>2 DEF AccountTypeOK
  <2>. QED BY <1>1, <2>1 DEF Accept, AccountTypeOK
<1>4. cash' \in Nat
  <2>1. n * q \in Nat
    OBVIOUS
  <2>2. CASE d = "BUY"
    BY <2>1, <2>2 DEF Accept, AccountTypeOK, Free
  <2>3. CASE d # "BUY"
    BY <2>3 DEF Accept, AccountTypeOK
  <2>. QED BY <2>2, <2>3
<1>. QED BY <1>3, <1>4 DEF Accept, AccountTypeOK

LEMMA MarketTypes ==
  ASSUME AccountTypeOK, Market
  PROVE  AccountTypeOK'
<1>1. CASE Settle
  BY <1>1 DEF Settle, AccountTypeOK
<1>2. ASSUME NEW s \in Ticker, NEW d \in Side, Fill(s, d)
      PROVE  AccountTypeOK'
  <2>. DEFINE k == <<s, d>>
  <2>1. k \in Slot /\ book[k] \in Seq(Nat \ {0}) /\ book[k] # <<>>
    BY <1>2 DEF Slot, AccountTypeOK, Fill
  <2>2. /\ Head(book[k]) \in Nat \ {0}
        /\ Tail(book[k]) \in Seq(Nat \ {0})
    BY <2>1
  <2>3. Head(book[k]) # 1 =>
          <<Head(book[k]) - 1>> \o Tail(book[k]) \in Seq(Nat \ {0})
    BY <2>2
  <2>4. book' \in [Slot -> Seq(Nat \ {0})]
    BY <1>2, <2>2, <2>3 DEF Fill, AccountTypeOK
  <2>5. held' \in Position
    BY <1>2 DEF Fill, AccountTypeOK, Position, Side
  <2>. QED BY <1>2, <2>4, <2>5 DEF Fill, AccountTypeOK
<1>3. ASSUME NEW s \in Ticker, NEW d \in Side, Expire(s, d)
      PROVE  AccountTypeOK'
  <2>. DEFINE k == <<s, d>>
  <2>1. k \in Slot /\ book[k] \in Seq(Nat \ {0}) /\ book[k] # <<>>
    BY <1>3 DEF Slot, AccountTypeOK, Expire
  <2>2. /\ Head(book[k]) \in Nat \ {0}
        /\ Tail(book[k]) \in Seq(Nat \ {0})
    BY <2>1
  <2>3. cash' \in Nat
    BY <1>3, <2>2 DEF Expire, AccountTypeOK
  <2>4. book' \in [Slot -> Seq(Nat \ {0})]
    BY <1>3, <2>2 DEF Expire, AccountTypeOK
  <2>. QED BY <1>3, <2>3, <2>4 DEF Expire, AccountTypeOK
<1>. QED BY <1>1, <1>2, <1>3 DEF Market

LEMMA InitTypes == Init => TypeInv
<1>. SUFFICES ASSUME Init PROVE TypeInv
  OBVIOUS
<1>1. AccountTypeOK
  BY SharesAssumption DEF Init, AccountInit, AccountTypeOK, Position
<1>2. NoLeg \in Leg
  BY DEF NoLeg, Leg, LegState
<1>. QED BY <1>1, <1>2
         DEF Init, ExecutorInit, TypeInv, TypeOK, Target, BuySteps

\* The step of place_order keeps the types wherever it is made from.
LEMMA PlaceOrderTypes ==
  ASSUME TypeInv, NEW p \in Proc, NEW s \in Ticker, NEW d \in Side,
         NEW q \in Nat \ {0}, NEW goto \in {"sell", "done"},
         pc[p] \in {"sell", "order"}, d = "SELL" => next[p] \in 1..2,
         PlaceOrder(p, s, d, q, goto)
  PROVE  TypeInv'
<1>1. PICK o \in PostOutcomes :
        /\ o[1] * q <= Free(s, d)
        /\ Accept(s, d, q, o[1])
        /\ IF o[2] = "raised"
             THEN Forget(p)
             ELSE /\ AddLeg(p, s, o[2], q)
                  /\ Goto(p, goto)
                  /\ next' = [next EXCEPT ![p] = IF d = "SELL" THEN @ + 1 ELSE @]
                  /\ UNCHANGED <<target, snap, seen, polls, qty>>
  BY DEF PlaceOrder
<1>2. AccountTypeOK'
  BY <1>1, AcceptTypes, OutcomeFacts DEF TypeInv, TypeOK
<1>3. CASE o[2] = "raised"
  BY <1>1, <1>2, <1>3, ForgetTypes DEF TypeInv, TypeOK
<1>4. CASE o[2] # "raised"
  <2>1. o[2] \in LegState
    BY <1>4 DEF PostOutcomes, LegState
  <2>2. leg' \in [Proc -> [Ticker -> Leg]]
    BY <1>1, <1>4, <2>1, LegTypes DEF TypeInv, TypeOK
  <2>3. next' \in [Proc -> 1..3]
    BY <1>1, <1>4 DEF TypeInv, TypeOK
  <2>. QED BY <1>1, <1>2, <1>4, <2>2, <2>3
           DEF Goto, TypeInv, TypeOK, Steps, BuySteps
<1>. QED BY <1>3, <1>4

LEMMA StepTypes == TypeInv /\ [AnyStep]_vars => TypeInv'
<1>. SUFFICES ASSUME TypeInv, [AnyStep]_vars PROVE TypeInv'
  OBVIOUS
<1>. USE DEF TypeInv
<1>1. ASSUME NEW p \in Proc, NEW t \in Target,
             NEW b \in Position \cup {NoBalance},
             Begin(p, t, b)
      PROVE  TypeInv'
  BY <1>1 DEF Begin, Goto, TypeOK, AccountTypeOK, account, Steps, BuySteps
<1>2. ASSUME NEW p \in Proc, Snapshot(p)
      PROVE  TypeInv'
  BY <1>2, BalanceFacts DEF Snapshot, Goto, TypeOK, AccountTypeOK, account,
                            Steps, BuySteps
<1>3. ASSUME NEW p \in Proc, OpenOrders(p)
      PROVE  TypeInv'
  <2>1. \A answer \in OpenOrdersAnswers : answer \in SUBSET Slot
    BY DEF OpenOrdersAnswers, Working
  <2>. QED BY <1>3, <2>1
           DEF OpenOrders, Goto, TypeOK, AccountTypeOK, account, Steps, BuySteps
<1>4. ASSUME NEW p \in Proc, Sell(p)
      PROVE  TypeInv'
  <2>. DEFINE s == ALL_TICKERS[next[p]]
              q == snap[p][s]
  <2>1. /\ pc[p] = "sell"
        /\ next[p] \in 1..2
    BY <1>4 DEF Sell, HasOpen, TypeOK
  <2>2. s \in Ticker /\ q \in Nat
    BY <2>1, LoopFacts DEF Position
  <2>3. CASE q > 0 /\ PlaceOrder(p, s, "SELL", q, "sell")
    BY <2>1, <2>2, <2>3, PlaceOrderTypes DEF Side
  <2>4. CASE /\ next' = [next EXCEPT ![p] = @ + 1]
             /\ \/ AddLeg(p, s, "already_pending", q)
                \/ UNCHANGED leg
             /\ UNCHANGED <<account, pc, target, snap, seen, polls, qty>>
    <3>1. leg' \in [Proc -> [Ticker -> Leg]]
      BY <2>2, <2>4, LegTypes DEF LegState, Reason, TypeOK
    <3>2. next' \in [Proc -> 1..3]
      BY <2>1, <2>4 DEF TypeOK
    <3>. QED BY <2>4, <3>1, <3>2 DEF TypeOK, AccountTypeOK, account
  <2>. QED BY <1>4, <2>3, <2>4 DEF Sell, HasOpen
<1>5. ASSUME NEW p \in Proc, SellsDone(p)
      PROVE  TypeInv'
  BY <1>5 DEF SellsDone, Goto, locals, TypeOK, AccountTypeOK, account, Steps,
              BuySteps
<1>6. ASSUME NEW p \in Proc, PollSettlement(p)
      PROVE  TypeInv'
  BY <1>6 DEF PollSettlement, Goto, TypeOK, AccountTypeOK, account, Steps,
              BuySteps
<1>7. ASSUME NEW p \in Proc, BuyLeg(p)
      PROVE  TypeInv'
  <2>. DEFINE s == SymbolOf(target[p])
  <2>1. /\ pc[p] = "buy" /\ target[p] # "CASH"
        /\ UNCHANGED <<account, target, snap, seen, next, polls>>
    BY <1>7 DEF BuyLeg, HasOpen, BuySteps
  <2>2. s \in Ticker /\ snap[p][s] \in Nat
    BY <2>1, SymbolFacts DEF TypeOK, Position
  <2>3. CASE \E r \in Reason, n \in Nat : /\ AddLeg(p, s, r, n)
                                          /\ Goto(p, "done")
                                          /\ UNCHANGED qty
    <3>1. leg' \in [Proc -> [Ticker -> Leg]]
      BY <2>2, <2>3, LegTypes DEF LegState, TypeOK
    <3>. QED BY <2>1, <2>3, <3>1 DEF Goto, TypeOK, AccountTypeOK, account,
                                     Steps, BuySteps
  <2>4. CASE \E q \in Nat \ {0} : /\ qty' = [qty EXCEPT ![p] = q]
                                  /\ Goto(p, "order")
                                  /\ UNCHANGED leg
    BY <2>1, <2>4 DEF Goto, TypeOK, AccountTypeOK, account, Steps, BuySteps
  <2>5. \A q \in BuyableAnswers \cup {0} : q \in Nat
    BY DEF BuyableAnswers, TypeOK, AccountTypeOK
  <2>6. "already_holding_target" \in Reason /\ "already_pending" \in Reason
        /\ "insufficient_cash" \in Reason
    BY DEF Reason
  <2>. QED BY <1>7, <2>2, <2>3, <2>4, <2>5, <2>6 DEF BuyLeg, HasOpen
<1>8. ASSUME NEW p \in Proc, Buy(p)
      PROVE  TypeInv'
  <2>1. /\ pc[p] = "order"
        /\ SymbolOf(target[p]) \in Ticker
        /\ qty[p] \in Nat \ {0}
    BY <1>8, SymbolFacts DEF Buy, BuySteps, TypeOK
  <2>. QED BY <1>8, <2>1, PlaceOrderTypes DEF Buy, Side
<1>9. ASSUME NEW p \in Proc, Return(p) \/ Raise(p)
      PROVE  TypeInv'
  BY <1>9, ForgetTypes DEF Return, Raise, TypeOK, AccountTypeOK, account
<1>10. CASE Market /\ UNCHANGED executor
  BY <1>10, MarketTypes DEF executor, locals, TypeOK
<1>11. CASE UNCHANGED vars
  BY <1>11 DEF vars, account, executor, locals, TypeOK, AccountTypeOK
<1>12. held \in Position
  BY DEF TypeOK, AccountTypeOK
<1>. QED BY <1>1, <1>2, <1>3, <1>4, <1>5, <1>6, <1>7, <1>8, <1>9, <1>10, <1>11,
            <1>12
         DEF AnyStep, Next, Execute

\* Whatever the broker answers and however many executors run, every variable
\* keeps its type: the executor never reads a local it has not set, and the
\* account never holds a negative amount of cash or shares.
THEOREM TypeCorrect == Spec => []TypeOK
<1>1. TypeInv => TypeOK
  BY DEF TypeInv
<1>2. [Next]_vars => [AnyStep]_vars
  BY DEF AnyStep
<1>. QED BY <1>1, <1>2, InitTypes, StepTypes, PTL DEF Spec

------------------------------------------------------------------------------
(* At most one working order.  Between the open-order query and its last    *)
(* order an executor knows every working order: it was in the answer, or it *)
(* is a sell of its own.  The sells it has yet to send are not its own yet. *)

QueriedSteps == {"sell", "wait", "buy", "order"}

KnowsWorking(p) ==
  pc[p] \in QueriedSteps =>
    \A s \in Ticker, d \in Side :
      book[<<s, d>>] # <<>> =>
        \/ <<s, d>> \in seen[p]
        \/ d = "SELL" /\ leg[p][s].state # "none"

SellsAhead(p) ==
  pc[p] \in {"idle", "snapshot", "open_orders", "sell"} =>
    \A i \in 1..2 : next[p] <= i => leg[p][ALL_TICKERS[i]].state = "none"

BuyUnseen(p) ==
  pc[p] = "order" => <<SymbolOf(target[p]), "BUY">> \notin seen[p]

OrderInv ==
  /\ TypeInv
  /\ AtMostOneWorkingOrder
  /\ \A p \in Proc : KnowsWorking(p) /\ SellsAhead(p) /\ BuyUnseen(p)

\* One executor at a time, a query that does not fail silently, and no order
\* hidden behind a 5xx answer.
Solo == \A p, q \in Proc : p = q
Reliable == Faults \cap {"open_orders", "post_5xx"} = {}

LEMMA InitOrders == Init => OrderInv
<1>. SUFFICES ASSUME Init PROVE OrderInv
  OBVIOUS
<1>1. TypeInv
  BY InitTypes
<1>2. AtMostOneWorkingOrder
  BY DEF Init, AccountInit, AtMostOneWorkingOrder
<1>3. ASSUME NEW p \in Proc
      PROVE  KnowsWorking(p) /\ SellsAhead(p) /\ BuyUnseen(p)
  BY <1>3, LoopFacts DEF Init, ExecutorInit, NoLeg, KnowsWorking, SellsAhead,
     BuyUnseen, QueriedSteps
<1>. QED BY <1>1, <1>2, <1>3 DEF OrderInv

\* The market only closes orders.
LEMMA MarketCloses ==
  ASSUME AccountTypeOK, Market, NEW k \in Slot
  PROVE  /\ Len(book'[k]) <= Len(book[k])
         /\ book'[k] # <<>> => book[k] # <<>>
<1>1. CASE Settle
  BY <1>1 DEF Settle, AccountTypeOK
<1>2. ASSUME NEW s \in Ticker, NEW d \in Side, Fill(s, d) \/ Expire(s, d)
      PROVE  /\ Len(book'[k]) <= Len(book[k])
             /\ book'[k] # <<>> => book[k] # <<>>
  <2>. DEFINE j == <<s, d>>
  <2>1. /\ j \in Slot
        /\ book \in [Slot -> Seq(Nat \ {0})]
        /\ book[j] \in Seq(Nat \ {0})
        /\ book[j] # <<>>
    BY <1>2 DEF Slot, AccountTypeOK, Fill, Expire
  <2>2. /\ Tail(book[j]) \in Seq(Nat \ {0})
        /\ Len(Tail(book[j])) = Len(book[j]) - 1
    BY <2>1
  <2>3. Len(<<Head(book[j]) - 1>> \o Tail(book[j])) = Len(book[j])
    BY <2>1, <2>2
  <2>4. \/ book'[j] = Tail(book[j])
        \/ book'[j] = <<Head(book[j]) - 1>> \o Tail(book[j])
    BY <1>2, <2>1 DEF Fill, Expire
  <2>5. k # j => book'[k] = book[k]
    BY <1>2, <2>1 DEF Fill, Expire
  <2>6. Len(book'[j]) <= Len(book[j])
    <3>1. Len(book[j]) \in Nat
      BY <2>1
    <3>2. CASE book'[j] = Tail(book[j])
      BY <3>1, <3>2, <2>2
    <3>3. CASE book'[j] = <<Head(book[j]) - 1>> \o Tail(book[j])
      <4>. DEFINE b == <<Head(book[j]) - 1>> \o Tail(book[j])
      <4>1. Len(b) = Len(book[j])
        BY <2>3
      <4>. HIDE DEF b
      <4>. QED BY <3>1, <3>3, <4>1 DEF b
    <3>. QED BY <2>4, <3>2, <3>3
  <2>7. CASE k = j
    BY <2>1, <2>6, <2>7
  <2>8. CASE k # j
    <3>1. Len(book[k]) \in Nat
      BY <2>1
    <3>. QED BY <3>1, <2>5, <2>8
  <2>. QED BY <2>7, <2>8
<1>. QED BY <1>1, <1>2 DEF Market

\* A reliable POST to an empty slot leaves one order there, or none, and no
\* other slot changes.
LEMMA PlaceOnce ==
  ASSUME AccountTypeOK, Reliable, NEW s \in Ticker, NEW d \in Side,
         NEW q \in Nat \ {0}, NEW o \in PostOutcomes,
         book[<<s, d>>] = <<>>, Accept(s, d, q, o[1])
  PROVE  /\ Len(book'[<<s, d>>]) = o[1]
         /\ o[1] \in 0..1
         /\ \A k \in Slot : k # <<s, d>> => book'[k] = book[k]
<1>1. o[1] \in 0..1
  BY OutcomeFacts DEF Reliable
<1>2. <<s, d>> \in Slot /\ book \in [Slot -> Seq(Nat \ {0})]
  BY DEF Slot, AccountTypeOK
<1>3. book'[<<s, d>>] = <<>> \o [i \in 1..o[1] |-> q]
  BY <1>2 DEF Accept
<1>4. Len(<<>> \o [i \in 1..o[1] |-> q]) = o[1]
  <2>1. [i \in 1..o[1] |-> q] \in Seq(Nat \ {0})
        /\ Len([i \in 1..o[1] |-> q]) = o[1]
    BY <1>1
  <2>. QED BY <1>1, <2>1
<1>. QED BY <1>1, <1>2, <1>3, <1>4 DEF Accept

LEMMA PlaceOrderInv ==
  ASSUME OrderInv, Solo, Reliable, NEW p \in Proc,
         NEW s \in Ticker, NEW d \in Side, NEW q \in Nat \ {0},
         NEW goto \in {"sell", "done"},
         book[<<s, d>>] = <<>>,
         pc[p] \in {"sell", "order"},
         d = "SELL" => /\ pc[p] = "sell" /\ goto = "sell"
                       /\ next[p] \in 1..2
                       /\ s = ALL_TICKERS[next[p]],
         d = "BUY" => goto = "done",
         PlaceOrder(p, s, d, q, goto), TypeInv'
  PROVE  OrderInv'
<1>1. PICK o \in PostOutcomes :
        /\ Accept(s, d, q, o[1])
        /\ IF o[2] = "raised"
             THEN Forget(p)
             ELSE /\ AddLeg(p, s, o[2], q)
                  /\ Goto(p, goto)
                  /\ next' = [next EXCEPT ![p] = IF d = "SELL" THEN @ + 1 ELSE @]
                  /\ UNCHANGED <<target, snap, seen, polls, qty>>
  BY DEF PlaceOrder
<1>2. /\ Len(book'[<<s, d>>]) = o[1]
      /\ o[1] \in 0..1
      /\ \A k \in Slot : k # <<s, d>> => book'[k] = book[k]
  <2>1. AccountTypeOK
    BY DEF OrderInv, TypeInv, TypeOK
  <2>. QED BY <1>1, <2>1, PlaceOnce
<1>3. AtMostOneWorkingOrder'
  <2>. SUFFICES ASSUME NEW k \in Slot PROVE Len(book'[k]) <= 1
    BY DEF AtMostOneWorkingOrder
  <2>1. CASE k = <<s, d>>
    BY <1>2, <2>1
  <2>2. CASE k # <<s, d>>
    BY <1>2, <2>2 DEF AtMostOneWorkingOrder, OrderInv
  <2>. QED BY <2>1, <2>2
<1>4. KnowsWorking(p)' /\ SellsAhead(p)' /\ BuyUnseen(p)'
  <2>1. CASE o[2] = "raised"
    <3>1. /\ pc'[p] = "idle"
          /\ \A t \in Ticker : leg'[p][t].state = "none"
      BY <1>1, <2>1 DEF Forget, OrderInv, TypeInv, TypeOK, NoLeg
    <3>. QED BY <3>1, LoopFacts
             DEF KnowsWorking, SellsAhead, BuyUnseen, QueriedSteps
  <2>2. CASE o[2] # "raised" /\ d = "BUY"
    <3>1. pc'[p] = "done"
      BY <1>1, <2>2 DEF Goto, OrderInv, TypeInv, TypeOK
    <3>. QED BY <3>1 DEF KnowsWorking, SellsAhead, BuyUnseen, QueriedSteps
  <2>3. CASE o[2] # "raised" /\ d = "SELL"
    <3>1. /\ pc[p] = "sell"
          /\ pc'[p] = "sell"
          /\ seen' = seen
          /\ next'[p] = next[p] + 1
          /\ next[p] \in 1..2
      BY <1>1, <2>3 DEF Goto, OrderInv, TypeInv, TypeOK
    <3>2. /\ leg'[p][s].state # "none"
          /\ \A t \in Ticker : t # s => leg'[p][t] = leg[p][t]
      BY <1>1, <2>3 DEF AddLeg, OrderInv, TypeInv, TypeOK, PostOutcomes
    <3>3. KnowsWorking(p)'
      <4>. SUFFICES ASSUME NEW t \in Ticker, NEW e \in Side,
                           book'[<<t, e>>] # <<>>
                    PROVE  \/ <<t, e>> \in seen'[p]
                           \/ e = "SELL" /\ leg'[p][t].state # "none"
        BY DEF KnowsWorking
      <4>1. CASE t = s /\ e = "SELL"
        BY <4>1, <3>2
      <4>2. CASE t # s \/ e # "SELL"
        <5>1. book[<<t, e>>] # <<>>
          BY <1>2, <2>3, <4>2 DEF Slot
        <5>2. <<t, e>> \in seen[p] \/ (e = "SELL" /\ leg[p][t].state # "none")
          BY <5>1 DEF OrderInv, KnowsWorking, QueriedSteps
        <5>. QED BY <3>1, <3>2, <5>2
      <4>. QED BY <4>1, <4>2
    <3>4. SellsAhead(p)'
      BY <3>1, <3>2, LoopFacts, <2>3 DEF SellsAhead, OrderInv
    <3>. QED BY <3>1, <3>3, <3>4 DEF BuyUnseen
  <2>. QED BY <2>1, <2>2, <2>3 DEF Side
<1>. QED BY <1>3, <1>4 DEF OrderInv, Solo

\* Steps that leave the account alone.
LEMMA LocalOrders ==
  ASSUME OrderInv, TypeInv', UNCHANGED account, Solo, NEW p \in Proc,
         KnowsWorking(p)', SellsAhead(p)', BuyUnseen(p)'
  PROVE  OrderInv'
<1>1. AtMostOneWorkingOrder'
  BY DEF OrderInv, AtMostOneWorkingOrder, account
<1>. QED BY <1>1 DEF OrderInv, Solo

LEMMA StepOrders ==
  ASSUME Solo, Reliable
  PROVE  OrderInv /\ [AnyStep]_vars => OrderInv'
<1>. SUFFICES ASSUME OrderInv, [AnyStep]_vars PROVE OrderInv'
  OBVIOUS
<1>0. TypeInv /\ TypeInv' /\ TypeOK /\ TypeOK' /\ AccountTypeOK
  BY StepTypes DEF OrderInv, TypeInv, TypeOK
<1>1. ASSUME NEW p \in Proc, NEW t \in Target,
             NEW b \in Position \cup {NoBalance},
             Begin(p, t, b)
      PROVE  OrderInv'
  <2>1. pc[p] = "idle" /\ pc'[p] = "snapshot"
        /\ UNCHANGED <<account, leg, next>>
    BY <1>0, <1>1 DEF Begin, Goto, TypeOK
  <2>2. KnowsWorking(p)' /\ SellsAhead(p)' /\ BuyUnseen(p)'
    BY <2>1 DEF OrderInv, KnowsWorking, SellsAhead, BuyUnseen, QueriedSteps
  <2>. QED BY <1>0, <2>1, <2>2, LocalOrders
<1>2. ASSUME NEW p \in Proc, Snapshot(p)
      PROVE  OrderInv'
  <2>1. pc[p] = "snapshot" /\ pc'[p] = "open_orders"
        /\ UNCHANGED <<account, leg, next>>
    BY <1>0, <1>2 DEF Snapshot, Goto, TypeOK
  <2>2. KnowsWorking(p)' /\ SellsAhead(p)' /\ BuyUnseen(p)'
    BY <2>1 DEF OrderInv, KnowsWorking, SellsAhead, BuyUnseen, QueriedSteps
  <2>. QED BY <1>0, <2>1, <2>2, LocalOrders
<1>3. ASSUME NEW p \in Proc, OpenOrders(p)
      PROVE  OrderInv'
  <2>1. /\ pc[p] = "open_orders" /\ pc'[p] = "sell"
        /\ seen'[p] = Working
        /\ UNCHANGED <<account, leg, next>>
    BY <1>0, <1>3 DEF OpenOrders, OpenOrdersAnswers, Reliable, Goto, TypeOK
  <2>2. KnowsWorking(p)'
    BY <2>1 DEF KnowsWorking, Working, Slot, account
  <2>3. SellsAhead(p)' /\ BuyUnseen(p)'
    BY <2>1 DEF OrderInv, SellsAhead, BuyUnseen
  <2>. QED BY <1>0, <2>1, <2>2, <2>3, LocalOrders
<1>4. ASSUME NEW p \in Proc, Sell(p)
      PROVE  OrderInv'
  <2>. DEFINE s == ALL_TICKERS[next[p]]
              q == snap[p][s]
  <2>1. pc[p] = "sell" /\ next[p] \in 1..2 /\ s \in Ticker /\ q \in Nat
    <3>1. pc[p] = "sell" /\ next[p] \in 1..2
      BY <1>0, <1>4 DEF Sell, HasOpen, TypeOK
    <3>. QED BY <1>0, <3>1, LoopFacts DEF TypeInv, Position
  <2>2. CASE /\ q > 0 /\ <<s, "SELL">> \notin seen[p]
             /\ PlaceOrder(p, s, "SELL", q, "sell")
    <3>1. leg[p][s].state = "none"
      BY <2>1 DEF OrderInv, SellsAhead
    <3>2. book[<<s, "SELL">>] = <<>>
      BY <2>1, <2>2, <3>1 DEF OrderInv, KnowsWorking, QueriedSteps, Side
    <3>3. q \in Nat \ {0} /\ s = ALL_TICKERS[next[p]]
      BY <2>1, <2>2
    <3>. HIDE DEF s, q
    <3>. QED BY <1>0, <2>1, <2>2, <3>2, <3>3, PlaceOrderInv DEF Side
  <2>3. CASE /\ next' = [next EXCEPT ![p] = @ + 1]
             /\ \/ AddLeg(p, s, "already_pending", q)
                \/ UNCHANGED leg
             /\ UNCHANGED <<account, pc, target, snap, seen, polls, qty>>
    <3>1. next'[p] = next[p] + 1
      BY <1>0, <2>1, <2>3 DEF TypeOK
    <3>2. \A t \in Ticker : /\ t # s => leg'[p][t] = leg[p][t]
                            /\ leg[p][t].state # "none" => leg'[p][t].state # "none"
      BY <1>0, <2>1, <2>3 DEF AddLeg, TypeOK
    <3>3. KnowsWorking(p)'
      BY <2>1, <2>3, <3>2 DEF OrderInv, KnowsWorking, account
    <3>4. SellsAhead(p)'
      BY <2>1, <2>3, <3>1, <3>2, LoopFacts DEF OrderInv, SellsAhead
    <3>5. BuyUnseen(p)'
      BY <2>1, <2>3 DEF BuyUnseen
    <3>. QED BY <1>0, <2>3, <3>3, <3>4, <3>5, LocalOrders
  <2>. QED BY <1>4, <2>2, <2>3 DEF Sell, HasOpen
<1>5. ASSUME NEW p \in Proc, SellsDone(p)
      PROVE  OrderInv'
  <2>1. /\ pc[p] = "sell" /\ pc'[p] \in {"done", "wait", "buy"}
        /\ UNCHANGED <<account, locals>>
    BY <1>0, <1>5 DEF SellsDone, Goto, TypeOK
  <2>2. KnowsWorking(p)' /\ SellsAhead(p)' /\ BuyUnseen(p)'
    BY <2>1 DEF OrderInv, KnowsWorking, SellsAhead, BuyUnseen, QueriedSteps,
                locals, account
  <2>. QED BY <1>0, <2>1, <2>2, LocalOrders
<1>6. ASSUME NEW p \in Proc, PollSettlement(p)
      PROVE  OrderInv'
  <2>1. /\ pc[p] = "wait" /\ pc'[p] \in {"wait", "buy"}
        /\ UNCHANGED <<account, seen, leg, next>>
    BY <1>0, <1>6 DEF PollSettlement, Goto, TypeOK
  <2>2. KnowsWorking(p)' /\ SellsAhead(p)' /\ BuyUnseen(p)'
    BY <2>1 DEF OrderInv, KnowsWorking, SellsAhead, BuyUnseen, QueriedSteps,
                account
  <2>. QED BY <1>0, <2>1, <2>2, LocalOrders
<1>7. ASSUME NEW p \in Proc, BuyLeg(p)
      PROVE  OrderInv'
  <2>1. /\ pc[p] = "buy"
        /\ UNCHANGED <<account, target, seen, next>>
    BY <1>7 DEF BuyLeg, HasOpen
  <2>2. \/ pc'[p] = "done"
        \/ /\ pc'[p] = "order"
           /\ <<SymbolOf(target[p]), "BUY">> \notin seen[p]
           /\ UNCHANGED leg
    BY <1>0, <1>7 DEF BuyLeg, HasOpen, Goto, TypeOK
  <2>3. KnowsWorking(p)' /\ SellsAhead(p)' /\ BuyUnseen(p)'
    BY <2>1, <2>2 DEF OrderInv, KnowsWorking, SellsAhead, BuyUnseen,
                      QueriedSteps, account
  <2>. QED BY <1>0, <2>1, <2>3, LocalOrders
<1>8. ASSUME NEW p \in Proc, Buy(p)
      PROVE  OrderInv'
  <2>. DEFINE s == SymbolOf(target[p])
  <2>1. pc[p] = "order" /\ s \in Ticker /\ qty[p] \in Nat \ {0}
    BY <1>0, <1>8, SymbolFacts DEF Buy, TypeInv, TypeOK, BuySteps
  <2>2. book[<<s, "BUY">>] = <<>>
    BY <2>1 DEF OrderInv, KnowsWorking, BuyUnseen, QueriedSteps, Side
  <2>. QED BY <1>0, <1>8, <2>1, <2>2, PlaceOrderInv DEF Buy, Side
<1>9. ASSUME NEW p \in Proc, Return(p) \/ Raise(p)
      PROVE  OrderInv'
  <2>1. /\ pc'[p] = "idle" /\ UNCHANGED account
        /\ \A s \in Ticker : leg'[p][s].state = "none"
    BY <1>0, <1>9 DEF Return, Raise, Forget, TypeOK, NoLeg
  <2>2. KnowsWorking(p)' /\ SellsAhead(p)' /\ BuyUnseen(p)'
    BY <2>1, LoopFacts DEF KnowsWorking, SellsAhead, BuyUnseen, QueriedSteps
  <2>. QED BY <1>0, <2>1, <2>2, LocalOrders
<1>10. CASE Market /\ UNCHANGED executor
  <2>1. AtMostOneWorkingOrder'
    <3>. SUFFICES ASSUME NEW k \in Slot PROVE Len(book'[k]) <= 1
      BY DEF AtMostOneWorkingOrder
    <3>1. Len(book'[k]) <= Len(book[k])
      BY <1>0, <1>10, MarketCloses
    <3>2. book[k] \in Seq(Nat \ {0}) /\ book'[k] \in Seq(Nat \ {0})
      BY <1>0 DEF TypeOK, AccountTypeOK
    <3>. QED BY <3>1, <3>2 DEF OrderInv, AtMostOneWorkingOrder
  <2>2. ASSUME NEW p \in Proc
        PROVE  KnowsWorking(p)' /\ SellsAhead(p)' /\ BuyUnseen(p)'
    <3>1. \A k \in Slot : book'[k] # <<>> => book[k] # <<>>
      BY <1>0, <1>10, MarketCloses
    <3>. QED BY <1>10, <3>1 DEF executor, locals, OrderInv, KnowsWorking,
                                SellsAhead, BuyUnseen, Slot
  <2>. QED BY <1>0, <2>1, <2>2 DEF OrderInv
<1>11. CASE UNCHANGED vars
  BY <1>0, <1>11 DEF vars, account, executor, locals, OrderInv,
     AtMostOneWorkingOrder, KnowsWorking, SellsAhead, BuyUnseen
<1>12. held \in Position
  BY <1>0 DEF AccountTypeOK
<1>. QED BY <1>1, <1>2, <1>3, <1>4, <1>5, <1>6, <1>7, <1>8, <1>9, <1>10, <1>11,
            <1>12
         DEF AnyStep, Next, Execute

\* order_executor.execute, cut off and run again at any call and in any number,
\* never stacks a second working order on one side of an instrument, as long
\* as one executor runs at a time, inquire-nccs answers truthfully and a 5xx
\* answer to an order means that it was not accepted.
THEOREM NoDoubleOrder ==
  ASSUME Solo, Reliable
  PROVE  Spec => []AtMostOneWorkingOrder
<1>1. OrderInv => AtMostOneWorkingOrder
  BY DEF OrderInv
<1>2. [Next]_vars => [AnyStep]_vars
  BY DEF AnyStep
<1>. QED BY <1>1, <1>2, InitOrders, StepOrders, PTL DEF Spec

------------------------------------------------------------------------------
(* The refinement.  The account's working orders move as WorkingOrders      *)
(* says: an accepted POST places one where none worked, and the market      *)
(* closes one or leaves it working.                                         *)

LEMMA AcceptImplements ==
  ASSUME AccountTypeOK, AtMostOneWorkingOrder, AtMostOneWorkingOrder',
         Reliable, NEW s \in Ticker, NEW d \in Side, NEW q \in Nat \ {0},
         NEW o \in PostOutcomes, Accept(s, d, q, o[1])
  PROVE  [Orders!Next]_OrdersAtWork
<1>. DEFINE k == <<s, d>>
<1>1. /\ k \in Slot
      /\ o[1] \in 0..1
      /\ book[k] \in Seq(Nat \ {0})
      /\ book'[k] = book[k] \o [i \in 1..o[1] |-> q]
      /\ \A j \in Slot : j # k => book'[j] = book[j]
  BY OutcomeFacts DEF Reliable, Slot, AccountTypeOK, Accept
<1>2. /\ [i \in 1..o[1] |-> q] \in Seq(Nat \ {0})
      /\ Len([i \in 1..o[1] |-> q]) = o[1]
  <2>1. o[1] \in 0..1
    BY <1>1
  <2>. QED BY <2>1
<1>3. Len(book'[k]) = Len(book[k]) + o[1] /\ Len(book[k]) \in Nat
  BY <1>1, <1>2
<1>4. OrdersAtWork' = [OrdersAtWork EXCEPT ![k] = Len(book'[k])]
  BY <1>1 DEF OrdersAtWork
<1>5. CASE o[1] = 0
  <2>1. Len(book'[k]) = OrdersAtWork[k]
    BY <1>1, <1>3, <1>5 DEF OrdersAtWork
  <2>2. OrdersAtWork' = OrdersAtWork
    BY <1>4, <2>1 DEF OrdersAtWork
  <2>. QED BY <2>2
<1>6. CASE o[1] = 1
  <2>1. Len(book'[k]) <= 1
    BY <1>1 DEF AtMostOneWorkingOrder
  <2>2. OrdersAtWork[k] = 0 /\ Len(book'[k]) = 1
    BY <1>1, <1>3, <1>6, <2>1 DEF OrdersAtWork
  <2>3. Orders!Place(k)
    BY <1>4, <2>2 DEF Orders!Place
  <2>. QED BY <1>1, <2>3 DEF Orders!Next
<1>. QED BY <1>1, <1>5, <1>6

LEMMA MarketImplements ==
  ASSUME AccountTypeOK, Market
  PROVE  [Orders!Next]_OrdersAtWork
<1>1. CASE Settle
  BY <1>1 DEF Settle, OrdersAtWork
<1>2. ASSUME NEW s \in Ticker, NEW d \in Side, Fill(s, d) \/ Expire(s, d)
      PROVE  [Orders!Next]_OrdersAtWork
  <2>. DEFINE k == <<s, d>>
  <2>1. /\ k \in Slot
        /\ book[k] \in Seq(Nat \ {0}) /\ book[k] # <<>>
        /\ \A j \in Slot : j # k => book'[j] = book[j]
    BY <1>2 DEF Slot, AccountTypeOK, Fill, Expire
  <2>2. \/ book'[k] = Tail(book[k])
        \/ book'[k] = <<Head(book[k]) - 1>> \o Tail(book[k])
    BY <1>2, <2>1 DEF Fill, Expire, AccountTypeOK
  <2>3. Len(book[k]) > 0 /\ Len(book[k]) \in Nat
    BY <2>1
  <2>4. OrdersAtWork' = [OrdersAtWork EXCEPT ![k] = Len(book'[k])]
    BY <2>1 DEF OrdersAtWork
  <2>5. CASE book'[k] = Tail(book[k])
    <3>1. Len(book'[k]) = OrdersAtWork[k] - 1 /\ OrdersAtWork[k] > 0
      BY <2>1, <2>3, <2>5 DEF OrdersAtWork
    <3>2. Orders!Close(k)
      BY <2>4, <3>1 DEF Orders!Close
    <3>. QED BY <2>1, <3>2 DEF Orders!Next
  <2>6. CASE book'[k] = <<Head(book[k]) - 1>> \o Tail(book[k])
    <3>1. Tail(book[k]) \in Seq(Nat) /\ Len(Tail(book[k])) = Len(book[k]) - 1
      BY <2>1
    <3>2. <<Head(book[k]) - 1>> \in Seq(Int)
      BY <2>1
    <3>3. Len(book'[k]) = OrdersAtWork[k]
      BY <2>1, <2>3, <2>6, <3>1, <3>2 DEF OrdersAtWork
    <3>4. OrdersAtWork' = OrdersAtWork
      BY <2>4, <3>3 DEF OrdersAtWork
    <3>. QED BY <3>4
  <2>. QED BY <2>2, <2>5, <2>6
<1>. QED BY <1>1, <1>2 DEF Market

LEMMA StepImplements ==
  ASSUME Solo, Reliable
  PROVE  OrderInv /\ OrderInv' /\ [AnyStep]_vars => [Orders!Next]_OrdersAtWork
<1>. SUFFICES ASSUME OrderInv, OrderInv', [AnyStep]_vars
              PROVE  [Orders!Next]_OrdersAtWork
  OBVIOUS
<1>0. /\ TypeInv /\ TypeOK /\ AccountTypeOK
      /\ AtMostOneWorkingOrder /\ AtMostOneWorkingOrder'
  BY DEF OrderInv, TypeInv, TypeOK
<1>1. CASE UNCHANGED account
  BY <1>1 DEF account, OrdersAtWork
<1>2. ASSUME NEW p \in Proc, Sell(p), ~UNCHANGED account
      PROVE  [Orders!Next]_OrdersAtWork
  <2>. DEFINE s == ALL_TICKERS[next[p]]
              q == snap[p][s]
  <2>1. pc[p] = "sell" /\ next[p] \in 1..2
    BY <1>0, <1>2 DEF Sell, HasOpen, TypeOK
  <2>2. s \in Ticker /\ q \in Nat
    BY <1>0, <2>1, LoopFacts DEF TypeInv, Position
  <2>3. q > 0 /\ PlaceOrder(p, s, "SELL", q, "sell")
    BY <1>2 DEF Sell, HasOpen
  <2>4. PICK o \in PostOutcomes : Accept(s, "SELL", q, o[1])
    BY <2>3 DEF PlaceOrder
  <2>5. q \in Nat \ {0}
    BY <2>2, <2>3
  <2>. HIDE DEF s, q
  <2>. QED BY <1>0, <2>2, <2>4, <2>5, AcceptImplements DEF Side
<1>3. ASSUME NEW p \in Proc, Buy(p)
      PROVE  [Orders!Next]_OrdersAtWork
  <2>. DEFINE s == SymbolOf(target[p])
  <2>1. pc[p] = "order" /\ s \in Ticker /\ qty[p] \in Nat \ {0}
    BY <1>0, <1>3, SymbolFacts DEF Buy, TypeInv, TypeOK, BuySteps
  <2>2. PICK o \in PostOutcomes : Accept(s, "BUY", qty[p], o[1])
    BY <1>3 DEF Buy, PlaceOrder
  <2>. QED BY <1>0, <2>1, <2>2, AcceptImplements DEF Side
<1>4. CASE Market /\ UNCHANGED executor
  BY <1>0, <1>4, MarketImplements
<1>5. ASSUME NEW p \in Proc,
             \/ \E t \in Target, b \in Position \cup {NoBalance} : Begin(p, t, b)
             \/ Snapshot(p) \/ OpenOrders(p) \/ SellsDone(p)
             \/ PollSettlement(p) \/ BuyLeg(p) \/ Return(p) \/ Raise(p)
      PROVE  UNCHANGED account
  BY <1>5 DEF Begin, Snapshot, OpenOrders, SellsDone, PollSettlement, BuyLeg,
              Return, Raise
<1>6. ASSUME NEW p \in Proc, NEW t \in Target, Begin(p, t, NoBalance) \/ Begin(p, t, held)
      PROVE  UNCHANGED account
  BY <1>6 DEF Begin
<1>. QED BY <1>1, <1>2, <1>3, <1>4, <1>5, <1>6 DEF AnyStep, Next, Execute, vars

\* The order path keeps the promise of WorkingOrders, under the same
\* conditions as NoDoubleOrder.
THEOREM Implementation ==
  ASSUME Solo, Reliable
  PROVE  Spec => ImplementsWorkingOrders
<1>1. Init => Orders!Init
  BY DEF Init, AccountInit, Orders!Init, OrdersAtWork
<1>2. [Next]_vars => [AnyStep]_vars
  BY DEF AnyStep
<1>. QED BY <1>1, <1>2, InitOrders, StepOrders, StepImplements, PTL
         DEF Spec, ImplementsWorkingOrders, Orders!Spec

------------------------------------------------------------------------------
(* execute() ends *)

\* _wait_settlement starts counting at its first poll and stops at MaxPolls.
PollInv ==
  \A p \in Proc :
    /\ pc[p] \in {"idle", "snapshot", "open_orders", "sell"} => polls[p] = 0
    /\ pc[p] = "wait" => polls[p] < MaxPolls

LoopInv ==
  \A p \in Proc : pc[p] \in {"idle", "snapshot", "open_orders"} => next[p] = 1

AdvanceInv == TypeInv /\ PollInv /\ LoopInv

\* One call of place_order: the process is done with it, or it has gone on.
LEMMA PlaceOrderAdvances ==
  ASSUME TypeInv, NEW p \in Proc, NEW s, NEW d \in Side, NEW q, NEW goto \in Steps,
         pc[p] # "idle", PlaceOrder(p, s, d, q, goto)
  PROVE  /\ \A r \in Proc : r # p => /\ pc'[r] = pc[r] /\ polls'[r] = polls[r]
                                     /\ next'[r] = next[r]
         /\ \/ pc'[p] = "idle" /\ polls'[p] = 0 /\ next'[p] = 1
            \/ /\ pc'[p] = goto /\ polls'[p] = polls[p]
               /\ next'[p] = IF d = "SELL" THEN next[p] + 1 ELSE next[p]
<1>1. CASE Forget(p)
  BY <1>1 DEF Forget, TypeInv, TypeOK
<1>2. CASE /\ Goto(p, goto)
           /\ next' = [next EXCEPT ![p] = IF d = "SELL" THEN @ + 1 ELSE @]
           /\ UNCHANGED polls
  BY <1>2 DEF Goto, TypeInv, TypeOK
<1>. QED BY <1>1, <1>2 DEF PlaceOrder

\* What a step does to the place a process is at and to its two counters.
LEMMA StepAdvances ==
  ASSUME AdvanceInv, NEW p \in Proc, Execute(p)
  PROVE  /\ CallsLeft(p)' \in 0..(CallsLeft(p) - 1)
         /\ \A r \in Proc : r # p => /\ pc'[r] = pc[r] /\ polls'[r] = polls[r]
                                     /\ next'[r] = next[r]
         /\ pc'[p] \in {"idle", "snapshot", "open_orders", "sell"} => polls'[p] = 0
         /\ pc'[p] = "wait" => polls'[p] < MaxPolls
         /\ pc'[p] \in {"idle", "snapshot", "open_orders"} => next'[p] = 1
<1>. USE MaxPollsAssumption DEF AdvanceInv
<1>0. /\ polls[p] \in Nat /\ next[p] \in 1..3
      /\ pc \in [Proc -> Steps \cup {"idle"}]
      /\ polls \in [Proc -> Nat] /\ next \in [Proc -> 1..3]
  BY DEF TypeInv, TypeOK
<1>1. CASE Snapshot(p)
  BY <1>0, <1>1 DEF Snapshot, Goto, CallsLeft, PollInv, LoopInv
<1>2. CASE OpenOrders(p)
  BY <1>0, <1>2 DEF OpenOrders, Goto, CallsLeft, PollInv, LoopInv
<1>3. CASE Sell(p)
  <2>1. pc[p] = "sell" /\ next[p] \in 1..2 /\ polls[p] = 0
    BY <1>0, <1>3 DEF Sell, PollInv
  <2>2. CASE \E s, q : PlaceOrder(p, s, "SELL", q, "sell")
    <3>1. \/ pc'[p] = "idle" /\ polls'[p] = 0 /\ next'[p] = 1
          \/ pc'[p] = "sell" /\ polls'[p] = polls[p] /\ next'[p] = next[p] + 1
      BY <2>1, <2>2, PlaceOrderAdvances DEF Side, Steps
    <3>2. \A r \in Proc : r # p => /\ pc'[r] = pc[r] /\ polls'[r] = polls[r]
                                 /\ next'[r] = next[r]
      BY <2>1, <2>2, PlaceOrderAdvances DEF Side, Steps
    <3>. QED BY <1>0, <2>1, <3>1, <3>2 DEF CallsLeft
  <2>3. CASE /\ next' = [next EXCEPT ![p] = @ + 1]
             /\ UNCHANGED <<pc, polls>>
    BY <1>0, <2>1, <2>3 DEF CallsLeft
  <2>. QED BY <1>3, <2>2, <2>3 DEF Sell
<1>4. CASE SellsDone(p)
  BY <1>0, <1>4 DEF SellsDone, Goto, locals, CallsLeft, PollInv
<1>5. CASE PollSettlement(p)
  BY <1>0, <1>5 DEF PollSettlement, Goto, CallsLeft, PollInv
<1>6. CASE BuyLeg(p)
  <2>1. /\ pc[p] = "buy" /\ UNCHANGED <<next, polls>>
        /\ pc' = [pc EXCEPT ![p] = "done"] \/ pc' = [pc EXCEPT ![p] = "order"]
    BY <1>6 DEF BuyLeg, Goto
  <2>. QED BY <1>0, <2>1 DEF CallsLeft
<1>7. CASE Buy(p)
  <2>1. pc[p] = "order" /\ PlaceOrder(p, SymbolOf(target[p]), "BUY", qty[p], "done")
    BY <1>7 DEF Buy
  <2>2. \/ pc'[p] = "idle" /\ polls'[p] = 0 /\ next'[p] = 1
        \/ pc'[p] = "done"
    BY <2>1, PlaceOrderAdvances DEF Side, Steps
  <2>3. \A r \in Proc : r # p => /\ pc'[r] = pc[r] /\ polls'[r] = polls[r]
                               /\ next'[r] = next[r]
    BY <2>1, PlaceOrderAdvances DEF Side, Steps
  <2>. QED BY <2>1, <2>2, <2>3 DEF CallsLeft
<1>. QED BY <1>1, <1>2, <1>3, <1>4, <1>5, <1>6, <1>7 DEF Execute

LEMMA StepKeepsAdvanceInv == AdvanceInv /\ [AnyStep]_vars => AdvanceInv'
<1>. SUFFICES ASSUME AdvanceInv, [AnyStep]_vars PROVE AdvanceInv'
  OBVIOUS
<1>1. TypeInv'
  BY StepTypes DEF AdvanceInv
<1>2. ASSUME NEW p \in Proc, Execute(p)
      PROVE  PollInv' /\ LoopInv'
  BY <1>2, StepAdvances DEF AdvanceInv, PollInv, LoopInv
<1>3. ASSUME NEW p \in Proc, NEW t \in Target, NEW b, Begin(p, t, b)
      PROVE  PollInv' /\ LoopInv'
  BY <1>3 DEF Begin, Goto, AdvanceInv, PollInv, LoopInv, TypeInv, TypeOK
<1>4. ASSUME NEW p \in Proc, Forget(p)
      PROVE  PollInv' /\ LoopInv'
  BY <1>4 DEF Forget, AdvanceInv, PollInv, LoopInv, TypeInv, TypeOK
<1>5. ASSUME UNCHANGED executor
      PROVE  PollInv' /\ LoopInv'
  <2>1. pc' = pc /\ polls' = polls /\ next' = next
    BY <1>5 DEF executor, locals
  <2>2. PollInv /\ LoopInv
    BY DEF AdvanceInv
  <2>. QED BY <2>1, <2>2 DEF PollInv, LoopInv
<1>. QED BY <1>1, <1>2, <1>3, <1>4, <1>5
         DEF AnyStep, Next, Return, Raise, vars, AdvanceInv

LEMMA InitAdvances == Init => AdvanceInv
BY InitTypes DEF AdvanceInv, PollInv, LoopInv, Init, ExecutorInit, TypeInv, TypeOK

\* Every call execute() makes leaves fewer calls to be made, whatever its
\* broker answers: the loop over the tickers and the polls are bounded.
THEOREM ExecuteTerminates == Spec => ExecuteAdvances
<1>1. AdvanceInv /\ [Next]_vars =>
        /\ AdvanceInv'
        /\ [\A p \in Proc : Execute(p) => CallsLeft(p)' \in 0..(CallsLeft(p) - 1)]_vars
  BY StepAdvances, StepKeepsAdvanceInv DEF AnyStep
<1>. QED BY <1>1, InitAdvances, PTL DEF Spec, ExecuteAdvances


------------------------------------------------------------------------------
(* A paused run.  The flag read at the gate is the one the run was triggered *)
(* under, unless the user has resumed the bot in between.                    *)

PausedInv ==
  pausedOn => paused /\ accepted = {} /\ step \in {"off", "gate"}

LEMMA PausedStep == PausedInv /\ [CycleNext]_allvars => PausedInv'
<1>. SUFFICES ASSUME PausedInv, [CycleNext]_allvars PROVE PausedInv'
  OBVIOUS
<1>. USE DEF PausedInv
<1>1. CASE Trigger
  BY <1>1 DEF Trigger
<1>2. CASE Gate
  BY <1>2 DEF Gate, End, Proceed, ghosts
<1>3. CASE Day \/ MarketData \/ Decide \/ Before \/ CallExecute \/ RunExecutor
           \/ Settlement \/ After \/ Record \/ Report
  BY <1>3 DEF Day, MarketData, Decide, Before, CallExecute, RunExecutor,
              Settlement, After, Record, Report, ghosts
<1>4. CASE Die
  BY <1>4 DEF Die, End, ghosts
<1>5. CASE Pause \/ Resume
  BY <1>5 DEF Pause, Resume, ghosts, run
<1>6. CASE MarketMoves
  BY <1>6 DEF MarketMoves, run
<1>7. CASE UNCHANGED allvars
  BY <1>7 DEF allvars, cycle, run, ghosts
<1>. QED BY <1>1, <1>2, <1>3, <1>4, <1>5, <1>6, <1>7 DEF CycleNext, RunCycle

\* strategy_cycle.run_cycle: a run triggered while the bot is paused, and not
\* resumed since, never has an order at the broker.
THEOREM PausedNeverTrades == CycleSpec => []PausedRunNeverTrades
<1>1. CycleInit => PausedInv
  BY DEF CycleInit, PausedInv
<1>2. PausedInv => PausedRunNeverTrades
  BY DEF PausedInv, PausedRunNeverTrades
<1>. QED BY <1>1, <1>2, PausedStep, PTL DEF CycleSpec

------------------------------------------------------------------------------
(* Types *)

CycleTypeInv == CycleTypeOK /\ TypeInv

\* What the cycle does to the executor and the account is what they may do.
LEMMA CycleIsStep == CycleTypeInv /\ [CycleNext]_allvars => [AnyStep]_vars
<1>. SUFFICES ASSUME CycleTypeInv, [CycleNext]_allvars PROVE [AnyStep]_vars
  OBVIOUS
<1>1. cron \in Proc
  BY CycleAssumption
<1>2. CASE CallExecute
  <2>1. \E b \in Position \cup {NoBalance} : Begin(cron, signal, b)
    BY <1>2 DEF CallExecute, CycleTypeInv, CycleTypeOK
  <2>. QED BY <1>1, <2>1 DEF AnyStep, CycleTypeInv, CycleTypeOK
<1>3. CASE RunExecutor \/ Settlement \/ Report \/ Die
  <2>1. Execute(cron) \/ Return(cron) \/ Raise(cron) \/ UNCHANGED vars
    BY <1>3 DEF RunExecutor, Settlement, Report, Die
  <2>. QED BY <1>1, <2>1 DEF AnyStep, Next
<1>4. CASE MarketMoves
  BY <1>4 DEF MarketMoves, AnyStep, Next
<1>5. CASE \/ Trigger \/ Gate \/ Day \/ MarketData \/ Decide \/ Before
           \/ After \/ Record \/ Pause \/ Resume
  BY <1>5 DEF Trigger, Gate, Day, MarketData, Decide, Before, After, Record,
              Pause, Resume
<1>6. CASE UNCHANGED allvars
  BY <1>6 DEF allvars
<1>. QED BY <1>2, <1>3, <1>4, <1>5, <1>6 DEF CycleNext, RunCycle

\* Results and messages.
LEMMA CycleTypeStep == CycleTypeInv /\ [CycleNext]_allvars => CycleTypeInv'
<1>. SUFFICES ASSUME CycleTypeInv, [CycleNext]_allvars PROVE CycleTypeInv'
  OBVIOUS
<1>1. TypeInv' /\ TypeOK'
  BY CycleIsStep, StepTypes DEF CycleTypeInv, TypeInv
<1>2. /\ NoPosition \in Position /\ "CASH" \in Target
      /\ \A h \in BalanceAnswers : h \in Position
  BY BalanceFacts DEF NoPosition, Position, Target, CycleTypeInv, CycleTypeOK,
                      TypeOK
<1>. USE DEF CycleTypeInv, CycleTypeOK, End, Proceed, StepName, Result, Message
<1>3. CASE Trigger
  <2>1. [k \in Slot |-> 0] \in [Slot -> Nat]
    OBVIOUS
  <2>. QED BY <1>1, <1>3, <2>1 DEF Trigger
<1>4. CASE Gate \/ Day \/ MarketData
  BY <1>1, <1>2, <1>4 DEF Gate, Day, MarketData, ghosts
<1>5. CASE Decide
  BY <1>1, <1>5, CycleAssumption DEF Decide, ghosts
<1>6. CASE Before \/ CallExecute
  BY <1>1, <1>2, <1>6 DEF Before, CallExecute, ghosts
<1>7. CASE RunExecutor
  BY <1>1, <1>2, <1>7 DEF RunExecutor, run
<1>8. CASE Settlement \/ Report
  BY <1>1, <1>2, <1>8 DEF Settlement, Report, ghosts
<1>9. CASE After \/ Record
  <2>1. PlacedSlots \subseteq Slot
    BY DEF PlacedSlots, Slot, Side
  <2>. QED BY <1>1, <1>2, <1>9, <2>1 DEF After, Record, ghosts
<1>10. CASE Die \/ Pause \/ Resume
  BY <1>1, <1>2, <1>10 DEF Die, Pause, Resume, run, ghosts
<1>11. CASE MarketMoves
  <2>1. filled' \in [Slot -> Nat]
    BY <1>11 DEF MarketMoves
  <2>. QED BY <1>1, <1>11, <2>1 DEF MarketMoves, run
<1>12. CASE UNCHANGED allvars
  BY <1>1, <1>12 DEF allvars, cycle, run, ghosts
<1>. QED BY <1>3, <1>4, <1>5, <1>6, <1>7, <1>8, <1>9, <1>10, <1>11, <1>12
         DEF CycleNext, RunCycle

LEMMA CycleInitTypes == CycleInit => CycleTypeInv
<1>1. NoPosition \in Position /\ [k \in Slot |-> 0] \in [Slot -> Nat]
  BY DEF NoPosition, Position
<1>. QED BY <1>1, InitTypes DEF CycleInit, CycleTypeInv, CycleTypeOK, TypeInv,
     StepName, Result, Message, Target

\* Every variable of the cycle keeps its type.
THEOREM CycleTypeCorrect == CycleSpec => []CycleTypeOK
<1>1. CycleTypeInv => CycleTypeOK
  BY DEF CycleTypeInv
<1>. QED BY <1>1, CycleInitTypes, CycleTypeStep, PTL DEF CycleSpec

------------------------------------------------------------------------------
(* The trade log.  While execute() runs, every order the broker accepted    *)
(* belongs to a placed leg, and every accepted leg has an order there.      *)

SideOf(t, s) == IF s = SymbolOf(t) THEN "BUY" ELSE "SELL"
SlotOf(t, s) == <<s, SideOf(t, s)>>
Grown == {k \in Slot : Len(book'[k]) > Len(book[k])}

\* A leg is written once: the legs of the sells ahead and of the buy are free.
FreeLegs(p) ==
  /\ pc[p] \in {"idle", "snapshot", "open_orders"} =>
       next[p] = 1 /\ \A s \in Ticker : leg[p][s].state = "none"
  /\ pc[p] = "sell" =>
       \A i \in 1..2 : next[p] <= i => leg[p][ALL_TICKERS[i]].state = "none"
  /\ pc[p] \in {"sell", "wait", "buy", "order"} /\ target[p] # "CASH" =>
       leg[p][SymbolOf(target[p])].state = "none"

\* What a step of execute() does to the legs and the orders.
QuietStep(p) ==
  /\ UNCHANGED <<account, target>>
  /\ pc'[p] # "idle"
  /\ \A s \in Ticker : placed(p, s)' = placed(p, s)
                       /\ (leg'[p][s].state = "accepted"
                             <=> leg[p][s].state = "accepted")
                       /\ (placed(p, s) => leg'[p][s] = leg[p][s])

PlacingStep(p) ==
  \E s \in Ticker, q \in Nat \ {0}, o \in PostOutcomes :
    /\ Grown \subseteq {SlotOf(target[p], s)}
    /\ Accept(s, SideOf(target[p], s), q, o[1])
    /\ UNCHANGED target
    /\ pc'[p] # "idle"
    /\ leg[p][s].state = "none"
    /\ leg'[p][s] = [state |-> o[2], quantity |-> q]
    /\ placed(p, s)'
    /\ leg'[p][s].state = "accepted" => SlotOf(target[p], s) \in Grown
    /\ \A r \in Ticker : r # s => leg'[p][r] = leg[p][r]

LEMMA AcceptGrows ==
  ASSUME AccountTypeOK, NEW s \in Ticker, NEW d \in Side, NEW q \in Nat \ {0},
         NEW n \in Nat, Accept(s, d, q, n)
  PROVE  Grown = IF n = 0 THEN {} ELSE {<<s, d>>}
<1>. DEFINE k == <<s, d>>
<1>1. /\ k \in Slot
      /\ book[k] \in Seq(Nat \ {0})
      /\ book'[k] = book[k] \o [i \in 1..n |-> q]
      /\ \A j \in Slot : j # k => book'[j] = book[j]
  BY DEF Slot, AccountTypeOK, Accept
<1>2. /\ [i \in 1..n |-> q] \in Seq(Nat \ {0})
      /\ Len([i \in 1..n |-> q]) = n
  OBVIOUS
<1>3. Len(book'[k]) = Len(book[k]) + n /\ Len(book[k]) \in Nat
  BY <1>1, <1>2
<1>4. \A j \in Slot : j # k => ~(Len(book'[j]) > Len(book[j]))
  <2>. SUFFICES ASSUME NEW j \in Slot, j # k
                PROVE  ~(Len(book'[j]) > Len(book[j]))
    OBVIOUS
  <2>1. book'[j] = book[j] /\ Len(book[j]) \in Nat
    BY <1>1 DEF AccountTypeOK
  <2>. QED BY <2>1
<1>5. Len(book'[k]) > Len(book[k]) <=> n # 0
  BY <1>3
<1>. QED BY <1>1, <1>4, <1>5 DEF Grown

LEMMA PlaceOrderLegs ==
  ASSUME TypeInv, NEW p \in Proc, NEW s \in Ticker, NEW q \in Nat \ {0},
         NEW after_it \in {"sell", "done"}, leg[p][s].state = "none",
         PlaceOrder(p, s, SideOf(target[p], s), q, after_it)
  PROVE  PlacingStep(p) \/ pc'[p] = "idle"
<1>. DEFINE d == SideOf(target[p], s)
<1>1. PICK o \in PostOutcomes :
        /\ Accept(s, d, q, o[1])
        /\ IF o[2] = "raised"
             THEN Forget(p)
             ELSE /\ AddLeg(p, s, o[2], q)
                  /\ Goto(p, after_it)
                  /\ UNCHANGED <<target, snap, seen, polls, qty>>
  BY DEF PlaceOrder
<1>2. AccountTypeOK /\ d \in Side /\ o[1] \in Nat
  BY OutcomeFacts DEF TypeInv, TypeOK, SideOf, Side
<1>3. Grown = IF o[1] = 0 THEN {} ELSE {<<s, d>>}
  <2>. HIDE DEF d
  <2>. QED BY <1>1, <1>2, AcceptGrows
<1>4. CASE o[2] = "raised"
  BY <1>1, <1>4 DEF Forget, TypeInv, TypeOK
<1>5. CASE o[2] # "raised"
  <2>1. o[2] \in {"accepted", "rejected"} /\ (o[2] = "accepted" => o[1] # 0)
    BY <1>5 DEF PostOutcomes
  <2>2. /\ leg'[p][s] = [state |-> o[2], quantity |-> q]
        /\ \A r \in Ticker : r # s => leg'[p][r] = leg[p][r]
        /\ pc'[p] # "idle"
        /\ UNCHANGED target
    BY <1>1, <1>5 DEF AddLeg, Goto, TypeInv, TypeOK
  <2>3. placed(p, s)' /\ (leg'[p][s].state = "accepted" => o[1] # 0)
    BY <2>1, <2>2 DEF placed
  <2>. QED BY <1>1, <1>3, <2>2, <2>3 DEF PlacingStep, SlotOf
<1>. QED BY <1>4, <1>5

LEMMA ExecuteLegs ==
  ASSUME TypeInv, NEW p \in Proc, FreeLegs(p), Execute(p)
  PROVE  QuietStep(p) \/ PlacingStep(p) \/ pc'[p] = "idle"
<1>0. TypeOK
  BY DEF TypeInv
<1>1. CASE Snapshot(p) \/ OpenOrders(p) \/ SellsDone(p) \/ PollSettlement(p)
  BY <1>0, <1>1 DEF Snapshot, OpenOrders, SellsDone, PollSettlement, Goto,
                    locals, QuietStep, placed, TypeOK
<1>2. CASE Sell(p)
  <2>. DEFINE s == ALL_TICKERS[next[p]]
              q == snap[p][s]
  <2>1. pc[p] = "sell" /\ next[p] \in 1..2
    BY <1>0, <1>2 DEF Sell, TypeOK
  <2>2. s \in Ticker /\ q \in Nat /\ leg[p][s].state = "none"
    BY <2>1, LoopFacts DEF TypeInv, Position, FreeLegs
  <2>3. CASE /\ s # SymbolOf(target[p]) /\ q > 0
             /\ PlaceOrder(p, s, "SELL", q, "sell")
    <3>1. SideOf(target[p], s) = "SELL"
      BY <2>3 DEF SideOf
    <3>2. q \in Nat \ {0}
      BY <2>2, <2>3
    <3>. HIDE DEF s, q
    <3>. QED BY <2>2, <2>3, <3>1, <3>2, PlaceOrderLegs
  <2>4. CASE /\ AddLeg(p, s, "already_pending", q) \/ UNCHANGED leg
             /\ UNCHANGED <<account, pc, target, snap, seen, polls, qty>>
    <3>1. /\ \A r \in Ticker : r # s => leg'[p][r] = leg[p][r]
          /\ leg'[p][s].state \in {"already_pending", "none"}
      BY <1>0, <2>2, <2>4 DEF AddLeg, TypeOK
    <3>. HIDE DEF s, q
    <3>. QED BY <2>1, <2>2, <2>4, <3>1 DEF QuietStep, placed
  <2>. QED BY <1>2, <2>3, <2>4 DEF Sell
<1>3. CASE BuyLeg(p)
  <2>. DEFINE s == SymbolOf(target[p])
  <2>1. /\ pc[p] = "buy" /\ target[p] # "CASH"
        /\ UNCHANGED <<account, target, snap, seen, next, polls>>
    BY <1>3 DEF BuyLeg, TypeInv, BuySteps
  <2>2. s \in Ticker /\ leg[p][s].state = "none"
    BY <1>0, <2>1, SymbolFacts DEF FreeLegs, TypeOK
  <2>3. CASE \E r \in Reason, n \in Nat \cup {0} : AddLeg(p, s, r, n)
             /\ Goto(p, "done")
    <3>1. /\ \A r \in Ticker : r # s => leg'[p][r] = leg[p][r]
          /\ leg'[p][s].state \in Reason
          /\ pc'[p] = "done"
      BY <1>0, <2>2, <2>3 DEF AddLeg, Goto, TypeOK
    <3>. HIDE DEF s
    <3>. QED BY <2>1, <2>2, <3>1 DEF QuietStep, placed, Reason
  <2>4. CASE Goto(p, "order") /\ UNCHANGED leg
    BY <1>0, <2>1, <2>4 DEF QuietStep, placed, Goto, TypeOK
  <2>5. snap[p][s] \in Nat
    BY <2>1, <2>2 DEF TypeInv, Position
  <2>6. "already_holding_target" \in Reason /\ "already_pending" \in Reason
        /\ "insufficient_cash" \in Reason
    BY DEF Reason
  <2>. QED BY <1>3, <2>3, <2>4, <2>5, <2>6 DEF BuyLeg
<1>4. CASE Buy(p)
  <2>. DEFINE s == SymbolOf(target[p])
  <2>1. /\ s \in Ticker /\ leg[p][s].state = "none" /\ qty[p] \in Nat \ {0}
    BY <1>0, <1>4, SymbolFacts DEF Buy, FreeLegs, TypeInv, TypeOK, BuySteps
  <2>2. SideOf(target[p], s) = "BUY"
    BY DEF SideOf
  <2>. HIDE DEF s
  <2>. QED BY <1>4, <2>1, <2>2, PlaceOrderLegs DEF Buy, s
<1>. QED BY <1>1, <1>2, <1>3, <1>4 DEF Execute

LEMMA FreeLegsExecute ==
  ASSUME TypeInv, NEW p \in Proc, FreeLegs(p),
         \/ \E t \in Target, b \in Position \cup {NoBalance} : Begin(p, t, b)
         \/ Execute(p) \/ Return(p) \/ Raise(p)
  PROVE  FreeLegs(p)'
<1>0. TypeOK
  BY DEF TypeInv
<1>1. CASE \E t \in Target, b \in Position \cup {NoBalance} : Begin(p, t, b)
  BY <1>0, <1>1 DEF Begin, Goto, FreeLegs, TypeOK
<1>2. ASSUME Forget(p) PROVE FreeLegs(p)'
  BY <1>0, <1>2 DEF Forget, NoLeg, FreeLegs, TypeOK
<1>3. CASE Return(p) \/ Raise(p)
  BY <1>2, <1>3 DEF Return, Raise
<1>4. CASE Snapshot(p)
  BY <1>0, <1>4 DEF Snapshot, Goto, FreeLegs, TypeOK
<1>5. CASE OpenOrders(p)
  <2>1. /\ pc[p] = "open_orders" /\ pc'[p] = "sell"
        /\ UNCHANGED <<target, leg, next>>
    BY <1>0, <1>5 DEF OpenOrders, Goto, TypeOK
  <2>2. \A s \in Ticker : leg'[p][s].state = "none"
    BY <2>1 DEF FreeLegs
  <2>. QED BY <1>0, <2>1, <2>2, SymbolFacts, LoopFacts DEF FreeLegs, TypeOK
<1>6. CASE SellsDone(p) \/ PollSettlement(p)
  BY <1>0, <1>6 DEF SellsDone, PollSettlement, Goto, locals, FreeLegs, TypeOK
<1>7. CASE Sell(p)
  <2>. DEFINE s == ALL_TICKERS[next[p]]
  <2>1. pc[p] = "sell" /\ next[p] \in 1..2
    BY <1>0, <1>7 DEF Sell, TypeOK
  <2>2. s \in Ticker /\ snap[p][s] \in Nat
    BY <2>1, LoopFacts DEF TypeInv, Position
  <2>3. \/ pc'[p] = "idle" /\ Forget(p)
        \/ /\ pc'[p] = "sell"
           /\ next'[p] = next[p] + 1
           /\ UNCHANGED target
           /\ \/ UNCHANGED leg
              \/ /\ s # SymbolOf(target[p])
                 /\ \A r \in Ticker : r # s => leg'[p][r] = leg[p][r]
    <3>1. CASE /\ s # SymbolOf(target[p])
               /\ PlaceOrder(p, s, "SELL", snap[p][s], "sell")
      <4>1. PICK o \in PostOutcomes :
              IF o[2] = "raised"
                THEN Forget(p)
                ELSE /\ AddLeg(p, s, o[2], snap[p][s])
                     /\ Goto(p, "sell")
                     /\ next' = [next EXCEPT ![p] = @ + 1]
                     /\ UNCHANGED <<target, snap, seen, polls, qty>>
        BY <3>1 DEF PlaceOrder
      <4>. QED BY <1>0, <2>2, <3>1, <4>1 DEF AddLeg, Goto, Forget, TypeOK
    <3>2. CASE /\ next' = [next EXCEPT ![p] = @ + 1]
               /\ IF s # SymbolOf(target[p]) /\ snap[p][s] > 0
                    THEN AddLeg(p, s, "already_pending", snap[p][s])
                    ELSE UNCHANGED leg
               /\ UNCHANGED <<account, pc, target, snap, seen, polls, qty>>
      BY <1>0, <2>1, <2>2, <3>2 DEF AddLeg, TypeOK
    <3>. QED BY <1>7, <3>1, <3>2 DEF Sell
  <2>4. CASE /\ pc'[p] = "sell"
             /\ next'[p] = next[p] + 1
             /\ UNCHANGED target
             /\ \/ UNCHANGED leg
                \/ /\ s # SymbolOf(target[p])
                   /\ \A r \in Ticker : r # s => leg'[p][r] = leg[p][r]
    <3>1. \A i \in 1..2 : next'[p] <= i => leg'[p][ALL_TICKERS[i]].state = "none"
      BY <2>1, <2>4, LoopFacts DEF FreeLegs
    <3>2. target[p] # "CASH" => leg'[p][SymbolOf(target[p])].state = "none"
      BY <1>0, <2>1, <2>4, SymbolFacts DEF FreeLegs, TypeOK
    <3>. QED BY <2>4, <3>1, <3>2 DEF FreeLegs
  <2>. QED BY <1>2, <2>3, <2>4
<1>8. CASE BuyLeg(p)
  BY <1>0, <1>8 DEF BuyLeg, AddLeg, Goto, FreeLegs, TypeOK
<1>9. CASE Buy(p)
  <2>1. pc'[p] = "done" \/ Forget(p)
    BY <1>0, <1>9 DEF Buy, PlaceOrder, Goto, TypeOK
  <2>. QED BY <1>2, <2>1 DEF FreeLegs
<1>. QED BY <1>1, <1>3, <1>4, <1>5, <1>6, <1>7, <1>8, <1>9 DEF Execute

AcceptedSlots ==
  {SlotOf(target[cron], s) :
     s \in {t \in Ticker : leg[cron][t].state = "accepted"}}

\* A cycle writes no row of an order the broker did not accept.
RowsAccepted == logged \subseteq accepted

\* Where the run is, what its executor is doing, and what it has logged.
LogInv ==
  /\ CycleTypeInv
  /\ FreeLegs(cron)
  /\ step \in {"off", "gate", "day", "market", "decide", "before", "nav"} =>
       pc[cron] = "idle"
  /\ step \in {"gate", "day", "market", "decide", "before", "nav"} =>
       accepted = {} /\ logged = {}
  /\ step = "execute" => /\ pc[cron] # "idle"
                         /\ logged = {}
                         /\ AcceptedSlots \subseteq accepted
                         /\ accepted \subseteq PlacedSlots
  /\ step \in {"after", "record", "report"} =>
       pc[cron] = "done" /\ accepted = PlacedSlots
  /\ step \in {"after", "record"} => logged = {}
  /\ step = "report" => logged = accepted
  /\ step # "off" => status # "EXECUTED"
  /\ RowsAccepted
  /\ ExecutedRunIsLogged

LEMMA PlacedAre ==
  PlacedSlots = {SlotOf(target[cron], s) : s \in {t \in Ticker : placed(cron, t)}}
BY DEF PlacedSlots, SlotOf, SideOf

LEMMA RunExecutorLogs ==
  ASSUME LogInv, CycleTypeInv', RunExecutor
  PROVE  LogInv'
<1>1. cron \in Proc
  BY CycleAssumption
<1>2. TypeInv /\ FreeLegs(cron) /\ Execute(cron) /\ step = "execute"
  BY DEF LogInv, CycleTypeInv, RunExecutor
<1>3. FreeLegs(cron)'
  BY <1>1, <1>2, FreeLegsExecute
<1>4. accepted' = accepted \cup Grown /\ UNCHANGED logged /\ logged = {}
  BY <1>2 DEF RunExecutor, Grown, LogInv
<1>5. CASE pc'[cron] = "idle"
  <2>1. step' = "off" /\ status' = "raised"
    BY <1>5 DEF RunExecutor, End
  <2>. QED BY <1>3, <1>4, <1>5, <2>1
           DEF LogInv, RowsAccepted, ExecutedRunIsLogged
<1>6. CASE pc'[cron] # "idle"
  <2>1. step' = "execute" /\ status' = status /\ status # "EXECUTED"
    BY <1>2, <1>6 DEF RunExecutor, run, LogInv
  <2>2. AcceptedSlots \subseteq accepted /\ accepted \subseteq PlacedSlots
    BY <1>2 DEF LogInv
  <2>3. CASE QuietStep(cron)
    <3>1. UNCHANGED target /\ Grown = {}
      <4>1. \A k \in Slot : Len(book[k]) \in Nat
        BY <1>2 DEF TypeInv, TypeOK, AccountTypeOK
      <4>. QED BY <2>3, <4>1 DEF QuietStep, Grown, account
    <3>2. AcceptedSlots' = AcceptedSlots /\ PlacedSlots' = PlacedSlots
      BY <2>3, <3>1 DEF QuietStep, AcceptedSlots, PlacedSlots
    <3>. QED BY <1>3, <1>4, <1>6, <2>1, <2>2, <3>1, <3>2
             DEF LogInv, RowsAccepted, ExecutedRunIsLogged
  <2>4. CASE PlacingStep(cron)
    <3>1. PICK s \in Ticker :
            /\ Grown \subseteq {SlotOf(target[cron], s)}
            /\ UNCHANGED target
            /\ leg[cron][s].state = "none"
            /\ placed(cron, s)'
            /\ leg'[cron][s].state = "accepted" => SlotOf(target[cron], s) \in Grown
            /\ \A r \in Ticker : r # s => leg'[cron][r] = leg[cron][r]
      BY <2>4 DEF PlacingStep
    <3>2. AcceptedSlots' \subseteq AcceptedSlots \cup Grown
      BY <3>1 DEF AcceptedSlots
    <3>3. PlacedSlots \cup Grown \subseteq PlacedSlots'
      <4>1. \A r \in Ticker : placed(cron, r) => placed(cron, r)'
        BY <3>1 DEF placed
      <4>2. PlacedSlots' = {SlotOf(target[cron], r) :
                              r \in {t \in Ticker : placed(cron, t)'}}
        BY <3>1, PlacedAre DEF PlacedSlots, SlotOf, SideOf
      <4>. QED BY <3>1, <4>1, <4>2, PlacedAre
    <3>. QED BY <1>3, <1>4, <1>6, <2>1, <2>2, <3>2, <3>3
             DEF LogInv, RowsAccepted, ExecutedRunIsLogged
  <2>. QED BY <1>1, <1>2, <1>6, <2>3, <2>4, ExecuteLegs
<1>. QED BY <1>5, <1>6

LEMMA EndKeepsLogs ==
  ASSUME LogInv, CycleTypeInv', step' = "off",
         UNCHANGED <<accepted, logged>>,
         pc'[cron] = "idle" /\ FreeLegs(cron)',
         status' = "EXECUTED" => logged = accepted
  PROVE  LogInv'
BY DEF LogInv, RowsAccepted, ExecutedRunIsLogged

LEMMA LogStep == LogInv /\ [CycleNext]_allvars => LogInv'
<1>. SUFFICES ASSUME LogInv, [CycleNext]_allvars PROVE LogInv'
  OBVIOUS
<1>0. CycleTypeInv /\ CycleTypeInv' /\ TypeInv /\ FreeLegs(cron) /\ cron \in Proc
  BY CycleTypeStep, CycleAssumption DEF LogInv, CycleTypeInv
<1>1. ASSUME UNCHANGED executor PROVE FreeLegs(cron)'
  BY <1>0, <1>1 DEF executor, locals, FreeLegs
<1>2. vars' = vars => UNCHANGED executor
  BY DEF vars
<1>3. CASE Trigger
  BY <1>0, <1>1, <1>2, <1>3 DEF Trigger, vars, executor, LogInv,
     RowsAccepted, ExecutedRunIsLogged
<1>4. CASE Gate \/ Day \/ MarketData \/ Before
  <2>1. /\ UNCHANGED <<vars, accepted, logged>>
        /\ pc[cron] = "idle" /\ pc'[cron] = "idle"
        /\ accepted = {} /\ logged = {}
        /\ status # "EXECUTED"
    BY <1>4 DEF Gate, Day, MarketData, Before, ghosts, vars, executor, LogInv
  <2>2. \/ step' = "off" /\ status' # "EXECUTED"
        \/ step' \in {"day", "market", "decide", "nav"} /\ status' = status
    BY <1>4 DEF Gate, Day, MarketData, Before, End, Proceed
  <2>. QED BY <1>0, <1>1, <1>2, <2>1, <2>2
           DEF LogInv, RowsAccepted, ExecutedRunIsLogged
<1>5. CASE Decide
  BY <1>0, <1>1, <1>2, <1>5 DEF Decide, Proceed, ghosts, vars, executor,
     LogInv, RowsAccepted, ExecutedRunIsLogged
<1>6. CASE CallExecute
  <2>1. PICK b \in Position \cup {NoBalance} : Begin(cron, signal, b)
    BY <1>0, <1>6 DEF CallExecute, CycleTypeInv, CycleTypeOK
  <2>2. FreeLegs(cron)'
    BY <1>0, <2>1, FreeLegsExecute DEF CycleTypeInv, CycleTypeOK
  <2>3. pc'[cron] = "snapshot" /\ leg' = leg /\ pc[cron] = "idle"
    BY <1>0, <2>1 DEF Begin, Goto, TypeInv, TypeOK
  <2>4. \A s \in Ticker : leg'[cron][s].state = "none"
    BY <1>0, <2>3 DEF FreeLegs
  <2>5. AcceptedSlots' = {}
    BY <2>4 DEF AcceptedSlots
  <2>. QED BY <1>0, <1>6, <2>2, <2>3, <2>5 DEF CallExecute, Proceed, ghosts,
              LogInv, RowsAccepted, ExecutedRunIsLogged
<1>7. CASE RunExecutor
  BY <1>0, <1>7, RunExecutorLogs
<1>8. CASE Settlement
  <2>1. /\ pc[cron] = "done" /\ step = "execute"
        /\ UNCHANGED <<accepted, logged>>
        /\ logged = {}
    BY <1>8 DEF Settlement, ghosts, LogInv
  <2>2. CASE settled /\ Proceed("after") /\ UNCHANGED vars
    <3>1. PlacedSlots \subseteq AcceptedSlots
      BY <2>2, PlacedAre DEF settled, placed, AcceptedSlots
    <3>2. accepted = PlacedSlots
      BY <2>1, <3>1 DEF LogInv
    <3>3. PlacedSlots' = PlacedSlots /\ pc'[cron] = "done" /\ UNCHANGED executor
      BY <2>1, <2>2 DEF vars, executor, locals, PlacedSlots, placed
    <3>. QED BY <1>0, <1>1, <2>1, <2>2, <3>2, <3>3 DEF Proceed, LogInv,
                RowsAccepted, ExecutedRunIsLogged
  <2>3. CASE Return(cron) /\ step' = "off" /\ status' = "INCOMPLETE"
    <3>1. pc'[cron] = "idle"
      BY <1>0, <2>3 DEF Return, Forget, TypeInv, TypeOK
    <3>2. FreeLegs(cron)'
      BY <1>0, <2>3, FreeLegsExecute
    <3>. QED BY <1>0, <2>1, <2>3, <3>1, <3>2, EndKeepsLogs
  <2>. QED BY <1>8, <2>2, <2>3 DEF Settlement, End
<1>9. CASE After \/ Record
  <2>1. PlacedSlots' = PlacedSlots /\ UNCHANGED executor
    BY <1>9 DEF After, Record, vars, executor, locals, PlacedSlots, placed
  <2>2. CASE After
    BY <1>0, <1>1, <2>1, <2>2 DEF After, Proceed, ghosts, executor, LogInv,
       RowsAccepted, ExecutedRunIsLogged
  <2>3. CASE Record
    BY <1>0, <1>1, <2>1, <2>3 DEF Record, Proceed, executor, LogInv,
       RowsAccepted, ExecutedRunIsLogged
  <2>. QED BY <1>9, <2>2, <2>3
<1>10. CASE Report
  <2>1. Return(cron) /\ step' = "off" /\ UNCHANGED <<accepted, logged>>
        /\ logged = accepted
    BY <1>10 DEF Report, End, ghosts, LogInv
  <2>2. pc'[cron] = "idle"
    BY <1>0, <2>1 DEF Return, Forget, TypeInv, TypeOK
  <2>3. FreeLegs(cron)'
    BY <1>0, <2>1, FreeLegsExecute
  <2>. QED BY <1>0, <2>1, <2>2, <2>3, EndKeepsLogs
<1>11. CASE Die
  <2>1. step' = "off" /\ status' = "raised" /\ UNCHANGED <<accepted, logged>>
    BY <1>11 DEF Die, End, ghosts
  <2>2. CASE pc[cron] = "idle" /\ UNCHANGED vars
    BY <1>0, <1>1, <1>2, <2>1, <2>2, EndKeepsLogs DEF vars, executor
  <2>3. CASE Raise(cron)
    <3>1. pc'[cron] = "idle"
      BY <1>0, <2>3 DEF Raise, Forget, TypeInv, TypeOK
    <3>2. FreeLegs(cron)'
      BY <1>0, <2>3, FreeLegsExecute
    <3>. QED BY <1>0, <2>1, <3>1, <3>2, EndKeepsLogs
  <2>. QED BY <1>11, <2>2, <2>3 DEF Die
<1>12. CASE Pause \/ Resume \/ MarketMoves \/ UNCHANGED allvars
  <2>1. /\ UNCHANGED <<executor, step, status, accepted, logged>>
    BY <1>12 DEF Pause, Resume, MarketMoves, allvars, cycle, run, ghosts, vars
  <2>2. PlacedSlots' = PlacedSlots /\ AcceptedSlots' = AcceptedSlots
        /\ pc' = pc
    BY <2>1 DEF executor, locals, PlacedSlots, AcceptedSlots, placed
  <2>. QED BY <1>0, <1>1, <2>1, <2>2 DEF LogInv, RowsAccepted,
              ExecutedRunIsLogged
<1>. QED BY <1>3, <1>4, <1>5, <1>6, <1>7, <1>8, <1>9, <1>10, <1>11, <1>12
         DEF CycleNext, RunCycle

LEMMA CycleInitLogs == CycleInit => LogInv
<1>. SUFFICES ASSUME CycleInit PROVE LogInv
  OBVIOUS
<1>1. CycleTypeInv /\ cron \in Proc
  BY CycleInitTypes, CycleAssumption
<1>2. FreeLegs(cron) /\ pc[cron] = "idle"
  BY <1>1 DEF CycleInit, Init, ExecutorInit, NoLeg, FreeLegs
<1>. QED BY <1>1, <1>2 DEF CycleInit, LogInv, RowsAccepted,
            ExecutedRunIsLogged

\* strategy_cycle.run_cycle: a run that says EXECUTED has logged every order
\* the broker accepted from it.
THEOREM ExecutedIsLogged == CycleSpec => []ExecutedRunIsLogged
<1>1. LogInv => ExecutedRunIsLogged
  BY DEF LogInv
<1>. QED BY <1>1, CycleInitLogs, LogStep, PTL DEF CycleSpec

------------------------------------------------------------------------------
(* Working orders *)

LEMMA CycleOrders ==
  ASSUME Solo, Reliable
  PROVE  CycleSpec => [](CycleTypeInv /\ OrderInv)
<1>. DEFINE I == CycleTypeInv /\ OrderInv
<1>1. CycleInit => I
  BY CycleInitTypes, InitOrders DEF CycleInit
<1>2. I /\ [CycleNext]_allvars => I'
  BY CycleTypeStep, CycleIsStep, StepOrders
<1>. QED BY <1>1, <1>2, PTL DEF CycleSpec

\* However the market moves between two calls of a run, whatever cuts it off
\* and however soon it is run again, the cycle never stacks a second working
\* order on one side of an instrument (same conditions as NoDoubleOrder).
THEOREM CycleNoDoubleOrder ==
  ASSUME Solo, Reliable
  PROVE  CycleSpec => []AtMostOneWorkingOrder
<1>1. OrderInv => AtMostOneWorkingOrder
  BY DEF OrderInv
<1>. QED BY <1>1, CycleOrders, PTL

\* And run_cycle keeps the promise of the order path: whatever a run, its
\* death or the market does is an order into an empty slot, the end of one, or
\* nothing that WorkingOrders sees.
THEOREM CycleImplementation ==
  ASSUME Solo, Reliable
  PROVE  CycleSpec => ImplementsWorkingOrders
<1>1. CycleInit => Orders!Init
  BY DEF CycleInit, Init, AccountInit, Orders!Init, OrdersAtWork
<1>2. /\ CycleTypeInv /\ OrderInv
      /\ (CycleTypeInv /\ OrderInv)'
      /\ [CycleNext]_allvars
      => [Orders!Next]_OrdersAtWork
  BY CycleIsStep, StepImplements
<1>. QED BY <1>1, <1>2, CycleOrders, PTL
         DEF CycleSpec, ImplementsWorkingOrders, Orders!Spec

------------------------------------------------------------------------------
(* Month end after month end *)

\* The runs of CycleRecovery, whatever goes wrong and however often, are runs
\* of the cycle: what is proved of CycleSpec holds of them.
THEOREM RecoveryIsCycle == RecoverySpec => CycleSpec
<1>1. RecoveryInit => CycleInit
  BY DEF RecoveryInit
<1>2. [RecoveryNext]_recoveryvars => [CycleNext]_allvars
  BY DEF RecoveryNext, CycleNext, recoveryvars
<1>. QED BY <1>1, <1>2, PTL DEF RecoverySpec, CycleSpec

\* A run may start by hand while an order of the last one works, and any number
\* of runs may die: no slot has two working orders, and the order path keeps its
\* promise (same conditions as NoDoubleOrder).
THEOREM RecoveryNoDoubleOrder ==
  ASSUME Solo, Reliable
  PROVE  RecoverySpec => []AtMostOneWorkingOrder /\ ImplementsWorkingOrders
BY RecoveryIsCycle, CycleNoDoubleOrder, CycleImplementation, PTL
==============================================================================
