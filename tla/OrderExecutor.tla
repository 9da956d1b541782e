---------------------------- MODULE OrderExecutor ----------------------------
(***************************************************************************)
(* OrderExecutor.execute: the two-leg move of the account to a target,     *)
(* one action per call of the broker.  A process of Proc is an executor at *)
(* work: the cron cycle, or the liquidation of /emergency-stop.  It may be *)
(* cut off at any call (an exception, or the death of its process) and     *)
(* started again later with a fresh client.                                *)
(***************************************************************************)
EXTENDS KisAccount

CONSTANTS
  Proc,      \* the processes that run an executor
  MaxPolls   \* polls that fit in _SETTLE_TIMEOUT at one per _SETTLE_INTERVAL

ASSUME MaxPollsAssumption == MaxPolls \in Nat \ {0}

VARIABLES
  pc,        \* the next call of the process, "idle" outside execute()
  target,    \* execute()'s argument
  snap,      \* local holdings (Position), or the caller's cached balance
  seen,      \* local open_orders, as slots
  leg,       \* local legs: one per ticker at most
  next,      \* index of the sell loop over ALL_TICKERS
  polls,     \* polls made by _wait_settlement
  qty        \* local qty of the buy leg

locals == <<target, snap, seen, leg, next, polls, qty>>
executor == <<pc, locals>>
vars == <<account, executor>>

TICKER == [NASDAQ |-> "QQQM", GOLD |-> "GLDM"]
ALL_TICKERS == <<"QQQM", "GLDM">>
Target == {"NASDAQ", "GOLD", "CASH"}

\* TICKER.get(target): CASH has no symbol.
SymbolOf(t) == IF t \in DOMAIN TICKER THEN TICKER[t] ELSE "None"

NoBalance == <<>>               \* the client has read no balance yet

Reason == {"already_pending", "already_holding_target", "insufficient_cash"}
LegState == {"none", "accepted", "rejected"} \cup Reason
Leg == [state : LegState, quantity : Nat]
NoLeg == [state |-> "none", quantity |-> 0]

Steps == {"snapshot", "open_orders", "sell", "wait", "buy", "order", "done"}

TypeOK ==
  /\ AccountTypeOK
  /\ pc \in [Proc -> Steps \cup {"idle"}]
  /\ target \in [Proc -> Target]
  /\ snap \in [Proc -> Position \cup {NoBalance}]
  /\ seen \in [Proc -> SUBSET Slot]
  /\ leg \in [Proc -> [Ticker -> Leg]]
  /\ next \in [Proc -> 1..3]
  /\ polls \in [Proc -> Nat]
  /\ qty \in [Proc -> Nat]

------------------------------------------------------------------------------
(* What the caller reads of a TransitionResult *)

placed(p, s) == leg[p][s].state \in {"accepted", "rejected"}
sold(p) == \E s \in Ticker \ {SymbolOf(target[p])} : placed(p, s)

------------------------------------------------------------------------------
ExecutorInit ==
  /\ pc = [p \in Proc |-> "idle"]
  /\ target = [p \in Proc |-> "CASH"]
  /\ snap = [p \in Proc |-> NoBalance]
  /\ seen = [p \in Proc |-> {}]
  /\ leg = [p \in Proc |-> [s \in Ticker |-> NoLeg]]
  /\ next = [p \in Proc |-> 1]
  /\ polls = [p \in Proc |-> 0]
  /\ qty = [p \in Proc |-> 0]

\* The locals go away with the call.
Forget(p) ==
  /\ pc' = [pc EXCEPT ![p] = "idle"]
  /\ target' = [target EXCEPT ![p] = "CASH"]
  /\ snap' = [snap EXCEPT ![p] = NoBalance]
  /\ seen' = [seen EXCEPT ![p] = {}]
  /\ leg' = [leg EXCEPT ![p] = [s \in Ticker |-> NoLeg]]
  /\ next' = [next EXCEPT ![p] = 1]
  /\ polls' = [polls EXCEPT ![p] = 0]
  /\ qty' = [qty EXCEPT ![p] = 0]

Goto(p, step) == pc' = [pc EXCEPT ![p] = step]

\* Mutated form of AddLeg: the quantity is one share short.
AddLegShort(p, s, state, q) ==
  leg' = [leg EXCEPT ![p][s] = [state |-> state, quantity |-> q - 1]]

AddLeg(p, s, state, q) ==
  leg' = [leg EXCEPT ![p][s] = [state |-> state, quantity |-> q]]

\* execute(t) is called; the client may hold a balance it read up to 3 s ago.
Begin(p, t, balance) ==
  /\ pc[p] = "idle"
  /\ Goto(p, "snapshot")
  /\ target' = [target EXCEPT ![p] = t]
  /\ snap' = [snap EXCEPT ![p] = balance]
  /\ UNCHANGED <<account, seen, leg, next, polls, qty>>

\* self._positions.snapshot(): the cached balance, or a new inquire-balance.
Snapshot(p) ==
  /\ pc[p] = "snapshot"
  /\ \/ \E h \in BalanceAnswers : snap' = [snap EXCEPT ![p] = h]
     \/ snap[p] # NoBalance /\ UNCHANGED snap
  /\ Goto(p, "open_orders")
  /\ UNCHANGED <<account, target, seen, leg, next, polls, qty>>

OpenOrders(p) ==
  /\ pc[p] = "open_orders"
  /\ \E answer \in OpenOrdersAnswers : seen' = [seen EXCEPT ![p] = answer]
  /\ Goto(p, "sell")
  /\ UNCHANGED <<account, target, snap, leg, next, polls, qty>>

\* Mutated form of HasOpen: only sells are asked for.
HasOpenSell(p, s, d) == d = "SELL" /\ <<s, d>> \in seen[p]

HasOpen(p, s, d) == <<s, d>> \in seen[p]

\* One place_order call and the leg it leaves.  When it raises, execute() and
\* its caller end here.
PlaceOrder(p, s, d, q, step) ==
  \E outcome \in PostOutcomes :
    /\ outcome[1] * q <= Free(s, d)
    /\ Accept(s, d, q, outcome[1])
    /\ IF outcome[2] = "raised"
         THEN Forget(p)
         ELSE /\ AddLeg(p, s, outcome[2], q)
              /\ Goto(p, step)
              /\ next' = [next EXCEPT ![p] = IF d = "SELL" THEN @ + 1 ELSE @]
              /\ UNCHANGED <<target, snap, seen, polls, qty>>

\* One turn of the sell loop.
Sell(p) ==
  LET s == ALL_TICKERS[next[p]]
      q == snap[p][s]
      needed == s # SymbolOf(target[p]) /\ q > 0
      pending == HasOpen(p, s, "SELL")
  IN
  /\ pc[p] = "sell"
  /\ next[p] <= 2
  /\ \/ /\ needed /\ ~pending
        /\ PlaceOrder(p, s, "SELL", q, "sell")
     \/ /\ ~needed \/ pending
        /\ next' = [next EXCEPT ![p] = @ + 1]
        /\ IF needed THEN AddLeg(p, s, "already_pending", q) ELSE UNCHANGED leg
        /\ UNCHANGED <<account, pc, target, snap, seen, polls, qty>>

SellsDone(p) ==
  /\ pc[p] = "sell"
  /\ next[p] = 3
  /\ Goto(p, IF target[p] = "CASH" THEN "done"
             ELSE IF sold(p) THEN "wait" ELSE "buy")
  /\ UNCHANGED <<account, locals>>

\* Mutated form of PollSettlement: no deadline.
PollForever(p) ==
  /\ pc[p] = "wait"
  /\ polls' = [polls EXCEPT ![p] = @ + 1]
  /\ \E amount \in RuseAnswers : Goto(p, IF amount = 0 THEN "buy" ELSE "wait")
  /\ UNCHANGED <<account, target, snap, seen, leg, next, qty>>

\* One turn of _wait_settlement; after the last one the buy is forced.
PollSettlement(p) ==
  /\ pc[p] = "wait"
  /\ polls' = [polls EXCEPT ![p] = @ + 1]
  /\ \E amount \in RuseAnswers :
       Goto(p, IF amount = 0 \/ polls[p] + 1 = MaxPolls THEN "buy" ELSE "wait")
  /\ UNCHANGED <<account, target, snap, seen, leg, next, qty>>

\* The buy leg up to its order: the two idempotence checks, then the price and
\* the quantity (a price of 0 leaves no quantity).
BuyLeg(p) ==
  LET s == SymbolOf(target[p])
      Skip(state, q) == /\ AddLeg(p, s, state, q)
                        /\ Goto(p, "done")
                        /\ UNCHANGED qty
  IN
  /\ pc[p] = "buy"
  /\ \/ snap[p][s] > 0 /\ Skip("already_holding_target", snap[p][s])
     \/ /\ snap[p][s] = 0
        /\ HasOpen(p, s, "BUY")
        /\ Skip("already_pending", 0)
     \/ /\ snap[p][s] = 0
        /\ ~HasOpen(p, s, "BUY")
        /\ \E q \in BuyableAnswers \cup {0} :
             \/ q = 0 /\ Skip("insufficient_cash", 0)
             \/ /\ q > 0
                /\ qty' = [qty EXCEPT ![p] = q]
                /\ Goto(p, "order")
                /\ UNCHANGED leg
  /\ UNCHANGED <<account, target, snap, seen, next, polls>>

Buy(p) ==
  /\ pc[p] = "order"
  /\ PlaceOrder(p, SymbolOf(target[p]), "BUY", qty[p], "done")

\* execute() returns and its caller is done with the result.
Return(p) ==
  /\ pc[p] = "done"
  /\ Forget(p)
  /\ UNCHANGED account

\* A read raises, or the process dies.
Raise(p) ==
  /\ pc[p] # "idle"
  /\ Forget(p)
  /\ UNCHANGED account

------------------------------------------------------------------------------
Execute(p) ==
  \/ Snapshot(p) \/ OpenOrders(p)
  \/ Sell(p) \/ SellsDone(p) \/ PollSettlement(p)
  \/ BuyLeg(p) \/ Buy(p)

Init == AccountInit /\ ExecutorInit

Next ==
  \/ \E p \in Proc :
       \/ \E t \in Target : Begin(p, t, NoBalance) \/ Begin(p, t, held)
       \/ Execute(p) \/ Return(p) \/ Raise(p)
  \/ Market /\ UNCHANGED executor

Spec == Init /\ [][Next]_vars

------------------------------------------------------------------------------
(* Properties *)

\* However often execute() is cut off and run again, an instrument never has
\* two working orders on the same side: the pre-order query of
\* order_executor.execute keeps a retry from doubling an order.
AtMostOneWorkingOrder == \A k \in Slot : Len(book[k]) <= 1

\* The order path keeps the abstract promise of WorkingOrders, seen through the
\* number of orders each slot has at the broker: the market closes them one by
\* one, and execute() places one only where none works.
OrdersAtWork == [k \in Slot |-> Len(book[k])]
Orders == INSTANCE WorkingOrders WITH working <- OrdersAtWork
ImplementsWorkingOrders == Orders!Spec

\* An upper bound on the calls that execute() has still to make.
CallsLeft(p) ==
  CASE pc[p] = "snapshot"    -> MaxPolls + 9
    [] pc[p] = "open_orders" -> MaxPolls + 8
    [] pc[p] = "sell"        -> MaxPolls + 7 - next[p]
    [] pc[p] = "wait"        -> MaxPolls + 3 - polls[p]
    [] pc[p] = "buy"         -> 3
    [] pc[p] = "order"       -> 2
    [] pc[p] = "done"        -> 1
    [] pc[p] = "idle"        -> 0

\* execute() ends, whatever the broker answers and although nothing forces the
\* proceeds of a sale to settle: every call it makes leaves fewer to be made,
\* for the loop over the tickers moves on and _wait_settlement has a deadline.
ExecuteAdvances ==
  [][\A p \in Proc : Execute(p) => CallsLeft(p)' \in 0..(CallsLeft(p) - 1)]_vars
==============================================================================
