------------------------------ MODULE KisAccount ------------------------------
(***************************************************************************)
(* The brokerage account behind kis_client.HttpKisClient, and what each    *)
(* call of the client may answer.  Prices are the unit, so an amount of    *)
(* cash is the number of shares it buys.  The account itself is outside    *)
(* the repository: it moves by fills, settlement and the end of the        *)
(* trading day, and those actions are its environment.                     *)
(***************************************************************************)
EXTENDS Integers, Sequences, Functions

CONSTANTS
  Shares,   \* the worth of the account, in shares
  Faults    \* which of the client's masked failures may happen, see below

\* "balance":     inquire-balance answers an error body (rt_cd, which is not
\*                looked at), and the holdings are read as empty.
\* "open_orders": inquire-nccs fails, or answers an error body, and the caller
\*                reads an empty list.
\* "psamount":    inquire-psamount fails and its amounts are read as 0.
\* "post_5xx":    an order is accepted though its POST answers 5xx, and _send
\*                posts it again.
FaultKind == {"balance", "open_orders", "psamount", "post_5xx"}

ASSUME SharesAssumption == Shares \in Nat
ASSUME FaultsAssumption == Faults \subseteq FaultKind

Ticker == {"QQQM", "GLDM"}
Side == {"BUY", "SELL"}
Slot == Ticker \X Side

VARIABLES
  held,       \* shares of each ticker (output1 of inquire-balance)
  cash,       \* buying power not reserved by a working buy
  unsettled,  \* sale proceeds not reusable yet (sll_ruse_psbl_amt)
  book        \* for each slot the shares still open of its working orders,
              \* oldest first (inquire-nccs)

account == <<held, cash, unsettled, book>>

Position == [Ticker -> Nat]

AccountTypeOK ==
  /\ held \in Position
  /\ cash \in Nat
  /\ unsettled \in Nat
  /\ book \in [Slot -> Seq(Nat \ {0})]

AccountInit ==
  /\ held \in [Ticker -> 0..Shares]
  /\ cash \in 0..Shares
  /\ held["QQQM"] + held["GLDM"] + cash = Shares
  /\ unsettled = 0
  /\ book = [k \in Slot |-> <<>>]

------------------------------------------------------------------------------
(* Reads *)

\* get_holdings
NoPosition == [s \in Ticker |-> 0]
BalanceAnswers ==
  {held} \cup (IF "balance" \in Faults THEN {NoPosition} ELSE {})

\* Mutated form of Working: one order too few is noticed.
WorkingOffByOne == {k \in Slot : Len(book[k]) > 1}

Working == {k \in Slot : book[k] # <<>>}

\* get_open_orders, with the executor's "except: return []" around it
OpenOrdersAnswers ==
  {Working} \cup (IF "open_orders" \in Faults THEN {{}} ELSE {})

\* get_sll_ruse_amt and get_buyable_qty, 0 when the query failed
RuseAnswers == {unsettled} \cup (IF "psamount" \in Faults THEN {0} ELSE {})
BuyableAnswers == {cash} \cup (IF "psamount" \in Faults THEN {0} ELSE {})

(* Orders *)

\* What the broker can still cover in a slot: cash for a buy, shares that no
\* other working sell offers for a sell.
Free(s, d) ==
  IF d = "BUY" THEN cash ELSE held[s] - SumFunction(book[<<s, "SELL">>])

\* place_order, as <<orders the broker accepted, what the caller gets>>.
\* Rejected: no price, or rt_cd other than 0.  Raised: a 4xx or 5xx answer, or
\* a network error; the order may then be working all the same.  Of the three
\* attempts of _send the first two may have left an order behind a 5xx answer.
PostOutcomes ==
  LET hidden == IF "post_5xx" \in Faults THEN 0..2 ELSE {0} IN
  {<<n + 1, "accepted">> : n \in hidden}
  \cup {<<n, "rejected">> : n \in hidden}
  \cup {<<n + i, "raised">> : n \in hidden, i \in 0..1}

\* n orders of q shares start to work; a buy reserves its cash.
Accept(s, d, q, n) ==
  /\ book' = [book EXCEPT ![<<s, d>>] = @ \o [i \in 1..n |-> q]]
  /\ cash' = IF d = "BUY" THEN cash - n * q ELSE cash
  /\ UNCHANGED <<held, unsettled>>

------------------------------------------------------------------------------
(* The market *)

\* One share of the oldest order of a slot is filled.
Fill(s, d) ==
  LET k == <<s, d>> IN
  /\ book[k] # <<>>
  /\ d = "SELL" => held[s] > 0
  /\ book' = [book EXCEPT ![k] =
                IF Head(@) = 1 THEN Tail(@) ELSE <<Head(@) - 1>> \o Tail(@)]
  /\ held' = [held EXCEPT ![s] = IF d = "BUY" THEN @ + 1 ELSE @ - 1]
  /\ unsettled' = IF d = "SELL" THEN unsettled + 1 ELSE unsettled
  /\ UNCHANGED cash

\* The proceeds of all sales so far become reusable.
Settle ==
  /\ unsettled > 0
  /\ cash' = cash + unsettled
  /\ unsettled' = 0
  /\ UNCHANGED <<held, book>>

\* The oldest order of a slot ends unfilled: day orders expire at the close.
Expire(s, d) ==
  LET k == <<s, d>> IN
  /\ book[k] # <<>>
  /\ book' = [book EXCEPT ![k] = Tail(@)]
  /\ cash' = IF d = "BUY" THEN cash + Head(book[k]) ELSE cash
  /\ UNCHANGED <<held, unsettled>>

Market ==
  \/ Settle
  \/ \E s \in Ticker, d \in Side : Fill(s, d) \/ Expire(s, d)
==============================================================================
