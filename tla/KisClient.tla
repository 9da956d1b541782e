------------------------------ MODULE KisClient ------------------------------
(***************************************************************************)
(* HttpKisClient under the commands that use it: its token, its short      *)
(* caches and its retries, against a broker that grants one token a minute *)
(* for an app key.  Every command, of a thread of the web process or of    *)
(* the cron, builds a client of its own (_kis, build_kis_client).          *)
(*                                                                         *)
(* A command is the list of the requests it makes when it gets as far as   *)
(* it can; what a request asks and is answered is left out, except that it *)
(* fails or not.  _throttle() only waits, and keeps apart the requests of  *)
(* one client: two clients can still be too fast for the broker, and the   *)
(* 5xx it then answers is one of the answers here.                         *)
(***************************************************************************)
EXTENDS Naturals, Sequences

CONSTANTS
  Thread,   \* threads of the web process, and the cron
  cron,
  nobody, before   \* no thread; a command that is over

ASSUME ThreadAssumption ==
  cron \in Thread /\ nobody \notin Thread /\ before \notin Thread /\ nobody # before

VARIABLES
  kind,     \* the command the thread is at, or "idle"
  at,       \* the call of its list it is at
  waits,    \* what it waits for: "nothing", the "token", or the "call"
  attempt,  \* of _send
  token,    \* the client has one
  cached,   \* its cached balance and cash: none, current, or older than its last order
  holder    \* who was granted a token in the last minute

\* What the code keeps nowhere: how often the command called issue_token(),
\* and whether a grant to it was lost on the way.
VARIABLES issued, lost

client == <<at, waits, attempt, token, cached, issued, lost>>
vars == <<kind, client, holder>>

MaxAttempts == 3
Uncached == [balance |-> "none", cash |-> "none"]

------------------------------------------------------------------------------
(* What each command asks *)

\* fails is how far the command goes on after a failure that is masked, 0 if
\* the exception ends it; spare is how far it goes on when the account makes
\* the call needless, 0 if it is always made.
Call(get, fails, spare) == [get |-> get, fails |-> fails, spare |-> spare]

Must(get) == <<Call(get, 0, 0)>>
NewClient == Must("client")

\* get_holdings and get_cash, whose price is not masked and whose amount is
Snapshot == Must("balance") \o <<Call("cash_price", 0, 0), Call("cash", 1, 0)>>

\* value_holdings, one price for each fund held
Prices == <<Call("price", 1, 1), Call("price", 1, 1)>>

Closes == Must("closes") \o Must("closes")

\* place_order(): the quote, and the order unless the quote is 0
PlaceOrder == <<Call("quote", 0, 2), Call("order", 0, 1)>>

\* _wait_settlement, of which two polls stand for all
WaitSettlement == <<Call("price", 0, 3), Call("amount", 1, 0), Call("amount", 1, 1)>>

\* execute(): its sales, and its purchase
Sales == Snapshot \o <<Call("open_orders", 1, 0)>> \o PlaceOrder \o PlaceOrder

Purchase ==
  <<Call("price", 0, 4), Call("amount", 1, 0), Call("quote", 0, 2), Call("order", 0, 1)>>

Status == NewClient \o Snapshot \o <<Call("price", 1, 0), Call("price", 1, 0)>>
  \o <<Call("closes", 2, 0), Call("closes", 1, 0)>>
  \o <<Call("price", 2, 0), Call("amount", 1, 0)>>       \* get_exrt
  \o <<Call("balance", 1, 0)>>                           \* get_position_pnl

Nav == NewClient \o Snapshot \o Prices

Cycle == NewClient \o Must("token") \o Closes \o Snapshot \o Prices \o Sales
  \o WaitSettlement \o Purchase \o Snapshot \o Prices

\* Mutated form of Script: the liquidation asks the worth of the account
\* first, with a client of its own, as it did until 26 June 2026.
ScriptWithNav ==
  [status |-> Status, signal |-> NewClient \o Closes, deposit |-> Nav,
   liquidation |-> Nav \o NewClient \o Sales, cycle |-> Cycle]

Script ==
  [status |-> Status, signal |-> NewClient \o Closes, deposit |-> Nav,
   liquidation |-> NewClient \o Sales, cycle |-> Cycle]

Kinds == DOMAIN Script
KindsOf(c) == IF c = cron THEN {"cycle"} ELSE Kinds \ {"cycle"}

Age == {"none", "current", "older"}

ClientTypeOK ==
  /\ kind \in [Thread -> Kinds \cup {"idle"}]
  /\ at \in [Thread -> Nat \ {0}]
  /\ \A c \in Thread : kind[c] # "idle" => at[c] <= Len(Script[kind[c]]) + 1
  /\ waits \in [Thread -> {"nothing", "token", "call"}]
  /\ attempt \in [Thread -> 0..MaxAttempts]
  /\ token \in [Thread -> BOOLEAN]
  /\ cached \in [Thread -> [balance : Age, cash : Age]]
  /\ holder \in Thread \cup {nobody, before}
  /\ issued \in [Thread -> Nat] /\ lost \in [Thread -> BOOLEAN]

Init ==
  /\ kind = [c \in Thread |-> "idle"]
  /\ at = [c \in Thread |-> 1]
  /\ waits = [c \in Thread |-> "nothing"]
  /\ attempt = [c \in Thread |-> 0]
  /\ token = [c \in Thread |-> FALSE]
  /\ cached = [c \in Thread |-> Uncached]
  /\ issued = [c \in Thread |-> 0]
  /\ lost = [c \in Thread |-> FALSE]
  /\ holder = nobody

------------------------------------------------------------------------------
(* The command *)

Begin(c, k) ==
  /\ kind[c] = "idle"
  /\ kind' = [kind EXCEPT ![c] = k]
  /\ UNCHANGED <<client, holder>>

\* The command is over, and its client with it; h was granted the token.
End(c, h) ==
  /\ kind' = [kind EXCEPT ![c] = "idle"]
  /\ at' = [at EXCEPT ![c] = 1]
  /\ waits' = [waits EXCEPT ![c] = "nothing"]
  /\ attempt' = [attempt EXCEPT ![c] = 0]
  /\ token' = [token EXCEPT ![c] = FALSE]
  /\ cached' = [cached EXCEPT ![c] = Uncached]
  /\ issued' = [issued EXCEPT ![c] = 0]
  /\ lost' = [lost EXCEPT ![c] = FALSE]
  /\ holder' = IF h = c THEN before ELSE h

Return(c) ==
  /\ kind[c] # "idle"
  /\ at[c] = Len(Script[kind[c]]) + 1
  /\ End(c, holder)

\* The call the command has come to.
Here(c) == Script[kind[c]][at[c]]
AtCall(c) == kind[c] # "idle" /\ at[c] <= Len(Script[kind[c]])
Ready(c) == AtCall(c) /\ waits[c] = "nothing"

Wait(c, for, n) ==
  /\ waits' = [waits EXCEPT ![c] = for]
  /\ attempt' = [attempt EXCEPT ![c] = n]

GoOn(c, n) == at' = [at EXCEPT ![c] = @ + n] /\ Wait(c, "nothing", 0)

\* _kis(): a client without a token and without a cache.
Build(c) ==
  /\ Ready(c) /\ Here(c).get = "client"
  /\ GoOn(c, 1)
  /\ token' = [token EXCEPT ![c] = FALSE]
  /\ cached' = [cached EXCEPT ![c] = Uncached]
  /\ UNCHANGED <<kind, holder, issued, lost>>

Needless(c) ==
  /\ Ready(c) /\ Here(c).spare > 0
  /\ GoOn(c, Here(c).spare)
  /\ UNCHANGED <<kind, holder, token, cached, issued, lost>>

\* The answer of the last three seconds, when there is one.
FromCache(c) ==
  /\ Ready(c)
  /\ \/ Here(c).get = "balance" /\ cached[c].balance # "none" /\ GoOn(c, 1)
     \/ Here(c).get = "cash_price" /\ cached[c].cash # "none" /\ GoOn(c, 2)
  /\ UNCHANGED <<kind, holder, token, cached, issued, lost>>

------------------------------------------------------------------------------
(* The requests *)

AfterOrder(age) == IF age = "none" THEN "none" ELSE "older"

\* Mutated form of Caches: place_order() leaves the caches alone.
CachesKept(c, get) ==
  IF get = "order" THEN [x \in DOMAIN cached[c] |-> AfterOrder(cached[c][x])]
  ELSE cached[c]

\* place_order() empties the caches before its quote, and its order makes old
\* what is in them.
Caches(c, get) ==
  CASE get = "quote" -> Uncached
    [] get = "order" -> [x \in DOMAIN cached[c] |-> AfterOrder(cached[c][x])]
    [] OTHER -> cached[c]

\* A request goes out; _headers() asks for a token first when there is none.
Ask(c) ==
  LET get == Here(c).get
      first == get = "token" \/ ~token[c]
  IN
  /\ Ready(c) /\ get # "client"
  /\ Wait(c, IF first THEN "token" ELSE "call", 1)
  /\ issued' = [issued EXCEPT ![c] = @ + IF first THEN 1 ELSE 0]
  /\ cached' = [cached EXCEPT ![c] = Caches(c, get)]
  /\ UNCHANGED <<kind, at, holder, token, lost>>

\* Mutated form of Again: one attempt too many.
AgainOnceMore(c) ==
  /\ attempt[c] <= MaxAttempts
  /\ attempt' = [attempt EXCEPT ![c] = @ + 1]

\* Mutated form of Again: the attempts are not counted.
AgainForEver(c) == attempt' = [attempt EXCEPT ![c] = (@ % MaxAttempts) + 1]

\* _send() repeats a request that was answered 5xx.
Again(c) ==
  /\ attempt[c] < MaxAttempts
  /\ attempt' = [attempt EXCEPT ![c] = @ + 1]

\* The request raises: a 4xx, no answer, or 5xx to the last attempt.  h is who
\* was granted a token, which the command has not seen if it is news.
Fails(c, h) ==
  IF Here(c).fails = 0
    THEN End(c, h)
    ELSE /\ GoOn(c, Here(c).fails)
         /\ holder' = h
         /\ lost' = [lost EXCEPT ![c] = @ \/ h # holder]
         /\ UNCHANGED <<kind, token, cached, issued>>

\* Mutated form of Keeps: the TokenManager keeps the token and the client not.
KeepsUnlessAsked(c) == Here(c).get # "token"

\* issue_token() keeps the token in the client, whoever has called it.
Keeps(c) == TRUE

Granted(c) ==
  /\ waits[c] = "token" /\ holder = nobody
  /\ holder' = c
  /\ token' = [token EXCEPT ![c] = Keeps(c)]
  /\ GoOn(c, IF Here(c).get = "token" THEN 1 ELSE 0)
  /\ UNCHANGED <<kind, cached, issued, lost>>

\* The token is granted and the answer does not say so: a 5xx that is
\* repeated, or an exception.
GrantLost(c) ==
  /\ waits[c] = "token" /\ holder = nobody
  /\ \/ /\ Again(c)
        /\ holder' = c
        /\ lost' = [lost EXCEPT ![c] = TRUE]
        /\ UNCHANGED <<kind, at, waits, token, cached, issued>>
     \/ Fails(c, c)

\* No token: 403 when one was granted within the minute, or another failure.
NotGranted(c) ==
  /\ waits[c] = "token"
  /\ \/ Again(c) /\ UNCHANGED <<kind, at, waits, token, cached, issued, lost, holder>>
     \/ Fails(c, holder)

\* get_cash() caches what it returns, the 0 of a failed request too.
CashOf(c) == IF Here(c).get = "cash" THEN "current" ELSE cached[c].cash
BalanceOf(c) == IF Here(c).get = "balance" THEN "current" ELSE cached[c].balance

Answered(c) ==
  /\ waits[c] = "call"
  /\ GoOn(c, 1)
  /\ cached' = [cached EXCEPT ![c] = [balance |-> BalanceOf(c), cash |-> CashOf(c)]]
  /\ UNCHANGED <<kind, holder, token, issued, lost>>

NotAnswered(c) ==
  /\ waits[c] = "call"
  /\ \/ /\ Again(c)
        /\ UNCHANGED <<kind, at, waits, token, cached, issued, lost, holder>>
     \/ Here(c).get # "cash" /\ Fails(c, holder)
     \/ /\ Here(c).get = "cash"
        /\ GoOn(c, 1)
        /\ cached' = [cached EXCEPT ![c].cash = "current"]
        /\ UNCHANGED <<kind, token, issued, lost, holder>>

\* A minute after the last grant.
MinuteOver ==
  /\ holder # nobody
  /\ holder' = nobody
  /\ UNCHANGED <<kind, client>>

Work(c) ==
  \/ Return(c) \/ Build(c) \/ Needless(c) \/ FromCache(c) \/ Ask(c)
  \/ Granted(c) \/ GrantLost(c) \/ NotGranted(c) \/ Answered(c) \/ NotAnswered(c)

Next ==
  \/ \E c \in Thread : Work(c) \/ \E k \in KindsOf(c) : Begin(c, k)
  \/ MinuteOver

\* A request is answered or runs into its timeout, and the command goes on.
Spec == Init /\ [][Next]_vars /\ \A c \in Thread : WF_<<kind, client>>(Work(c))

------------------------------------------------------------------------------
(* Properties *)

\* HANDOFF.md:59, one token for one command: whatever fails on the way, masked
\* or not, and however many clients and callers of issue_token() share it. (What is
\* counted are the calls of issue_token(); _send may repeat the POST of each.)
OneTokenRequest == \A c \in Thread : issued[c] <= 1

\* A command is refused a token only because of another command, or because a
\* grant to itself was lost: it never asks again within the minute of a grant
\* it knows of.
NotLimitedByItself ==
  \A c \in Thread : waits[c] = "token" /\ holder = c => lost[c]

\* No balance or cash that is older than an order of the same client is kept:
\* what a run compares after its orders was asked after them.
CachesAreCurrent ==
  \A c \in Thread : \A x \in {"balance", "cash"} : cached[c][x] # "older"

\* Every command ends, whatever the broker answers and as often as it fails.
CommandEnds == \A c \in Thread : kind[c] # "idle" ~> kind[c] = "idle"
==============================================================================
