# Emerald-Sword: TLA+ specifications and proofs

Emerald-Sword trades one brokerage account between a Nasdaq ETF (QQQM), a gold
ETF (GLDM) and cash, once a month, by the sign and size of their momentum. It
runs as two processes that never talk to each other:

* **cron** (`src/cron.py`) is started by the platform's scheduler
  (`30 15 28-31 * *`, UTC), makes one pass of `run_cycle` and exits;
* **web** (`src/web.py`) receives the user's Telegram messages on a webhook and
  answers the commands: pause, resume, switch between the virtual and the real
  account, record a deposit, liquidate everything.

They share a Postgres database (a row with `is_paused` and `trading_mode`, the
last signal, the trade log, the cash flows, the update ids already handled) and
the broker's account, which both reach over HTTP (KIS). Neither process keeps a
position of its own: the broker's answer is the only source.

This directory specifies the parts of that system in which order, failure or
concurrency decide whether money moves correctly; TLC checks the specifications
on small instances, and TLAPS proves the safety properties for every value of
the constants. `PROJECT.json` lists the components, the runs, the source lines
behind every definition, the hazards, the findings and the theorems.

Paths below are relative to the repository root.

## 1. Inventory

| component | state | operations | what makes it correct |
|---|---|---|---|
| broker client, `src/kis_client.py`, `src/token_manager.py` | token, a balance and a cash amount cached for 3 s, time of the last call | balance, open orders, psamount (buyable, settled), price, `place_order`, `issue_token`; `_send` repeats a 5xx answer twice | an error is never read as a fact about the account; a repeated POST is not a second order; one token for one command, because the broker grants one a minute; nothing older than an own order is in the cache |
| order executor, `src/order_executor.py` | locals of one `execute()` | sell what is not the target, wait for the proceeds, buy the target | at most one working order per instrument and side, however often it is cut off and run again; it ends |
| strategy cycle, `src/strategy_cycle.py`, `src/cron.py`, `src/fill_monitor.py` | locals of one run; `last_signal`, `trade_log` | gates (pause, trading day, outliers), signal, switch, settlement, log, report | a paused bot does not trade; the log of a run that executed is what the broker accepted; the report says what was filled; an interrupted switch is finished later |
| trading calendar, `src/trading_calendar.py`, `render.yaml` | a table of holidays, the schedule | `is_trading_day` | the table is right; the schedule meets a trading day of every month, its last one |
| command router, `src/commands.py` | one open confirmation per chat, in memory | commands and the answers to their prompts | one confirmation, one effect; a liquidation only under a pause, complete, and in the log; codes run out |
| webhook and bot, `src/web.py`, `src/telegram_bot.py` | the pool's threads | claim an update, handle it, answer, 200 | an update is handled at most once and always answered |
| state store, `src/state_store.py`, `src/db.py` | the database | one transaction per call | each call is atomic; a claim is won by one thread |
| migrations, `src/migrate.py` | `schema_migrations` | apply the files in order at start-up | each file once, whichever process starts first |
| approval manager, `src/approval_manager.py` | approvals with an expiry | request, approve, reject, refresh | a request is asked twice at the most and its first verdict is final; while its signal holds it is not taken away before its time is over; no answer should count late, or for a signal that has turned (the code does not see to that) |
| cash flows: `/deposit`, `/withdraw`, `src/returns.py`, migration 003 | `cash_flows`; the open prompt | value the account, ask, record; the time-weighted return | a flow is written to the account it was valued in; the return is the growth of the strategy |
| market data and momentum, `src/market_data.py`, `src/momentum.py` | none | month-end closes, outliers, scores, the choice | the signal is the strategy's definition; it never rests on a missing close |
| position service, mode manager, fallback controller, Telegram client, config, logging | none of their own | reads, formatting, one HTTP call | - |
| `src/verify_switch.py` | none | a script run by hand | - |

**How they interact.** `cron.main` builds a client for the mode it finds in the
database and calls `run_cycle`, which calls the executor, which calls the
client. A webhook request runs `TelegramBot.handle_update` in a thread of
Starlette's pool; it claims the update id in the database and calls
`CommandRouter.handle`. `/emergency-stop` builds another client and calls the
same executor with the target CASH. The flag `is_paused` is the only thing one
process says to the other.

**What is hard here.** Between any two calls the market fills, settles or
expires orders. A call can fail in a way its caller cannot tell from an answer
(an error body read as an empty account, a failed query read as zero). An
exception ends the cron process wherever it is, and the next run knows nothing
of it. Telegram repeats what is not answered in time, threads handle messages
at the same time, the free plan stops the web process, and a message may wait
through a cold start of half a minute. The flag is read once per run.

## 2. Modules

```
WorkingOrders                 the promise of the order path (abstract)
   ^ implemented by
KisAccount <- OrderExecutor <- StrategyCycle <- Liquidation <----------+
                                     ^                                 |
                               CycleRecovery <- StrategyCycleProofs <- LiquidationProofs

CommandRouter   <- CommandRouterProofs    KisClient    <- KisClientProofs
Migrate <- CashFlows <- LedgerProofs      MarketSignal <- SignalProofs
TradingCalendar <- CalendarProofs

Consent                       the promise of an approval (abstract)
   ^ implemented by
ApprovalManager <- ApprovalProofs
```

(`<-` is EXTENDS; a proof module also extends the module it is about.
`StrategyCycleProofs` holds the theorems of the executor, about `Spec`, those of
the cycle around it, about `CycleSpec`, and those of its repeated runs, about
`RecoverySpec`.) `MC*`
modules give TLC a module to run with the definitions that a `.cfg` needs.
Definitions introduced by "Mutated form of" or "a wrong form" are not part of the
models: each is a plausible bug of the definition after it, and shows that a
property notices it.

**KisAccount** is the account and what the client may answer. A price is the
unit, so cash is counted in shares. `held`, `cash`, `unsettled` and `book` (the
open shares of the working orders of each symbol and side) move by `Fill`,
`Settle` and `Expire`, the environment. The failures that the client masks are
answers: `Faults` says which of them an instance has. `PostOutcomes` is what
`place_order` leaves at the broker and tells its caller, an exception whose
order works all the same and the orders behind the 5xx answers of any of the
three attempts included.

**OrderExecutor** is `execute(target)`, one action per call of the broker:
`Begin`, `Snapshot`, `OpenOrders`, one `Sell` per turn of the loop, `SellsDone`,
`PollSettlement`, `BuyLeg`, `Buy`, `Return`; `Raise` ends it anywhere. `pc`,
`target`, `snap`, `seen`, `leg`, `next`, `polls`, `qty` are its locals, one of
each for every process that runs an executor. The
quantity of a buy is whatever psamount answers (`BuyableAnswers`), or 0 when the
price is 0. The clock of `_wait_settlement` is the number of its polls.

**WorkingOrders** is the abstract promise: an order goes out in a slot only when
none works there. `OrderExecutor` implements it under the mapping
`working[k] = Len(book[k])`.

**StrategyCycle** puts `run_cycle` around the executor: `Trigger` (cron.main),
`Gate` (the flag), `Day`, `MarketData`, `Decide`, `Before`, `CallExecute`,
`RunExecutor` (a step of the executor), `Settlement`, `After`, `Record`,
`Report`, and `Die`, because nothing catches an exception. `Pause` and `Resume`
are the user. The trading day, the outliers and the signal are free choices: the
cycle must be right whatever they are. The ghosts `accepted`, `logged`, `filled`
and `pausedOn` say what the latest run did.

**Liquidation** composes the cycle with the web process on the same account and
the same flag, from the moment the code of an `/emergency-stop` is accepted:
`EmergencyStop` writes the flag, `CallLiquidator` builds a new client and calls a
second executor with the target CASH, `RunLiquidator` is a step of it, `LogSales`
is `record_trade` with its row for every order that was sent (`rows`), `Answer`
tells the user, `LiquidatorFails` is the except branch, an exception past it, or
the end of the process. The ghost `taken` is what the broker accepted of the
liquidation, `quiet` says whether anything else disturbed it, and `meddled` in
which slots an order of somebody else (a liquidation, a run before this one) has
worked while the cycle ran.

**CycleRecovery** runs cycle after cycle with a bounded number of misfortunes
(a run that dies or cannot start, an order refused, not sized or expired) and
asks where the account ends up.

**CommandRouter** is the web process. `Send` puts a message in Telegram's
queue; `Deliver` is a delivery that wins its claim, takes the open prompt and
decides what follows; `Duplicate` one that loses it; `Lose` one whose claim
raised. A thread then makes one call per action (`IsPaused`, `GetMode`, `Nav`,
`Ask`, `SetPaused`, `SetMode`, `FlowMode`, `RecordFlow`, `Liquidate`, `TradeMode`,
`RecordTrade`) and `Reply`s; `Fail` is an exception, which the handler or the webhook swallows.
`Crash` takes the open prompt and the threads away. The
prompt and the threads carry `basis`, the messages their work rests on, and
`acts` counts the changes made on the strength of each message; neither exists
in the code. The liquidation is one action here: its calls are in `Liquidation`.

**KisClient** is `HttpKisClient` below all of this: the token, the caches of
balance and cash, and the retries of `_send`. Each command (`/status`, `/signal`,
`/deposit`, a liquidation, a cycle) is a list of requests (`Script`), read off
the providers of `web.py`, `run_cycle` and the methods of the client; `at` is
where a thread is in its list. A call of the list says how far the command goes
on when the request fails (`fails`: 0 where the exception ends the command) and
when the state of the account makes it needless (`spare`), so that one list
stands for every run of the command. `Ask` sends a request, after one for a token
when the client has none; `Granted`, `GrantLost`, `NotGranted`, `Answered` and
`NotAnswered` are the broker; `Again` is a retry; `MinuteOver` lifts the broker's
limit of one token a minute for an app key, which all threads share
(`holder`). What a request asks and is answered is left out. Quotes at several
exchanges count as one request, and two polls stand for the settlement wait.

**Migrate** is `run_migrations` in several processes on one database: `Start`
(connect, create the table), `ReadVersions`, `Execute` a file with the row of its
version, `Commit`, `Serve`; a commit may be lost on the way back, and `Crash` and
`End` take a process down. Postgres appears as the one rule the code leans on:
the second INSERT of a key waits for the first and then raises.

**CashFlows** adds the ledger to it, with the prompt of the chat and the three
threads that can fight over it, one call per action. A `/deposit` or `/withdraw`
(`job`) drops the prompt (`CashFlowCommand`), chooses the account (`NavAccount`),
and opens its own prompt when the worth is known (`CashFlowPrompt`). The y to it
(`confirming`) takes the prompt (`CashFlowAnswer`), reads the mode (`CashFlowMode`)
and writes the row (`CashFlowRecord`). A `/virtual` or `/real` and the answer to
its prompt (`switching`) are `SwitchCommand`, `SwitchAsk`, `SwitchAnswer`, which pops
the prompt, and `SwitchMode`, which writes the mode, so that the slow `/deposit`
can open its prompt between the last two. `Decline` is a message that is no y,
`ThreadFails` a call of the database that raises. The history in `switched` says
that the answer to a switch was being handled at the same time as the command or
its y. 003 inserts the seed. An account is worth units times price, as a fund is,
so the return has a reference: the growth of the price. `GrowthOf` is
`compute_twr` in exact fractions. A flow recorded with a worth the account did not
have (a price read as 0, a switch of mode meanwhile) ends what the model follows
of that mode (`exact`).

**ApprovalManager** is the module of that name over its store and a clock:
`request`, `respond` (approve and reject), `refresh`, `Tick`, `SignalChange`, each
at any time or never. In the running bot only `request`
is reached, for an outlier, with a store in the memory of a cron process that is
about to exit (`cron.py:53`, `strategy_cycle.py:134`), so no such request is ever
answered or refreshed, and nothing is assumed of a caller who would do it:
the properties are those that hold without one.
**Consent** is its abstract promise: asked once, once more at the most, and a
first verdict that stays.

**TradingCalendar** walks from 1 January of `FirstYear` to the end of `LastYear`.
`Trigger` fires once on each day of the schedule and opens the gate if
`is_trading_day` says so; `NextDay` turns the date; `ran` is the days of this
month on which a run passed. Below the code's table stands the rule of its
docstring (fixed holidays and their observed days, nth weekdays, Good Friday by
the computation of Easter), which is the reference.

**MarketSignal** is the road from the broker's rows to the signal: `get_daily_closes`
(newest row first, a missing close is 0), `month_end_closes`, `detect_outliers`,
`momentum_score`, `select`, put together in `SignalOf` as `run_cycle` does.
`Trade` moves the price of the current month, `NextMonth` closes it, `Run` takes
the decision: a signal, a hold for an outlier, or the ValueError (`raised`) that
ends the process. The reference, `SignalByDefinition`, works on the history by
calendar month and with fractions. In `StrategyCycle` the signal is any element
of `Signals`, so the two modules meet in that set only.

## 3. Runs

| run | asks | result |
|---|---|---|
| `Liquidation` | the cycle and a liquidation on one account, with pauses, deaths of either and a moving market | `PausedRunNeverTrades`, `ExecutedRunIsLogged`, `AnsweredSalesAreLogged`, `LiquidationIsComplete`, `CompleteReportIsHonest`, types |
| `CycleRecovery` | two misfortunes, then quiet | the account comes to hold the target alone, and stays there (`ReachesTarget`); `AtMostOneWorkingOrder` and `ImplementsWorkingOrders` though a run may start while an order works; `ExecuteAdvances` |
| `RouterDeliveries` | two dialogues, two threads, lost and repeated deliveries, one crash | `ActsOnce`, `LiquidatedIsPaused`, `CodeInTime`, `EveryUpdateAnswered` |
| `ClientCalls` | a command and the cycle, every request failing, repeated or lost | `OneTokenRequest`, `NotLimitedByItself`, `CachesAreCurrent`, `CommandEnds` |
| `Ledger` | both processes migrating, with a deposit or withdrawal, a y and a switch of mode handled at once | `AppliedOnceInOrder`, `SchemaReady`, `EveryProcessServes`; `RecordedWhereValued`, `ReturnIsGrowth` |
| `Approvals` | two requests, with answers, checks, time and a turning signal in every order | `ImplementsConsent`, `LapsesWhenDue` |
| `CalendarYears` | every day from 2026 to 2030 | `TableAgreesWithRule`, `LongMonthsRunAtTheirEnd` |
| `SignalMonths` | every history of five months of two funds | `SignalAsDefined`, `NoSignalOverMissingClose`, `BetterCloseKeepsSignal` |
| `LiquidationRebuy` | nothing is bought after a liquidation | **violated**: a cycle past its gate buys |
| `ExecutorRepost` | the transport repeats an accepted order | **violated**: two working orders |
| `CycleStrandedCash` | cash is not left lying | **violated**: a partly bought target is taken for a finished switch |
| `CalendarFebruary` | the cron job trades every month | **violated**: 28 February 2026 is a Saturday |

Every passing run checks the type invariant of its module as well (`CycleRecovery`
leaves it to `Liquidation`). A violated run checks one sentence of the
documentation (quoted under "findings" in `PROJECT.json`) that the code does not
keep.

### What the runs show

* *A liquidation that meets a cycle.* `LiquidationIsComplete` says what the user
  may rely on: when nothing else was trading, no order refused and none expired,
  all that is held is offered for sale, and the word that nothing was held is only
  said of an empty account. It holds because the flag is written before the sales
  and read before anything else. With a cycle past its gate it does not:
  in `LiquidationRebuy` the cycle waits for its proceeds, reads psamount, and buys
  after the user was told that everything is sold and the bot stopped. The flag
  is read once, at the start of a run that may wait two minutes, and `_pause`
  (`commands.py:287`) promises more than that.
* *What the answer and the log of a liquidation count.* Both take `placed` for what
  happened, and `placed` only says that an order was sent: a refused sale is listed
  (`commands.py:425`) and gets its row (`state_store.py:126`) like an accepted one.
  `AnsweredSalesAreLogged` says what can be relied on: an accepted sale is never
  missing from the log of a liquidation that was answered, and the answer lists
  sales just when the log has some. A liquidation that dies between its sales and
  its log leaves no row, and its user no answer. A holding whose sale was already
  working is skipped, which alone reads as nothing held. All of these are
  behaviours of the model.
* *What a report counts.* Fills are the difference of two balances. For a slot in
  which nobody else had an order that is right (`CompleteReportIsHonest`);
  purchases are among them even with a liquidation beside the cycle, because it
  buys nothing. Where a liquidation sold as well, or an order of an earlier run
  was still working, the difference counts those shares too (`meddled`). A buy
  that was skipped (no settled cash, an order already pending, some of the target
  held) is not among the orders the report looks at, so a one-legged switch can
  read as complete, against `PRD_momentum_bot.md:58`.
* *CycleStrandedCash.* `execute()` skips its purchase as `already_holding_target`
  whenever one share of the target is held (`order_executor.py:110`), so a run that
  nothing disturbs can sell the other fund and leave the proceeds in cash; so can
  one whose purchase was filled in part and expired. Every later run sees
  holdings that consist of the target and ends as UNCHANGED
  (`strategy_cycle.py:146`). `ReachesTarget` holds all the same, because "the target
  alone" is what the code decides by; the cash is what it does not look at.
* *The log.* `ExecutedRunIsLogged` speaks of runs that end as EXECUTED. An accepted
  sale of a run whose buy is rejected, raises or is cut off is never logged,
  although `/log` is meant to show all trades (PRD user story 30); the model has
  these behaviours (`Settlement`, `Die`).
* *The token.* A command asks for one token only because the first request of every
  command is one whose failure ends it; a masked failure there would ask again
  with the next request. That the liquidation once valued the account first, with
  a client of its own, is the mutant of `OneTokenRequest`. The advice that follows a failed
  liquidation (`commands.py:406`: look at /status, then repeat) spends the token
  of the minute on the /status. `OneTokenRequest` counts the calls of
  `issue_token`, not the POSTs by which `_send` may repeat one of them.
* *Slow prompts.* A `/deposit` whose valuation takes long opens its prompt over
  whatever a newer command left. What it then records is right (`RecordedWhereValued`)
  unless the answer to a switch of mode was being handled meanwhile. That exemption
  is needed: the answer takes its prompt (`commands.py:133`) before it writes the mode
  (`commands.py:351`, `368`), and a prompt that a slow `/deposit` opens in between
  (`commands.py:322`) survives the switch and is recorded in the other mode. It
  is also all that is needed, because a switch that comes later begins with a command
  that drops the prompt.
* *Late answers.* The expiry of an approval, and the signal it is about, are looked at
  by `refresh` alone and not by the answer (`approval_manager.py:87`). An answer of
  any lateness is accepted until a `refresh` has been called, and nothing in the
  repository calls it, though `PRD_momentum_bot.md:52` wants an old request to
  lapse. No bound on the lateness is stated here, because none holds. What does
  hold is the other side: a request whose signal still holds is never taken away
  early, and the repetition lasts its full time however late the check that
  made it (`LapsesWhenDue`).
* *CalendarFebruary.* The four days of the schedule hold the last trading day of
  every month of 30 or 31 days (checked: `LongMonthsRunAtTheirEnd`), but in a
  February of 28 days only the 28th is scheduled.

### Bounds, and why they are enough

* `Shares = 2` is the worth of the account. With two shares an order can be
  filled in part, both legs of a switch can exist, and the account can be split
  between both funds or between a fund and cash.
* `MaxPolls = 2`: the settlement wait can end at once, after waiting, and by its
  deadline. In `Liquidation` it is 1 (at once, or by its deadline): a longer wait
  only repeats the states in which the other process and the market move.
* `Proc`: one executor in `CycleRecovery` and `ExecutorRepost`, the cron's and
  the web's in `Liquidation`. The proofs show where one is used.
* `Faults = {}` except in `ExecutorRepost`: the passing runs show what holds when
  queries answer truthfully. The type, pause and log theorems need no such
  condition.
* `Signals`: in `Liquidation` one fund, for the two funds are alike, the account may
  hold either, and the liquidation is itself an executor with the target CASH; one
  fund and CASH in `LiquidationRebuy`, all three in `CycleRecovery`.
* `MaxMisfortunes = 2`: one misfortune can hit the run that repairs another.
* A run may start at any time, by the schedule or by hand, whatever still works at
  the broker; no run assumes otherwise.
* Router: two threads, at most two messages unanswered, one tick past a
  window of 0 (only "in time or late" matters), one crash, and the dialogues of
  `MCCommandRouter`: each dialogue (pause, resume, virtual, real, deposit,
  liquidation) shuffled with a `/resume`, and the slow `/deposit` shuffled with
  the dialogues that answer a prompt. Four messages are enough for any two
  messages to compete for a prompt while a third and its answer are under way.
  One code stands for all: that two codes differ is what the random draw is for.
* `ClientCalls`: one thread of the web process and the cron. A command meets
  others only in the minute's token, and whether one or several others hold it makes
  no difference to it. No bound on time or on the number of commands.
* `Ledger`: the four files, both processes, one death or lost answer of a
  commit (overlaps and key conflicts are not counted by `MaxCrashes`), the seed worth
  1 and moves of 2 at the prices 1 and 2, at most three units and three flows in all:
  enough for an account that is emptied, filled again and priced anew between two
  flows, in either mode. `Impatient = FALSE`: a `/deposit` comes only when the y to
  the one before has been handled; the proofs need no such bound. One thread for
  each of command, y and switch: what a second of a kind could do to the prompt, the
  first can do again.
* `Approvals`: two requests, a week of 2 and half a day of 1, so that a check can
  come before, at and after each expiry; `MaxTime` 6 leaves room for a repetition that
  was made late to run its full time.
* Calendar: the five years the table covers, no abstraction.
* Signal: lookbacks of 1 and 3 months for 3, 6 and 12, and a window of 4 for 13:
  one month of the window is looked at by no lookback, the window is the longest
  lookback and one month more, as in the code, and a fifth month lies outside
  it. The prices 0, 2, 3, 4 have every relation the code tells apart: missing,
  a rise of exactly one half (no outlier) and of more, losses, gains and ties.

`CHECK_DEADLOCK FALSE` is used where the run really ends: the user has
nothing left to say, the walk is at its last day, the clock at its end, or the
ledger at its bounds.

### Fairness

* `CycleRecovery`: the schedule keeps firing, a started run keeps running, and
  the broker fills working orders and settles sales. Misfortunes are not fair
  and are bounded; without that nothing could ever be said to be reached.
* `RouterDeliveries`: Telegram keeps delivering what was not answered
  (`WF(Receive)`), and the pool runs its threads (`WF(Handling)`). Both are weak
  and for the whole class of steps: no delivery and no thread has priority.
* `ClientCalls`: weak fairness of `Work(c)` for each thread: a request is answered
  or runs into its HTTP timeout, and the command goes on. Which answer it is, and
  how often it fails, is free.
* `Ledger`: weak fairness of `Migrating(p)` for each process: one that was started
  goes on, and one that is down is started again, the service by its host and
  the job by its next trigger. Crashes are not fair and are bounded.
* The end of `execute()` needs no fairness: `ExecuteAdvances` is an action
  property, a bound on the calls that are left and shrinks with each.

## 4. Proofs

The modules `*Proofs` are checked by tlapm to the last leaf. Assumptions are the
named ASSUMEs of the modules, and the conditions written in a theorem.

| theorem | statement |
|---|---|
| `TypeCorrect` | `Spec => []TypeOK` of the executor, any faults, any number of executors |
| `NoDoubleOrder` | one executor, truthful open-order query, no order behind a 5xx: `Spec => []AtMostOneWorkingOrder` |
| `Implementation` | under the same conditions, `Spec => ImplementsWorkingOrders` |
| `ExecuteTerminates` | `Spec => ExecuteAdvances`, any number of executors, any answers |
| `CycleTypeCorrect`, `PausedNeverTrades`, `ExecutedIsLogged` | `CycleSpec => []` of `CycleTypeOK`, `PausedRunNeverTrades`, `ExecutedRunIsLogged`, no condition |
| `CycleNoDoubleOrder`, `CycleImplementation` | under the conditions of `NoDoubleOrder`, `CycleSpec => []AtMostOneWorkingOrder`, `CycleSpec => ImplementsWorkingOrders` |
| `RecoveryIsCycle`, `RecoveryNoDoubleOrder` | `RecoverySpec => CycleSpec`; hence both of these for it, with any number of misfortunes |
| `SystemTypeCorrect`, `LiquidationStopsTheCycle`, `LogIsComplete` | the same three for `SystemSpec`, the cycle with a liquidation beside it |
| `LiquidationIsLogged` | `SystemSpec => []AnsweredSalesAreLogged`, no condition |
| `LiquidationCompletes` | a failed balance is not read as an empty account (`"balance" \notin Faults`): `SystemSpec => []LiquidationIsComplete` |
| `CompleteReportsAreHonest` | with no failed balance read as empty and no order behind a 5xx (`Truthful`): `SystemSpec => CompleteReportIsHonest` |
| `BothAdvance` | `SystemSpec => ExecuteAdvances` |
| `RouterTypeCorrect` | `Spec => []TypeOK` of CommandRouter |
| `EveryMessageActsOnce` | `Spec => []ActsOnce`, any number of threads, messages, deliveries, crashes |
| `LiquidationStaysPaused` | `Spec => []LiquidatedIsPaused` |
| `CodesRunOut` | `Spec => CodeInTime`, any window |
| `ClientTypeCorrect` | `Spec => []ClientTypeOK`: no command runs past the end of its list |
| `TokenOncePerCommand` | `Spec => []OneTokenRequest`, any number of threads |
| `LimitComesFromOthers` | `Spec => []NotLimitedByItself` |
| `NothingOlderThanAnOrder` | `Spec => []CachesAreCurrent`, any number of threads |
| `ApprovalTypeCorrect` | `Spec => []ApprovalTypeOK` |
| `EveryTermIsServed` | `Spec => LapsesWhenDue`, any lifetimes |
| `ManagerImplementsConsent` | `Spec => ImplementsConsent` |
| `EachFileOnce`, `ServesOnItsSchema` | `Spec => []AppliedOnceInOrder`, `[]SchemaReady`, any number of processes, files and deaths |
| `FlowsAreRecordedWhereValued` | `Spec => []RecordedWhereValued` |
| `LedgerTypeCorrect`, `ReturnIgnoresTheFlows` | `Spec => []LedgerTypeOK`, `[]ReturnIsGrowth`, any seed, any amounts and prices, ledgers of any length |
| `CalendarTypeCorrect`, `EveryLongMonthRuns` | `Spec => []CalendarTypeOK`, `LongMonthsRunAtTheirEnd`, any span of years, those without a table included |
| `TableIsTheRule` | `Spec => []TableAgreesWithRule` for any span of years within 2026 to 2030, the years the table has |
| `SignalTypeCorrect` | `Spec => []SignalTypeOK` of MarketSignal |
| `WindowsHaveNoGap` | `Months - 1 \in Lookbacks` (12 and 13 in the code): `Spec => []NoSignalOverMissingClose` |
| `BetterCloseIsSafe` | `Spec => []BetterCloseKeepsSignal`, any lookbacks, window and prices |
| `TheSignalIsTheDefinition` | `Spec => []SignalAsDefined`, any lookbacks, window, prices and history |

**The arguments.**

* *Types of the executor* (`TypeInv`): the account never goes negative and a
  local is set before it is read. Beyond `TypeOK`: the buy steps have a target
  with a symbol, `snap` is a position once it was queried, an order has a
  quantity.
* *No double order* (`OrderInv`): "no slot has two orders" is not inductive; what
  makes it so is what the executor knows. `KnowsWorking`: from the open-order
  query to its last order, every working order is in its answer or is a sell of
  its own. `SellsAhead`: the sells it has still to send were not sent.
  `BuyUnseen`: at the buy order the answer shows no working buy. The market only
  closes orders, so it keeps all three. With a second executor, or a false
  answer, `KnowsWorking` fails: `ExecutorRepost` shows the second.
* *Refinement*: every step of the executor places at most one order in an empty
  slot or changes no length; every step of the market closes one or none.
* *Termination* (`AdvanceInv`): `CallsLeft` is a bound on the calls that remain. It
  is a bound because the sell loop starts at its first ticker (`LoopInv`), and an
  executor that waits has polled fewer than `MaxPolls` times (`PollInv`).
* *The cycle* (`CycleIsStep`): whatever the cycle does to executor and account is
  a step of theirs or a stutter, so their invariants carry over. `LogInv` says
  for each step of the run what `accepted`, `logged` and the legs have to do
  with each other: while the executor runs, accepted legs are accepted orders
  and accepted orders are placed legs; past `Settlement` the two are equal.
* *The liquidation* (`SystemStep`): seen from the cycle, a step of the web process is
  a pause, or a step of another executor that leaves the run alone (`WebStep`);
  and the locals of one executor are nobody else's (`OthersKeepLocals`), so
  `LogInv` and `PausedInv` survive it.
* *A complete liquidation* (`SaleInv`): what is promised at the end is not inductive.
  `QuietInv` says what holds on the way as long as `quiet` does: the cycle stays
  before its gate, no buy works, each ticker has at most one sale and it offers all
  that is held (`Offer`), and what the executor has seen is what is there. A ticker
  that its loop has passed is offered in full or not held. A balance whose
  failure reads as an empty account would end it with shares unsold, which is the
  one condition.
* *The log of a liquidation* (`StopLogInv`): from its first order to its log, the
  orders taken from it are legs that were placed, and the accepted legs are orders
  taken; nothing moves its legs between the log and the answer, for they are the
  locals of its own executor.
* *An honest report* (`HonestInv`): `CountInv` follows each accepted order of the run
  (`Tracked`) from the first balance to the second. What is filled and what is still
  offered never exceed its quantity, and what the balance has moved never exceeds
  what is filled; so a report that finds the quantity moved finds it filled. A slot
  is tracked until somebody else has an order in it, one that worked before the run
  began included, since its fills would go into the same difference of balances.
* *The router* (`OwnInv`): a message belongs to the open prompt or to one thread,
  never to two (`Disjoint`), all of them are claimed (`BasisClaimed`), and a
  message that still belongs to somebody who may act was not acted upon
  (`Unspent`). A delivery moves the prompt's messages to one thread, which is
  why the prompt must be taken before it is answered (`pop` in `handle`).
  `HaltedIsPaused` adds that a thread past its pause, whose code was accepted
  since the last resume, finds the flag set. `CodesRunOut` needs only that no
  message was sent in the future (`SentBefore`).
* *The client* (`ClientInv`): every list starts with a new client, goes on with a
  request whose failure is not masked, and builds no client and calls `get_token` no
  more after that (`Whole`, proved part by part of the lists). So a thread has asked for no token before its second
  call, asks once while it is at it, and is past it only with a token (`Alone`).
* *The caches* (`CachesInv`): `place_order` empties them before its quote, and an
  order is only come to from the answer to that quote (`Led`, read off every
  list, for a failed quote ends the order). So between the two nothing fills a
  cache (`Clear`), and whatever fills it later was asked for after the order.
* *Approvals* (`IInv`): how often a request was asked goes with its status, and its
  expiry is never sooner than its rounds so far after its creation, because a
  repetition starts from the time of the check and not from the old expiry.
* *The migrations* (`MigrateInv`): a process passes only files whose versions are
  there, and an open transaction is the only one of its file, whose version is not
  there yet. So a commit adds a version and an effect together.
* *The flows* (`DialogueInv`): a command past its choice of the account, a prompt and a
  y that met no answer to a switch carry the mode of the moment, and no such answer
  is under way (`InMode`). Only such an answer changes the mode; it starts from the
  prompt of a switch, which is open only when that of a flow is not, and it marks
  the command and the y it finds at work.
* *The ledger* (`LedgerInv`): a flow recorded with the right worth never takes more
  units than there are (`NoOverdraft`), and until the seed is in, its place is free.
* *The return* (`ReturnInv`): `Grown` says of every mode that the product over the
  ended segments is the price of its last row over the base price, and that the
  segment under way started with what the account was then worth; a row written at
  the price of the moment extends both (`GrowthAppended`). An emptied account starts no
  segment, and the price of its next row takes up where the last one stopped.
* *The calendar* (`CalInv`): `NoRunMissed` says that each scheduled day of the month which
  the gate opens, and which has had its trigger, is in `ran`. The rest is arithmetic:
  the days of a month follow each other through the week (`WeekdayFacts`), Easter is
  before 28 April in every year (`EasterBound`), so that outside February only Good Friday
  in March, Memorial Day and Thanksgiving can be named from the 28th on
  (`RuleAtMonthEnd`), and they leave a weekday open among those days (`OpenAtMonthEnd`). The
  table is computed year by year (`Rule2026` to `Rule2030`).
* *The signal*: `ByDate`, `MonthEnd` and `ScoreIs` say what the code computes from
  rows that come newest first, in terms of the history itself (`SignalOfIs`). A score
  and its definition differ by a positive factor, the common denominator, which
  leaves signs and comparisons alone (`SameSign`, `SameOrder`); a better last close
  raises each quotient (`ScoreUp`). For the missing close, `NoGap`: a close that
  follows a positive one is positive or an outlier, and the oldest close of the
  window is scored, so it is positive.

What sums, products and series compute is proved without induction over data:
a smallest counterexample is taken from a well-founded order (subsets of a finite set,
`FS_StrictSubsetOrderingWellFounded`, or the numbers, `NatLessThanWellFounded`) and
refuted. That is how the folds of the community modules are unfolded one element at a
time, in `SignalProofs` for sums and in both `SignalProofs` and `LedgerProofs` for
products. `by_date`, the sort of the rows, is written as the row that has so
many rows of earlier months, because the order of equal rows never matters here
and a count can be reasoned about.

**Assumptions on the constants** are those of the modules (`OrderExecutorAssumption`,
`CashFlowsAssumption` and so on): finite sets, positive bounds, and at least one row
in a ledger (`MaxFlows`), since the seed of migration 003 is one. The conditions
in the table above are about the world or the configuration, and the passing runs satisfy them:
one executor at a time where it says so, the broker answers truthfully, the lookbacks fit the
window, and the years are in the table.

**Only model-checked:** the liveness properties `ReachesTarget`,
`EveryUpdateAnswered`, `CommandEnds` and `EveryProcessServes`, which
need fairness and ENABLED, out of the prover's reach. Every invariant and every
other action property or refinement that a passing run checks is a theorem, of the
specification that the run checks it of.

## 5. Not modelled, and why

* The values of prices and money in the order path: amounts are shares at a
  constant price, so a slippage between sizing and order shows as a rejected
  order, and the valuations in reports and logs are left out.
* Floating point. `MarketSignal` and `CashFlows` compute exact quotients; a float
  score may miss an exact zero or an exact tie by a rounding error. `compute_cagr`
  is a root of the growth and is left out, with the count of days.
* Time in the client: that three seconds have passed is not known to the model, so
  a cached answer may be used or asked for again wherever there is one
  (`FromCache` beside `Ask`). The throttle keeps apart the requests of one
  client only; two clients can exceed the broker's rate together, and what then
  happens (a 5xx, a retry) is in the model. A token outlives every process, so its
  expiry and `TokenManager.reset` are out.
* Texts, formatting and the read-only commands. In `CommandRouter`, `/status`,
  `/signal`, `/log` and `/help` are one command that drops an open prompt and
  answers; what they ask of the broker is in `KisClient`.
* The account the cycle trades is chosen at its start and tied to no mode in
  `StrategyCycle`; the mode is in the router and the ledger.
* Authentication (webhook token, chat id) is a filter in front of everything.
* `fallback_controller.py` is a table from failures to messages: `run_cycle` calls
  one entry and drops its decision, and nothing calls the others.
  `mode_manager.py` reads the mode for the tag of a message. `config.py`,
  `logging_setup.py` and `telegram_client.py` keep no state that changes.
  `verify_switch.py` is a script run by hand. `get_executions` is a stub that
  nobody calls.
* The database itself: a call of the store is one atomic action that happens or
  raises. A commit whose answer is lost is, for the claim, the loss of the
  message; for a migration it is an action of its own.

## 6. Plan

Done: every component with state is modelled, with the two compositions that
matter (cycle and liquidation on one account; migrations and ledger in one
database), two refinements, and the safety proofs listed above.

And every invariant of the passing runs is proved, for every value of the constants
that the table of section 4 allows. What is left:

1. A measure behind each liveness property, as an action property of its
   own: what a web thread, a command of the client, a migration has left to do
   shrinks with each of its steps, as `ExecuteAdvances` says of the executor.
2. The complement of `EveryLongMonthRuns`: in which Februaries the
   schedule misses the last trading day, as a theorem about the years.
