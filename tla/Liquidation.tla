----------------------------- MODULE Liquidation -----------------------------
(***************************************************************************)
(* Two processes on one account: the cron cycle of StrategyCycle, and the  *)
(* web process from the moment the code of an /emergency-stop is accepted. *)
(* They share the pause flag in the database and the account at the        *)
(* broker, and know nothing of each other.                                 *)
(***************************************************************************)
EXTENDS StrategyCycle

CONSTANT web   \* the thread of the web process that liquidates

ASSUME LiquidationAssumption == web \in Proc /\ web # cron

VARIABLES
  stage,    \* where the handler of the code is
  answer,   \* what the user was last told: the list of sales, that nothing
            \* was held, or that an error occurred
  rows      \* the sales of trade_log that the latest liquidation wrote

\* What the code keeps nowhere.
VARIABLES
  quiet,    \* since the latest liquidation set the flag, no order but its own
            \* worked, none of them was refused or expired, nobody resumed
  meddled,  \* slots where an order that is not the latest run's has worked
            \* while it ran
  taken     \* sales of the latest liquidation that the broker accepted

liquidation == <<stage, answer, rows, quiet, meddled, taken>>
systemvars == <<allvars, liquidation>>

LiquidationTypeOK ==
  /\ CycleTypeOK
  /\ stage \in {"off", "stop", "execute", "answer"}
  /\ answer \in {"none", "sold", "nothing", "error"}
  /\ quiet \in BOOLEAN /\ meddled \subseteq Slot
  /\ rows \subseteq Ticker /\ taken \subseteq Ticker

LiquidationInit ==
  /\ CycleInit
  /\ stage = "off" /\ answer = "none" /\ quiet = FALSE /\ meddled = {}
  /\ rows = {} /\ taken = {}

------------------------------------------------------------------------------
(* The web process *)

\* Mutated form of EmergencyStop: the flag is left for the end.
StopWithoutPause ==
  /\ stage = "off"
  /\ stage' = "stop"
  /\ answer' = "none" /\ rows' = {} /\ taken' = {}
  /\ quiet' = (step \in {"off", "gate"} /\ Working = {})
  /\ UNCHANGED <<vars, run, paused, lastSignal, ghosts, meddled>>

\* The code is right and in time: the flag is written before anything else.
EmergencyStop ==
  /\ stage = "off"
  /\ stage' = "stop"
  /\ paused' = TRUE
  /\ answer' = "none" /\ rows' = {} /\ taken' = {}
  /\ quiet' = (step \in {"off", "gate"} /\ Working = {})
  /\ UNCHANGED <<vars, run, lastSignal, ghosts, meddled>>

\* liquidator(): a new client, so no balance is cached.
CallLiquidator ==
  /\ stage = "stop"
  /\ stage' = "execute"
  /\ Begin(web, "CASH", NoBalance)
  /\ UNCHANGED <<cycle, answer, rows, quiet, meddled, taken>>

RunLiquidator ==
  /\ stage = "execute"
  /\ Execute(web)
  /\ IF pc'[web] = "idle"
       THEN stage' = "off" /\ answer' = "error" /\ quiet' = FALSE
       ELSE UNCHANGED <<stage, answer, quiet>>
  /\ meddled' = meddled \cup
                   {k \in Slot : step # "off" /\ book'[k] # book[k]}
  /\ taken' = taken \cup {s \in Ticker :
                          Len(book'[<<s, "SELL">>]) > Len(book[<<s, "SELL">>])}
  /\ UNCHANGED <<cycle, rows>>

Listed == {s \in Ticker : placed(web, s)}

\* Mutated form of LogSales: a write that fails is swallowed, as the answer
\* matters more.
LogSalesIfPossible ==
  /\ stage = "execute"
  /\ pc[web] = "done"
  /\ stage' = "answer"
  /\ rows' \in {Listed, {}}
  /\ UNCHANGED <<allvars, answer, quiet, meddled, taken>>

\* get_trading_mode, then record_trade in one transaction.  A leg whose order
\* was refused was sent too, and gets its row.
LogSales ==
  /\ stage = "execute"
  /\ pc[web] = "done"
  /\ stage' = "answer"
  /\ rows' = Listed
  /\ UNCHANGED <<allvars, answer, quiet, meddled, taken>>

\* _format_liquidation lists what the log got.
Answer ==
  /\ stage = "answer"
  /\ Return(web)
  /\ stage' = "off"
  /\ answer' = IF Listed # {} THEN "sold" ELSE "nothing"
  /\ quiet' = (quiet /\ \A s \in Ticker : leg[web][s].state # "rejected")
  /\ UNCHANGED <<cycle, rows, meddled, taken>>

\* The liquidator, the mode or the log raises, the commit of the rows is lost
\* on its way back, or the web process dies.
LiquidatorFails ==
  /\ stage # "off"
  /\ IF pc[web] = "idle" THEN UNCHANGED vars ELSE Raise(web)
  /\ stage' = "off" /\ answer' = "error" /\ quiet' = FALSE
  /\ UNCHANGED <<cycle, rows, meddled, taken>>

Liquidate == CallLiquidator \/ RunLiquidator \/ LogSales \/ Answer

------------------------------------------------------------------------------
Expiry == \E s \in Ticker, d \in Side : Expire(s, d)

\* The cron process, the user's /pause, and the market: theirs is StrategyCycle.
Others ==
  /\ Trigger \/ RunCycle \/ Die \/ Pause \/ MarketMoves
  /\ quiet' = (quiet /\ ~Expiry)
  /\ meddled' = IF step' = "off" THEN {} ELSE IF Trigger THEN Working ELSE meddled
  /\ UNCHANGED <<stage, answer, rows, taken>>

Resumed ==
  /\ Resume
  /\ quiet' = FALSE
  /\ UNCHANGED <<stage, answer, rows, meddled, taken>>

SystemNext ==
  \/ EmergencyStop \/ Liquidate \/ LiquidatorFails
  \/ Others \/ Resumed

SystemSpec == LiquidationInit /\ [][SystemNext]_systemvars

------------------------------------------------------------------------------
(* Properties *)

\* PRD user story 31, sell everything and stop: when nothing else was trading,
\* every share still held after the answer is offered for sale and no buy
\* works, however often the cron is triggered meanwhile; and "nothing was held"
\* is only said of an empty account.  It rests on the flag being written before
\* the sales, and on run_cycle reading it before anything else.
LiquidationIsComplete ==
  quiet /\ stage = "off" =>
    /\ \A s \in Ticker : /\ held[s] = SumFunction(book[<<s, "SELL">>])
                         /\ book[<<s, "BUY">>] = <<>>
    /\ answer = "nothing" => held = NoPosition

\* record_trade with reason "emergency_stop": every order the broker took from
\* a liquidation that has answered is in the trade log, filled meanwhile or
\* not, and the user is told of sales just when the log has some.
\* A row more than that is a sale the broker refused: the answer and
\* the log both tell a sent order from one that was never sent, and no more.
AnsweredSalesAreLogged ==
  stage = "off" /\ answer \in {"sold", "nothing"} =>
    /\ taken \subseteq rows
    /\ answer = "sold" <=> rows # {}
    /\ quiet => rows = taken

\* "Not accepted but filled" (strategy_cycle._format_report): a report of a
\* complete switch comes after every share of every order of the run is filled,
\* though it is worked out from two balances while the market moves.  Where a
\* liquidation, or a run before this one, had an order on the same side of the
\* same fund that cannot be said: the difference counts its shares too.
CompleteReportIsHonest ==
  [][Report /\ note' = "complete" =>
       \A k \in PlacedSlots \ meddled :
         filled[k] = leg[cron][k[1]].quantity]_systemvars

\* PRD user story 38: after a liquidation nothing is bought until /resume.
StoppedStaysOut ==
  [][paused /\ stage = "off" /\ answer \in {"sold", "nothing"} =>
       \A s \in Ticker : held'[s] <= held[s]]_systemvars
==============================================================================
