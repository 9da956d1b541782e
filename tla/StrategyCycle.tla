---------------------------- MODULE StrategyCycle ----------------------------
(***************************************************************************)
(* The cron process: cron.main starts strategy_cycle.run_cycle once per    *)
(* trigger; run_cycle passes its gates, works out a signal, moves the      *)
(* account through OrderExecutor, settles, logs and reports.  Between any  *)
(* two calls the market moves, the user pauses or resumes the bot, or the  *)
(* process dies of an exception: nothing catches one.                      *)
(***************************************************************************)
EXTENDS OrderExecutor

CONSTANTS
  cron,      \* the process that runs the cycle
  Signals    \* what decide_signal may answer

ASSUME CycleAssumption ==
  /\ cron \in Proc
  /\ Signals \subseteq Target

VARIABLES
  step,        \* the next call of run_cycle, "off" when the process is down
  paused,      \* bot_state.is_paused
  lastSignal,  \* the last_signal row
  signal,      \* local signal.target
  before,      \* local before.holdings
  after,       \* local after.holdings
  status,      \* how the latest run ended
  note         \* the latest run's last message to the user

\* What the latest run really did, which the code keeps nowhere.
VARIABLES
  accepted,    \* slots where the broker accepted one of its orders
  logged,      \* slots it wrote to trade_log
  filled,      \* shares of its orders filled while it runs
  pausedOn     \* paused without a break since before it was triggered

run == <<step, signal, before, after, status, note>>
ghosts == <<accepted, logged, filled, pausedOn>>
cycle == <<run, paused, lastSignal, ghosts>>
allvars == <<vars, cycle>>

StepName == {"off", "gate", "day", "market", "decide", "before", "nav",
             "execute", "after", "record", "report"}
Result == {"none", "PAUSED", "NON_TRADING_DAY", "OUTLIER_PENDING",
           "UNCHANGED", "EXECUTED", "INCOMPLETE", "raised"}
Message == {"none", "paused", "market_closed", "outlier", "at_target",
            "incomplete", "insufficient_cash", "no_order", "complete",
            "partial"}

CycleTypeOK ==
  /\ TypeOK
  /\ step \in StepName
  /\ paused \in BOOLEAN /\ pausedOn \in BOOLEAN
  /\ lastSignal \in Target \cup {"none"}
  /\ signal \in Target
  /\ before \in Position /\ after \in Position
  /\ status \in Result /\ note \in Message
  /\ accepted \subseteq Slot /\ logged \subseteq Slot
  /\ filled \in [Slot -> Nat]

CycleInit ==
  /\ Init
  /\ step = "off" /\ status = "none" /\ note = "none"
  /\ paused = FALSE /\ pausedOn = FALSE
  /\ lastSignal = "none" /\ signal = "CASH"
  /\ before = NoPosition /\ after = NoPosition
  /\ accepted = {} /\ logged = {} /\ filled = [k \in Slot |-> 0]

------------------------------------------------------------------------------
\* The run ends here with a result and its last message.
End(result, message) ==
  /\ step' = "off"
  /\ status' = result
  /\ note' = message
  /\ signal' = "CASH" /\ before' = NoPosition /\ after' = NoPosition

Proceed(next_step) ==
  /\ step' = next_step
  /\ UNCHANGED <<status, note>>

\* cron.main: a new process with a new client, up to the call of run_cycle.
\* It is started by the schedule or by hand, whatever works at the broker.
Trigger ==
  /\ step = "off"
  /\ step' = "gate"
  /\ status' = "none" /\ note' = "none"
  /\ accepted' = {} /\ logged' = {} /\ filled' = [k \in Slot |-> 0]
  /\ pausedOn' = paused
  /\ UNCHANGED <<vars, signal, before, after, paused, lastSignal>>

\* Mutated form of Gate: the flag is not looked at.
GateOpen ==
  /\ step = "gate"
  /\ Proceed("day")
  /\ UNCHANGED <<vars, signal, before, after, paused, lastSignal, ghosts>>

Gate ==
  /\ step = "gate"
  /\ IF paused THEN End("PAUSED", "paused")
               ELSE Proceed("day") /\ UNCHANGED <<signal, before, after>>
  /\ UNCHANGED <<vars, paused, lastSignal, ghosts>>

Day ==
  /\ step = "day"
  /\ \/ End("NON_TRADING_DAY", "market_closed")
     \/ Proceed("market") /\ UNCHANGED <<signal, before, after>>
  /\ UNCHANGED <<vars, paused, lastSignal, ghosts>>

\* Token and prices.  The approval requested for an outlier lives in the
\* memory of a process that is about to exit.
MarketData ==
  /\ step = "market"
  /\ \/ End("OUTLIER_PENDING", "outlier")
     \/ Proceed("decide") /\ UNCHANGED <<signal, before, after>>
  /\ UNCHANGED <<vars, paused, lastSignal, ghosts>>

\* Mutated form of Decide: a signal that has not changed ends the run, as it
\* once did.
DecideByLastSignal ==
  /\ step = "decide"
  /\ \E t \in Signals :
       /\ lastSignal' = t
       /\ IF lastSignal = t
            THEN End("UNCHANGED", "at_target")
            ELSE /\ signal' = t
                 /\ Proceed("before")
                 /\ UNCHANGED <<before, after>>
  /\ UNCHANGED <<vars, paused, ghosts>>

Decide ==
  /\ step = "decide"
  /\ \E t \in Signals : signal' = t /\ lastSignal' = t
  /\ Proceed("before")
  /\ UNCHANGED <<vars, before, after, paused, ghosts>>

\* _already_at_target(target, holdings)
AtTarget(t, holdings) ==
  {s \in Ticker : holdings[s] > 0} = {SymbolOf(t)} \ {"None"}

Before ==
  /\ step = "before"
  /\ \E holdings \in BalanceAnswers :
       IF AtTarget(signal, holdings)
         THEN End("UNCHANGED", "at_target")
         ELSE /\ before' = holdings
              /\ Proceed("nav")
              /\ UNCHANGED <<signal, after>>
  /\ UNCHANGED <<vars, paused, lastSignal, ghosts>>

\* The NAV is priced, then execute() is called.
CallExecute ==
  /\ step = "nav"
  /\ \E balance \in {NoBalance, before} : Begin(cron, signal, balance)
  /\ Proceed("execute")
  /\ UNCHANGED <<signal, before, after, paused, lastSignal, ghosts>>

RunExecutor ==
  /\ step = "execute"
  /\ Execute(cron)
  /\ IF pc'[cron] = "idle"
       THEN End("raised", note)
       ELSE UNCHANGED run
  /\ accepted' = accepted \cup {k \in Slot : Len(book'[k]) > Len(book[k])}
  /\ UNCHANGED <<paused, lastSignal, logged, filled, pausedOn>>

PlacedSlots ==
  {<<s, IF s = SymbolOf(target[cron]) THEN "BUY" ELSE "SELL">> :
     s \in {t \in Ticker : placed(cron, t)}}

\* PartialFillHandler.settle: every order that was sent was accepted.
settled == \A s \in Ticker : placed(cron, s) => leg[cron][s].state = "accepted"

\* The settlement of the legs, and the two ways out it may lead to.
Settlement ==
  /\ step = "execute"
  /\ pc[cron] = "done"
  /\ IF settled /\ PlacedSlots # {}
       THEN /\ Proceed("after")
            /\ UNCHANGED <<vars, signal, before, after>>
       ELSE /\ End("INCOMPLETE",
                   IF ~settled THEN "incomplete"
                   ELSE IF \E s \in Ticker :
                             leg[cron][s].state = "insufficient_cash"
                          THEN "insufficient_cash" ELSE "no_order")
            /\ Return(cron)
  /\ UNCHANGED <<paused, lastSignal, ghosts>>

\* Mutated form of After: the balance is not there.
AfterNothing ==
  /\ step = "after"
  /\ after' = NoBalance
  /\ Proceed("record")
  /\ UNCHANGED <<vars, signal, before, paused, lastSignal, ghosts>>

After ==
  /\ step = "after"
  /\ after' \in BalanceAnswers
  /\ Proceed("record")
  /\ UNCHANGED <<vars, signal, before, paused, lastSignal, ghosts>>

\* Mutated form of Record: the buy leg alone is logged.
RecordBuy ==
  /\ step = "record"
  /\ logged' = logged \cup {k \in PlacedSlots : k[2] = "BUY"}
  /\ Proceed("report")
  /\ UNCHANGED <<vars, signal, before, after, paused, lastSignal, accepted,
                 filled, pausedOn>>

Record ==
  /\ step = "record"
  /\ logged' = logged \cup PlacedSlots
  /\ Proceed("report")
  /\ UNCHANGED <<vars, signal, before, after, paused, lastSignal, accepted,
                 filled, pausedOn>>

\* _leg_filled(leg, before, after): what the report takes for the fill.
LegFilled(k) ==
  LET moved == IF k[2] = "BUY" THEN after[k[1]] - before[k[1]]
                               ELSE before[k[1]] - after[k[1]]
      ordered == leg[cron][k[1]].quantity
  IN IF moved < 0 THEN 0 ELSE IF moved > ordered THEN ordered ELSE moved

\* Mutated form of FullyFilled: an accepted order is taken for a filled one.
FullyAccepted ==
  \A k \in PlacedSlots : leg[cron][k[1]].state = "accepted"

FullyFilled ==
  \A k \in PlacedSlots : LegFilled(k) >= leg[cron][k[1]].quantity

Report ==
  /\ step = "report"
  /\ End("EXECUTED", IF FullyFilled THEN "complete" ELSE "partial")
  /\ Return(cron)
  /\ UNCHANGED <<paused, lastSignal, ghosts>>

\* An exception leaves run_cycle, main and the process.
Die ==
  /\ step # "off"
  /\ End("raised", note)
  /\ IF pc[cron] = "idle" THEN UNCHANGED vars ELSE Raise(cron)
  /\ UNCHANGED <<paused, lastSignal, ghosts>>

RunCycle ==
  \/ Gate \/ Day \/ MarketData \/ Decide \/ Before \/ CallExecute
  \/ RunExecutor \/ Settlement \/ After \/ Record \/ Report

------------------------------------------------------------------------------
(* The rest of the world *)

\* The user confirms /pause, or sends /resume.
Pause ==
  /\ ~paused
  /\ paused' = TRUE
  /\ UNCHANGED <<vars, run, lastSignal, ghosts>>

Resume ==
  /\ paused
  /\ paused' = FALSE
  /\ pausedOn' = FALSE
  /\ UNCHANGED <<vars, run, lastSignal, accepted, logged, filled>>

\* Fills of this run's orders are counted, as long as it runs.
MarketMoves ==
  /\ Market
  /\ filled' = [k \in Slot |->
       IF step # "off" /\ k \in accepted /\ held'[k[1]] = held[k[1]] +
                              (IF k[2] = "BUY" THEN 1 ELSE -1)
         THEN filled[k] + 1 ELSE filled[k]]
  /\ UNCHANGED <<executor, run, paused, lastSignal, accepted, logged, pausedOn>>

CycleNext ==
  \/ Trigger \/ RunCycle \/ Die
  \/ Pause \/ Resume
  \/ MarketMoves

CycleSpec == CycleInit /\ [][CycleNext]_allvars

------------------------------------------------------------------------------
(* Properties *)

\* A run triggered while the bot is paused, and not resumed since, has no
\* order at the broker: run_cycle reads the flag before anything else, however
\* long it then takes.
PausedRunNeverTrades == pausedOn => accepted = {} /\ step \in {"off", "gate"}

\* When a run says it executed, the trade log holds a row for exactly the slots
\* where the broker accepted an order from it: record_trade is reached only if
\* every placed leg was accepted.  (A leg is one row: that the transport's
\* retry may have doubled its order is what AtMostOneWorkingOrder is about.)
ExecutedRunIsLogged == status = "EXECUTED" => logged = accepted
==============================================================================
