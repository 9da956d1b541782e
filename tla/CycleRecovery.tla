---------------------------- MODULE CycleRecovery ----------------------------
(***************************************************************************)
(* Month ends, one after another, of a strategy that keeps giving the same *)
(* signal, when only finitely many things go wrong: what run_cycle repairs *)
(* by deciding from the account's holdings instead of the last signal.     *)
(***************************************************************************)
EXTENDS StrategyCycle

CONSTANT MaxMisfortunes   \* bound on what goes wrong in a behaviour

ASSUME RecoveryAssumption ==
  /\ MaxMisfortunes \in Nat
  /\ Signals # {}

VARIABLE
  misfortunes   \* what has gone wrong so far

recoveryvars == <<allvars, misfortunes>>

\* The broker refuses an order it could have covered.
OrderRejected ==
  \E s \in Ticker, d \in Side : /\ leg'[cron][s].state = "rejected"
                                /\ leg[cron][s].state # "rejected"
                                /\ d = IF s = SymbolOf(target[cron])
                                         THEN "BUY" ELSE "SELL"
                                /\ leg'[cron][s].quantity <= Free(s, d)

OrderEnds == \E s \in Ticker, d \in Side : Expire(s, d)

\* psamount answers nothing buyable, or the price is 0, though there is cash.
NothingBuyable ==
  \E s \in Ticker : /\ leg'[cron][s].state = "insufficient_cash"
                    /\ leg[cron][s].state # "insufficient_cash"
                    /\ cash > 0

\* A run that cannot start or dies, an order refused or not sized, an order
\* that ends with shares unfilled.
Misfortune ==
  \/ step # "off" /\ step' = "off"
     /\ status' \in {"NON_TRADING_DAY", "OUTLIER_PENDING", "raised"}
  \/ OrderRejected
  \/ NothingBuyable
  \/ OrderEnds

RecoveryInit == CycleInit /\ misfortunes = 0

RecoveryNext ==
  /\ Trigger \/ RunCycle \/ Die \/ MarketMoves
  /\ misfortunes' = IF Misfortune THEN misfortunes + 1 ELSE misfortunes
  /\ misfortunes' <= MaxMisfortunes

\* The schedule keeps firing, a started process keeps running, the broker
\* fills the orders it keeps and settles what it has sold.
RecoverySpec ==
  /\ RecoveryInit
  /\ [][RecoveryNext]_recoveryvars
  /\ WF_recoveryvars(RecoveryNext /\ Trigger)
  /\ WF_recoveryvars(RecoveryNext /\ RunCycle)
  /\ WF_recoveryvars(RecoveryNext /\ Settle)
  /\ \A s \in Ticker, d \in Side : WF_recoveryvars(RecoveryNext /\ Fill(s, d))

------------------------------------------------------------------------------
(* Properties *)

\* strategy_cycle: the cycle heals itself after crashes and interruptions.
\* Whatever it was doing when things went wrong, the account comes to hold the
\* target alone, and stays there.
ReachesTarget == 
  \A t \in Signals : <>[](lastSignal = t) => <>[]AtTarget(t, held)

\* PRD user story 17: cash is not left lying after a switch of which one leg
\* was filled and the other not, because the rest is retried.
CashIsInvested == 
  \A t \in Signals \ {"CASH"} : <>[](lastSignal = t) => <>[](cash = 0)
==============================================================================
