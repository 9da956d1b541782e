--------------------------- MODULE MCCycleRecovery ---------------------------
EXTENDS CycleRecovery

\* Accounts with no cash of their own: what is uninvested later was sold.
FullyInvested == RecoverySpec /\ cash = 0
==============================================================================
