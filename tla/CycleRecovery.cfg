CONSTANTS
  Shares = 2
  Faults = {}
  cron = cron
  Proc = {cron}
  MaxPolls = 2
  Signals = {"NASDAQ", "GOLD", "CASH"}
  MaxMisfortunes = 2
SPECIFICATION RecoverySpec
INVARIANT AtMostOneWorkingOrder
PROPERTIES ImplementsWorkingOrders ReachesTarget ExecuteAdvances
