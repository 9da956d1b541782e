CONSTANTS
  Shares = 2
  Faults = {}
  cron = cron
  Proc = {cron}
  MaxPolls = 2
  Signals = {"GOLD"}
  MaxMisfortunes = 2
SPECIFICATION FullyInvested
PROPERTY CashIsInvested
