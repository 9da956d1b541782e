CONSTANTS
  Shares = 2
  Faults = {}
  cron = cron
  web = web
  Proc = {cron, web}
  MaxPolls = 1
  Signals = {"NASDAQ"}
SPECIFICATION SystemSpec
INVARIANTS LiquidationTypeOK PausedRunNeverTrades ExecutedRunIsLogged AnsweredSalesAreLogged LiquidationIsComplete
PROPERTIES CompleteReportIsHonest
