CONSTANTS
  Shares = 2
  Faults = {}
  cron = cron
  web = web
  Proc = {cron, web}
  MaxPolls = 2
  Signals = {"NASDAQ", "CASH"}
SPECIFICATION SystemSpec
PROPERTIES StoppedStaysOut
