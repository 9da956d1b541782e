CONSTANTS
  Proc = {"web", "cron"}
  web = "web"
  Last = 4
  MaxCrashes = 1
  SeedFile = 3
  Seed = 1
  Amount = {2}
  Price = {1, 2}
  MaxUnits = 3
  MaxFlows = 3
  Impatient = FALSE
SPECIFICATION Spec
INVARIANTS LedgerTypeOK AppliedOnceInOrder SchemaReady ReturnIsGrowth RecordedWhereValued
PROPERTIES EveryProcessServes
CHECK_DEADLOCK FALSE
