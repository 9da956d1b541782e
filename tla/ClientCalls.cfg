CONSTANTS
  Thread = {"web", "cron"}
  cron = "cron"
  nobody = "nobody"
  before = "before"
SPECIFICATION Spec
INVARIANTS ClientTypeOK OneTokenRequest NotLimitedByItself CachesAreCurrent
PROPERTIES CommandEnds
