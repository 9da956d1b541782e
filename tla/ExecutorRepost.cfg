CONSTANTS
  Shares = 2
  Faults = {"post_5xx"}
  Proc = {cron}
  MaxPolls = 2
SPECIFICATION Spec
INVARIANT AtMostOneWorkingOrder
