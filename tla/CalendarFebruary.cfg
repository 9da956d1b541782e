CONSTANTS
  FirstYear = 2026
  LastYear = 2030
SPECIFICATION Spec
PROPERTY EveryMonthRuns
CHECK_DEADLOCK FALSE
