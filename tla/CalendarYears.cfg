CONSTANTS
  FirstYear = 2026
  LastYear = 2030
SPECIFICATION Spec
INVARIANTS CalendarTypeOK TableAgreesWithRule
PROPERTY LongMonthsRunAtTheirEnd
CHECK_DEADLOCK FALSE
