CONSTANTS
  MaxRequests = 2
  MaxTime = 6
  Signal = {"NASDAQ", "GOLD"}
  Week = 2
  HalfDay = 1
SPECIFICATION Spec
INVARIANT ApprovalTypeOK
PROPERTIES ImplementsConsent LapsesWhenDue
CHECK_DEADLOCK FALSE
