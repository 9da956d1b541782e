SPECIFICATION FairSpec
CONSTANTS
  Thread = {t1, t2}
  Code = {"123456"}
  Window = 0
  Dialogues <- TwoDialogues
  MaxUpdates = 4
  MaxOpen = 2
  MaxTime = 1
  MaxCrashes = 1
INVARIANTS TypeOK ActsOnce LiquidatedIsPaused
PROPERTIES CodeInTime EveryUpdateAnswered
CHECK_DEADLOCK FALSE
