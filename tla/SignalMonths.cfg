CONSTANTS
  Price = {0, 2, 3, 4}
  Lookbacks = {1, 3}
  Months = 4
  Scale = 12
  MaxMonths = 5
SPECIFICATION Spec
INVARIANTS SignalTypeOK SignalAsDefined NoSignalOverMissingClose BetterCloseKeepsSignal
