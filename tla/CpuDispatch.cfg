SPECIFICATION DispatchFairSpec
CONSTANTS
  MaxWorkers = 4
  RangeLists <- MCRangeLists
  MaxCalls = 2
  MaxInits = 1
  MaxRe = 6
INVARIANTS
  WorkersWriteDisjointElements
PROPERTIES
  EveryReEqualisedOnce
  EveryCallReturns
  StopJoinsEveryWorker
