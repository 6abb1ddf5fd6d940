SPECIFICATION Spec
CONSTANTS
  MaxWorkers = 3
  RangeLists <- MCRangeLists
  MaxCalls = 3
  MaxInits = 2
INVARIANTS
  IInv
  NoWorkerOutlivesTheCall
  SnapshotIsTheCurrentCall
  NoLostWakeup
PROPERTIES
  EveryChunkRanOnce
  ImplementsForkJoin
