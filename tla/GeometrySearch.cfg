SPECIFICATION Spec
CONSTANTS
  Cells <- MCCells
  Signals <- MCSignals
  FalseHits <- MCFalseHits
  NoCell = NoCell
  NoGeometry = NoGeometry
  Silence = Silence
INVARIANTS
  TypeOK
  LockedWhereAcquired
  ReacquiresAStableCell
  RegsFollowTheStandard
  CandidatesReadWhatWasSent
