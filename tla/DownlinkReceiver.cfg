SPECIFICATION Spec
CONSTANTS
  Searches <- MCSearches
  OtherRnti <- MCOtherRnti
  Inputs <- MCInputs
INVARIANTS
  SearchFindsWhatWasSent
  SearchCountersAddUp
  GrantsReachTheEqualiser
  LlrsAreMaxLog
  PlanIsTransparent
  DecoderIsMaximumLikelihood
  RecoveryInvertsRateMatching
  DciRoundTrip
  SymbolsAndRatiosAreTrue
  EstimateIsExact
  LayoutsCarryTheChannels
  DciSurvivesTheChain
