SPECIFICATION Spec
CONSTANTS
  quiet = quiet
  noisy = noisy
  view = view
  other = other
  cell1 = cell1
  cell2 = cell2
  sf1 = sf1
  sf2 = sf2
  Grids = {view, other}
  SingleAntenna = {view}
  Contents = {quiet, noisy}
  NoiseOf <- MCNoiseOf
  Cells = {cell1, cell2}
  Subframes = {sf1, sf2}
  Inputs <- MCInputs
  Configs <- MCConfigs
  DefaultConfig <- Low
  AlphaUnit = 4
  MaxGeneration = 1
  MaxCalls = 3
  MaxInits = 2
INVARIANTS
  TypeOK
  FreshEstimate
  NoiseStateIsTheFold
  NoiseStaysWithinEstimates
  ReportsTheNoiseUsed
