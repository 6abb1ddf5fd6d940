SPECIFICATION AutoSpec
CONSTANTS
  quiet = quiet
  noisy = noisy
  view = view
  other = other
  cell = cell
  sf = sf
  Callers = {view, other}
  Grids <- MCGrids
  SingleAntenna = {}
  Contents = {quiet, noisy}
  NoiseOf <- MCNoiseOf
  Cells = {cell}
  Subframes = {sf}
  Inputs <- MCInputs
  Configs <- OneConfig
  DefaultConfig <- Low
  AlphaUnit = 4
  SlotCount = 2
  OneCounter = TRUE
  MaxGeneration = 2
  MaxCalls = 3
  MaxInits = 1
INVARIANTS
  AutoFreshEstimate
