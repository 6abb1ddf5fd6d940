SPECIFICATION AutoSpec
CONSTANTS
  quiet = quiet
  noisy = noisy
  view = view
  other = other
  cell = cell
  sf = sf
  Callers = {view, other}
  Grids <- MCGrids
  SingleAntenna = {}
  Contents = {quiet, noisy}
  NoiseOf <- MCNoiseOf
  Cells = {cell}
  Subframes = {sf}
  Inputs <- MCInputs
  Configs <- OneConfig
  DefaultConfig <- Low
  AlphaUnit = 4
  SlotCount = 1
  OneCounter = FALSE
  MaxGeneration = 1
  MaxCalls = 3
  MaxInits = 2
INVARIANTS
  AutoFreshEstimate
