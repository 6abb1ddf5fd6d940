SPECIFICATION Spec
CONSTANTS
  g1 = g1
  g2 = g2
  cell1 = cell1
  pdsch = pdsch
  pdcch = pdcch
  Grids = {g1, g2}
  Cells = {cell1}
  Residual <- MCResidual
  Requests <- MCRequests
  Batches <- MCBatches
  Configs <- MCConfigs
  AlphaUnit = 4
  Families = {"fixed"}
  Owners = {TRUE, FALSE}
  Faults = {"run"}
  MaxSlots = 2
  MaxCalls = 3
  MaxInits = 1
INVARIANTS
  UsesThePreparedNoise
