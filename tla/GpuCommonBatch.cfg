SPECIFICATION Spec
CONSTANTS
  g1 = g1
  g2 = g2
  cell1 = cell1
  pdsch = pdsch
  pdcch = pdcch
  Grids = {g1, g2}
  Cells = {cell1}
  Residual <- MCResidual
  Requests <- MCRequests
  Batches <- MCBatches
  Configs <- MCConfigs
  AlphaUnit = 4
  Families = {"common"}
  Owners = {TRUE, FALSE}
  Faults = {"check"}
  MaxSlots = 2
  MaxCalls = 2
  MaxInits = 1
PROPERTIES
  SlotReusedWhenDrained
