SPECIFICATION Spec
CONSTANTS
  Configs <- OneFloor
  AlphaUnit = 4
  Residuals <- MCResiduals
  MaxInits = 2
INVARIANTS
  OwnersAgree
