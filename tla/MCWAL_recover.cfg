CONSTANTS
  r1 = r1
  r2 = r2
  r3 = r3
  Runs = {r1, r2, r3}
  MaxPowerLosses = 2
SPECIFICATION Spec
SYMMETRY Symmetry
PROPERTIES
  RecoverRestores
