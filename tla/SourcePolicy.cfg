SPECIFICATION Spec
SYMMETRY SideSymmetry
CONSTANTS
  Sides = {Cc1, Cc2}
  MaxCables = 2
  MaxNoise = 2
  MaxErrors = 1
  Settle = 2
INVARIANTS
  ModeRestored
  BoostJustified
CHECK_DEADLOCK FALSE
