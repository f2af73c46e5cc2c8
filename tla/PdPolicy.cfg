SPECIFICATION Spec
SYMMETRY SideSymmetry
CONSTANTS
  Sides = {Cc1, Cc2}
  MaxCables = 2
  MaxNoise = 1
  MaxErrors = 1
INVARIANTS
  CableChangeNeverLost
  NoStaleDone
  VerifiedContract
PROPERTIES
  OneAttemptPerCable
