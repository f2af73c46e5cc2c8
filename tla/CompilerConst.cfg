SPECIFICATION CompilerSpec
CONSTANTS
  SM = 52
  Programs <- ByConstant
  Inputs <- AllInputs
  FlowPrograms = {}
  Threads = {1, 2, 3}
  MaxChanges = 0
  ImageSlots = {}
  MaxWrites = 0
INVARIANTS
  EveryProgramCompiles
CHECK_DEADLOCK FALSE
