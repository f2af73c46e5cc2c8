SPECIFICATION CompilerSpec
CONSTANTS
  SM = 52
  Programs <- AllPrograms
  Inputs <- AllInputs
  FlowPrograms <- Flows
  Threads = {1, 2, 3}
  MaxChanges = 2
  ImageSlots = {1, 2}
  MaxWrites = 2
INVARIANTS
  ComputesTgsi Compiles NoHazard ProgramsVerified VerifierSeesOperands
  WarpMatchesThreads PixelsKept
PROPERTIES
  Decodable
CHECK_DEADLOCK FALSE
