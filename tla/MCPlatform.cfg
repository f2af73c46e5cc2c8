SPECIFICATION PlatformSpec
CONSTANTS
  Pins = {"typec", "touch", "spare"}
  Subscribed = {"typec", "touch"}
  MaxEvents = 1
  MaxErrors = 4
  Transactions <- Conversations
  MaxCalls = 3
  Top = 4
  Floor = 2
  MaxContracts = 1
  MaxPort = 2
  MaxFaults = 1
  Depth = 2
  MaxMishaps = 2
INVARIANTS
  ArmedInSleep ThermalSafe BusSafe RailSafe
PROPERTIES
  ChargeOrder PlatformServed
CHECK_DEADLOCK FALSE
