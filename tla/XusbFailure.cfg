SPECIFICATION Spec
CONSTANTS
  MaxChanges = 0
  MaxErrors = 1
  Latched = TRUE
PROPERTIES
  FailureWithdraws
CHECK_DEADLOCK FALSE
