SPECIFICATION PortSpec
PROPERTIES
  PortServed
CHECK_DEADLOCK FALSE
