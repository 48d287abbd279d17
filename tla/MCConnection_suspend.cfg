SPECIFICATION Spec
CONSTANTS
  MaxGeneration = 3
  MaxRehome = 1
CHECK_DEADLOCK FALSE
PROPERTIES
  SuspendStops
