SPECIFICATION Spec
CONSTANTS
  Setups <- ApartRestarting
PROPERTY RestartRefetches
CHECK_DEADLOCK FALSE
