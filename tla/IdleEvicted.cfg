CONSTANTS
  File = {f, g}
  MaxConns = 2
  IdleTimeout = 2
SPECIFICATION SweepSpec
PROPERTY IdleEvicted
CHECK_DEADLOCK FALSE
