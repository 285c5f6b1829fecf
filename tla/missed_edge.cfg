SPECIFICATION Spec
CONSTANTS
  Timeout = 1
  Stall = 2
  Holds = {0, 2}
  Twists = {}
  LockTimes = {1}
PROPERTIES
  IdleRobotStops
