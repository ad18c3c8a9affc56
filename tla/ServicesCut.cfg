CONSTANTS
  q1 = q1
  Connection <- MCConnection
  MaxEvents = 2
  MaxFaults = 1
SPECIFICATION FairSpec
PROPERTIES
  ShutdownIsGraceful
CHECK_DEADLOCK FALSE
