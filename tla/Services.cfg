CONSTANTS
  q1 = q1
  Connection <- MCConnection
  MaxEvents = 2
  MaxFaults = 1
SPECIFICATION FairSpec
INVARIANTS
  TypeOK
  SpawnedInOrder
  NothingMissed
  StuckOnlyIfGivenUp
PROPERTIES
  ListensAgain
  ServicesStop
CHECK_DEADLOCK FALSE
