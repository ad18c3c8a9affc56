CONSTANTS
  watcher = watcher
  http = http
  handler = handler
  graceful = graceful
  fast = fast
  Service <- MCService
  Task <- MCTask
  Caller <- MCCaller
SPECIFICATION FairSpec
INVARIANTS
  TypeOK
  WaitGroupExact
  DoneMeansDrained
PROPERTIES
  ImplementsLifecycle
  ImplementsEventuallyDown
  GracefulShutdownEnds
CHECK_DEADLOCK FALSE
