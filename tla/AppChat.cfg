CONSTANTS
  main = main
  watcher = watcher
  http = http
  handler = handler
  loop = loop
  graceful = graceful
  Service <- ChatServices
  Task <- MCTask
  Handler <- MCHandler
  Caller <- MCCaller
SPECIFICATION AppSpec
INVARIANTS
  RunReturnsLast
PROPERTIES
  SignalStops
CHECK_DEADLOCK FALSE
