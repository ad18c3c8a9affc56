CONSTANTS
  main = main
  watcher = watcher
  http = http
  handler = handler
  loop = loop
  graceful = graceful
  Service <- ChatServices
  Task <- MCTask
  Handler <- MCHandler
  Caller <- MCCaller
SPECIFICATION AppSpec
PROPERTIES
  SigTermStops
CHECK_DEADLOCK FALSE
