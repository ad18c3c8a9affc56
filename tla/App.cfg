CONSTANTS
  main = main
  watcher = watcher
  http = http
  handler = handler
  loop = loop
  graceful = graceful
  Service <- WebhookServices
  Task <- TaskNoHandler
  Handler <- NoHandler
  Caller <- MCCaller
SPECIFICATION AppSpec
INVARIANTS
  AppTypeOK
  ReadyIsTruthful
  ServiceErrorReported
PROPERTIES
  UsesProcess
  ServiceFailureStops
CHECK_DEADLOCK FALSE
