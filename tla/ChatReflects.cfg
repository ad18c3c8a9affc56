CONSTANTS
  r1 = r1
  r2 = r2
  c1 = c1
  c2 = c2
  h1 = h1
  h2 = h2
  h3 = h3
  t1 = t1
  t2 = t2
  t3 = t3
  Nobody = Nobody
  Request <- OneRequest
  Channel <- OneChannel
  Handler <- TwoHandlers
  Stamp <- TwoStamps
  MaxPending = 1
  MaxFaults = 0
SPECIFICATION Spec
INVARIANTS
  MessagesReflectAction
CHECK_DEADLOCK FALSE
