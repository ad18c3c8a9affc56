CONSTANTS
  r1 = r1
  r2 = r2
  c1 = c1
  c2 = c2
  h1 = h1
  h2 = h2
  h3 = h3
  t1 = t1
  t2 = t2
  t3 = t3
  Nobody = Nobody
  Request <- OneRequest
  Channel <- TwoChannels
  Handler <- ThreeHandlers
  Stamp <- TwoStamps
  MaxPending = 1
  MaxFaults = 1
SPECIFICATION FairSpec
PROPERTIES
  EventuallyShown
CHECK_DEADLOCK FALSE
