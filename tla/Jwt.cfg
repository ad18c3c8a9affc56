CONSTANTS
  k1 = k1
  k2 = k2
  k3 = k3
  q1 = q1
  q2 = q2
  NoKey = NoKey
  FirstKey = k1
  Key <- MCKey
  Request <- MCRequest
  Env <- MCEnv
SPECIFICATION FairSpec
INVARIANTS
  TypeOK
  NoLostWaiter
  GoodTokensPass
  CertificateChecked
PROPERTIES
  RetiredStaysRetired
  EveryRequestAnswered
  RotationHeals
CHECK_DEADLOCK FALSE
