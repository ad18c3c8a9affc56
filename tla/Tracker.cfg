CONSTANTS
  r1 = r1
  t1 = t1
  t2 = t2
  j1 = j1
  j2 = j2
  Nobody = Nobody
  NoTicket = NoTicket
  Request <- OneRequest
  Ticket <- TwoTickets
  Job <- TwoJobs
  Plugins <- AllPlugins
  MaxPending = 2
  MaxDecisions = 2
  MaxFaults = 1
SPECIFICATION FairSpec
INVARIANTS
  TypeOK
  TicketIsOwn
  OneTicketPerEvent
  CarriedOutOrExcused
PROPERTIES
  DecidesPendingOnly
  ImplementsDesk
  EventuallyDecided
CHECK_DEADLOCK FALSE
