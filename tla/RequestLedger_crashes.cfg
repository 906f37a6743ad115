CONSTANTS
  p1 = p1
  p2 = p2
  w1 = w1
  w2 = w2
  w3 = w3
  r1 = r1
  r2 = r2
  r3 = r3
  Process = {p1, p2}
  Writer = {w1, w2, w3}
  Request = {r1, r2, r3}
  ProcessOf <- MCProcessOf
  OwnerOf <- MCOwnerOf
  NoWriter = NoWriter
  MaxEvents = 4
  MaxFaults = 2
SPECIFICATION FairSpec
INVARIANTS
  TypeOK
  AcknowledgedEventsAreDurable
  LinesDoNotInterleave
  OnlyTornLedgersAreRejected
  AuditMissesNothing
PROPERTIES
  CallsReturn
CHECK_DEADLOCK FALSE
