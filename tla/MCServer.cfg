\* Boot, overlapping restarts and SIGTERM, with and without a management API.
SPECIFICATION FairSpec
CONSTANTS
  inboundCreds = inboundCreds
  outboundCreds = outboundCreds
  Parts <- Creds
  Outgoing <- OfRequests
  MaxPushes = 2
  MaxDrops = 1
INVARIANTS
  IInv
  OnePairInForce
  InForce
  ExitsInOrder
  ClientsClosed
PROPERTIES
  ProcessSettles
\* The process ends.
CHECK_DEADLOCK FALSE
