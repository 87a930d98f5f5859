\* Requests for providers and accounts on one subscriber, a lost connection and
\* restarts of both sides.
SPECIFICATION FairSpec
CONSTANTS
  p1 = p1
  a1 = a1
  a2 = a2
  u1 = u1
  f1 = f1
  f2 = f2
  services = services
  ProviderRequests <- Providers
  AccountRequests <- Accounts
  Owners <- AllRequests
  Channels <- AllChannels
  ServiceChannel = services
  UserOf <- Users
  FspOf <- Dfsps
  MaxDrops = 1
  MaxWire = 1
INVARIANTS
  IInv
  AccountsOfTheUser
  RegisteredAreWaiting
PROPERTIES
  AnswerStays
  ProvidersAnswered
\* Requests are one-shot.
CHECK_DEADLOCK FALSE
