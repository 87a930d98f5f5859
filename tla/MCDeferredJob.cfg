\* Three concurrent jobs with timers that fire; the connection may be lost once.
SPECIFICATION FairSpec
CONSTANTS
  c1 = c1
  c2 = c2
  j1 = j1
  j2 = j2
  j3 = j3
  Channels <- MCChannels
  Jobs <- MCJobs
  Owners <- MCJobs
  ChannelOf <- MCChannelOf
  MaxDrops = 1
  MaxWire = 1
INVARIANTS
  IInv
  RegisteredWhileWaiting
  RegisteredIsHeard
PROPERTIES
  KeepsPromise
  EverySettles
