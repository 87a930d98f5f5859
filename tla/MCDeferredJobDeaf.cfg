\* The connection may be lost once: a registered channel stays deaf.
SPECIFICATION Spec
CONSTANTS
  c1 = c1
  c2 = c2
  j1 = j1
  j2 = j2
  j3 = j3
  Channels <- MCPairChannels
  Jobs <- MCPair
  Owners <- MCPair
  ChannelOf <- MCPairChannelOf
  MaxDrops = 1
  MaxWire = 1
INVARIANTS
  RegisteredWasAsked
