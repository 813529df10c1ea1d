\* Two devices, one of which reconnects; every second connection may drain.
SPECIFICATION FairSpec
CONSTANTS
  h1 = h1
  h2 = h2
  h3 = h3
  i1 = i1
  i2 = i2
  Handles = {h1, h2, h3}
  Ids = {i1, i2}
  IdOf <- Reconnects
  NoHandle = NoHandle
  NoEntry = NoEntry
  MaxPending = 1
  MaxFrames = 2
  RatioDen = 2
  Capacity = 3
INVARIANTS ConnectionsAgree LogIsFaithful
PROPERTIES NoStampede EveryDrainEnds
CHECK_DEADLOCK FALSE
