\* One honest peer p1 and one other peer p2.
CONSTANTS
  p1 = p1  p2 = p2
  Peer = {p1, p2}
  Honest = {p1}
  NoPeer = NoPeer
  StartHeight <- Lengths
  MaxHeight = 4
  MaxJoins = 2
  Claims = {4}
  Batch = 3
  LocatorDepth = 3
  StallAfter = 2
  BanFor = 2
  Cooldown = 2
  Refresh = 2
SPECIFICATION FairSpec
PROPERTIES BansOnlyIdle CatchesUp SyncEnds
