\* Two branches, one of them mined here, and a pool of two orphans.
CONSTANTS
  g = g  a1 = a1  a2 = a2  a3 = a3  b1 = b1  b2 = b2  b3 = b3
  NoBlock = NoBlock
  Genesis = g
  Block = {g, a1, b1, b2}
  Mined = {a1}
  Prev <- TreePrev
  Index <- TreeIndex
  Anc <- TreeAnc
  MaxReorgDepth = 2
  MaxOrphans = 2
  MaxGap = 2
  MaxRounds = 2
  MaxMemory = 1
  RecentTtl = 1
  OrphanTimeout = 1
  OneHour = 1
  MaxQueue = 1
  MaxTime = 2
SPECIFICATION FairSpec
INVARIANTS TypeOK PoolBounded
PROPERTIES NothingLeftToConnect BackwardSearch
