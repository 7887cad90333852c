\* A full pool: two tasks, expiry, eviction, blocks and forks.
CONSTANTS
  t1 = t1  t2 = t2  t3 = t3
  Tx = {t1, t2, t3}
  Worker = {w1, w2}
  Entry <- Entries
  Coin <- Coins
  Funded <- Start
  Inputs <- Spends
  Outputs <- Creates
  Value <- Values
  MinFee <- Fees
  Size <- Sizes
  Rate <- Rates
  Stamp <- Stamps
  MaxSize = 1
  MaxBytes = 3
  EstimatedSize = 1
  Expiry = 3
  SeenTtl = 2
  MaxTime = 2
SPECIFICATION Spec
SYMMETRY Tasks
INVARIANTS TypeOK NoConflicts
PROPERTIES P2pBoundsPool EvictsWorst RelayedOnce
