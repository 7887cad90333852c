\* Up to two blocks with payouts in them, or two connections that race for one.
CONSTANTS
  ann = ann  bob = bob  c1 = c1  c2 = c2
  Miner = {ann, bob}
  Conn = {c1, c2}
  MinerOf <- Owner
  Before <- RankedBefore
  TxFee = 1
  Earlier <- OneCoin
  Starts <- ThreeStarts
  Reward = 6
  Fee = 1
  WindowSize = 2
  Threshold = 5
  MaxJobs = 2
  MaxHeight = 2
  MaxFaults = 2
SPECIFICATION FairSpec
INVARIANTS TypeOK CreditsBacked
PROPERTIES OnlyDustKept EligibleQueued
