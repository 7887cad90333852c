\* A database of an older version or none, a reorganization and one fault.
CONSTANTS
  g = g  a1 = a1  a2 = a2  b1 = b1  b2 = b2
  ann = ann  bob = bob  carl = carl  dan = dan  eve = eve
  Chains <- TwoChains
  BlockTxs <- TxsInBlock
  Inputs <- Spends
  Outputs <- Pays
  Sender <- Signer
  Estimate <- Fees
  Reward = Reward
  Several = Several
  Queried = {bob}
  OldHeight = 1
  MaxReorgs = 1
  MaxFaults = 1
SPECIFICATION FairSpec
INVARIANTS TypeOK UtxoExact CountersExact RecordsFresh
PROPERTIES CatchesUp
