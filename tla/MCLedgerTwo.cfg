\* Two branches that share no transaction.
CONSTANTS
  g = g  a1 = a1  a2 = a2  a3 = a3  a4 = a4
  b1 = b1  b2 = b2  b3 = b3  b4 = b4
  c2 = c2  c3 = c3  c4 = c4  d3 = d3  d4 = d4
  NoBlock = NoBlock
  Genesis = g
  Block = {g, a1, c2, c3, c4, b1, b2, b3, b4}
  Prev <- TreePrev
  Index <- TreeIndex
  Bits <- TreeBits
  KeyRank <- TreeKeyRank
  HeaderOK <- TreeHeaderOK
  Txs <- OwnTxs
  Anc <- TreeAnc
  Value <- TreeValue
  Reward <- TreeReward
  BaseMinFee = 0
  FeePerByte = 1
  PowLimitBits = 1
  RetargetWindow = 2
  Retarget <- TreeRetarget
  MaxReorgDepth = 2
  LatestCheckpoint = 0
  StaleMinBlocks = 100
SPECIFICATION FairSpec
CHECK_DEADLOCK FALSE
INVARIANTS UtxoExact BestChainWins ChainReversible
PROPERTIES ReorgTerminates
