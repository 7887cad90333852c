\* Every arrival order of the whole tree, reorganizations up to two deep.
CONSTANTS
  g = g  a1 = a1  a2 = a2  a3 = a3  a4 = a4
  b1 = b1  b2 = b2  b3 = b3  b4 = b4
  c2 = c2  c3 = c3  c4 = c4  d3 = d3  d4 = d4
  NoBlock = NoBlock
  Genesis = g
  Block = {g, a1, a2, a3, a4, b1, b2, b3, b4, c2, c3, c4, d3, d4}
  Prev <- TreePrev
  Index <- TreeIndex
  Bits <- TreeBits
  KeyRank <- TreeKeyRank
  HeaderOK <- TreeHeaderOK
  Txs <- TreeTxs
  Anc <- TreeAnc
  Value <- TreeValue
  Reward <- TreeReward
  BaseMinFee = 0
  FeePerByte = 1
  PowLimitBits = 1
  RetargetWindow = 2
  Retarget <- TreeRetarget
  MaxReorgDepth = 2
  LatestCheckpoint = 0
  StaleMinBlocks = 100
SPECIFICATION Spec
CHECK_DEADLOCK FALSE
INVARIANTS TypeOK TipChainStored UtxoMatchesTip IndexIsChain SoundChildAccepted
INVARIANTS SupplyBounded
PROPERTIES ReorgDepthBounded ImplementsAbstract
