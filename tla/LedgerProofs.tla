---------------------------- MODULE LedgerProofs ----------------------------
(***************************************************************************)
(* Safety of Ledger for every tree of sound blocks, every order            *)
(* of arrival and every depth of reorganization; and, at the end, what a   *)
(* crash between any two batches cannot take from the chain database.      *)
(***************************************************************************)
EXTENDS Ledger, SumLemmas, TLAPS

-----------------------------------------------------------------------------
(* The block tree *)

\* A block is its own ancestor, and only blocks are ancestors.
LEMMA AncSelf ==
  ASSUME NEW b \in Block
  PROVE  b \in Anc[b] /\ Anc[b] \subseteq Block
BY ConstantsTyped, Ancestry

\* One step along previous_hash adds exactly the block itself.
LEMMA AncStep ==
  ASSUME NEW b \in Block, Prev[b] # NoBlock
  PROVE  /\ Prev[b] \in Block
         /\ Anc[b] = {b} \cup Anc[Prev[b]]
         /\ b \notin Anc[Prev[b]]
         /\ Anc[b] \ {b} = Anc[Prev[b]]
<1>1. Prev[b] \in Block
  BY ConstantsTyped DEF MaybeBlock
<1>2. Anc[b] = {b} \cup Anc[Prev[b]] /\ b \notin Anc[Prev[b]]
  BY Ancestry
<1> QED BY <1>1, <1>2

\* Genesis has no ancestor but itself.
LEMMA AncGenesis == Anc[Genesis] = {Genesis}
BY ConstantsTyped, Ancestry

-----------------------------------------------------------------------------
(* What insert, rollback and replay of a sound block do to the UTXO set *)

\* In a sound block an input is taken from block_utxos exactly if the block
\* creates it.
LEMMA PendingSound ==
  ASSUME NEW b \in Block, SoundBody(b),
         NEW i \in DOMAIN Txs[b], NEW o \in Txs[b][i].ins
  PROVE  Pending(b, i, o) <=> o \in Outs(b)
<1>1. DOMAIN Txs[b] = 1..Len(Txs[b]) /\ Len(Txs[b]) \in Nat
  BY ConstantsTyped
<1>2. ASSUME Pending(b, i, o) PROVE o \in Outs(b)
  BY <1>1, <1>2 DEF Pending, Outs
<1>3. ASSUME o \in Outs(b) PROVE Pending(b, i, o)
  <2>1. PICK j \in DOMAIN Txs[b] : o \in Txs[b][j].outs
    BY <1>3 DEF Outs
  <2>2. ~ (i <= j)
    BY <2>1 DEF SoundBody
  <2>3. j \in 1..(i - 1)
    BY <1>1, <2>2
  <2>4. \A k \in (j + 1)..(i - 1) : o \notin Txs[b][k].ins
    BY <1>1, <1>3, <2>3 DEF SoundBody
  <2> QED BY <2>1, <2>3, <2>4 DEF Pending
<1> QED BY <1>2, <1>3

\* Insertion keeps what is not spent and adds every output, the ones spent
\* inside the block included.
LEMMA InsertSound ==
  ASSUME NEW b \in Block, SoundBody(b), NEW u
  PROVE  InsertUtxo(b, u) = (u \ (Ins(b) \ Outs(b))) \cup Outs(b)
<1>1. DOMAIN Txs[b] = 1..Len(Txs[b]) /\ Len(Txs[b]) \in Nat
  BY ConstantsTyped
<1>2. ASSUME NEW o
      PROVE  (\E i \in 2..Len(Txs[b]) :
                /\ o \in Txs[b][i].ins
                /\ ~ Pending(b, i, o)
                /\ \A j \in i..Len(Txs[b]) : o \notin Txs[b][j].outs)
             <=> o \in Ins(b) \ Outs(b)
  <2>1. ASSUME NEW i \in 2..Len(Txs[b]), o \in Txs[b][i].ins, ~ Pending(b, i, o)
        PROVE  o \in Ins(b) \ Outs(b)
    BY <1>1, <2>1, PendingSound DEF Ins
  <2>2. ASSUME o \in Ins(b) \ Outs(b)
        PROVE  \E i \in 2..Len(Txs[b]) :
                 /\ o \in Txs[b][i].ins
                 /\ ~ Pending(b, i, o)
                 /\ \A j \in i..Len(Txs[b]) : o \notin Txs[b][j].outs
    <3>1. PICK i \in DOMAIN Txs[b] : o \in Txs[b][i].ins
      BY <2>2 DEF Ins
    <3>2. i \in 2..Len(Txs[b])
      BY <1>1, <3>1 DEF SoundBody
    <3>3. ~ Pending(b, i, o)
      BY <2>2, <3>1, PendingSound
    <3>4. \A j \in i..Len(Txs[b]) : o \notin Txs[b][j].outs
      BY <1>1, <2>2, <3>2 DEF Outs
    <3> QED BY <3>1, <3>2, <3>3, <3>4
  <2> QED BY <2>1, <2>2
<1> QED BY <1>2 DEF InsertUtxo

\* Rollback removes every output of the block and brings back what it took from
\* the chain before it.
LEMMA RollbackSound ==
  ASSUME NEW b \in Block, SoundBody(b), NEW u
  PROVE  RollbackUtxo(b, u) = (u \ Outs(b)) \cup (Ins(b) \ Outs(b))
<1>1. DOMAIN Txs[b] = 1..Len(Txs[b]) /\ Len(Txs[b]) \in Nat
  BY ConstantsTyped
<1>2. Restored(b) = Ins(b) \ Outs(b)
  <2>1. ASSUME NEW o \in Restored(b) PROVE o \in Ins(b) \ Outs(b)
    <3>1. PICK i \in DOMAIN Txs[b] :
            o \in Txs[b][i].ins /\ \A j \in 1..(i - 1) : o \notin Txs[b][j].outs
      BY DEF Restored
    <3>2. \A j \in DOMAIN Txs[b] : i <= j => o \notin Txs[b][j].outs
      BY <3>1 DEF SoundBody
    <3>3. \A j \in DOMAIN Txs[b] : o \notin Txs[b][j].outs
      BY <1>1, <3>1, <3>2
    <3> QED BY <3>3 DEF Restored, Outs
  <2>2. ASSUME NEW o \in Ins(b) \ Outs(b) PROVE o \in Restored(b)
    <3>1. PICK i \in DOMAIN Txs[b] : o \in Txs[b][i].ins
      BY DEF Ins
    <3>2. \A j \in 1..(i - 1) : o \notin Txs[b][j].outs
      BY <1>1 DEF Outs
    <3> QED BY <3>1, <3>2 DEF Restored
  <2> QED BY <2>1, <2>2
<1>3. Ins(b) \ Outs(b) \subseteq Creatable
  <2>1. Anc[b] \ {b} \subseteq Block
    BY AncSelf
  <2> QED BY <2>1 DEF SoundBody, Creatable
<1> QED BY <1>2, <1>3 DEF RollbackUtxo

\* Replay adds the outputs and removes the inputs, those of the block included.
LEMMA ReplaySound ==
  ASSUME NEW b \in Block, SoundBody(b), NEW u
  PROVE  ReplayUtxo(b, u) = (u \cup Outs(b)) \ Ins(b)
<1>1. DOMAIN Txs[b] = 1..Len(Txs[b]) /\ Len(Txs[b]) \in Nat
  BY ConstantsTyped
<1>2. ASSUME NEW o
      PROVE  (\E i \in DOMAIN Txs[b] :
                /\ o \in Txs[b][i].ins
                /\ \A j \in (i + 1)..Len(Txs[b]) : o \notin Txs[b][j].outs)
             <=> o \in Ins(b)
  <2>1. ASSUME NEW i \in DOMAIN Txs[b], o \in Txs[b][i].ins
        PROVE  \A j \in (i + 1)..Len(Txs[b]) : o \notin Txs[b][j].outs
    <3>1. \A j \in DOMAIN Txs[b] : i <= j => o \notin Txs[b][j].outs
      BY <2>1 DEF SoundBody
    <3> QED BY <1>1, <3>1
  <2> QED BY <2>1 DEF Ins
<1> QED BY <1>2 DEF ReplayUtxo

-----------------------------------------------------------------------------
(* The UTXO set of a chain *)

\* u holds the coins of the chain of b, and of its spent outputs only such as
\* were created and spent in one block.
Matches(b, u) ==
  UnspentOn(b) \subseteq u /\ u \subseteq UnspentOn(b) \cup ChainedOn(b)

\* The coins of a chain follow from those of the parent's chain.
LEMMA UnspentStep ==
  ASSUME NEW b \in Block, SoundTree, HeaderOK[b], Prev[b] # NoBlock
  PROVE  /\ UnspentOn(b) = (UnspentOn(Prev[b]) \cup Outs(b)) \ Ins(b)
         /\ ChainedOn(b) = ChainedOn(Prev[b]) \cup (Ins(b) \cap Outs(b))
         /\ Ins(b) \ Outs(b) \subseteq UnspentOn(Prev[b])
         /\ Outs(b) \cap (UnspentOn(Prev[b]) \cup ChainedOn(Prev[b])) = {}
<1> DEFINE p == Prev[b]
           Created == UNION {Outs(c) : c \in Anc[p]}
           Spent == UNION {Ins(c) : c \in Anc[p]}
<1>1. Anc[b] = {b} \cup Anc[p] /\ Anc[b] \ {b} = Anc[p]
  BY AncStep
<1>2. SoundBody(b)
  BY DEF SoundTree
<1>3. Ins(b) \ Outs(b) \subseteq Created \ Spent /\ Outs(b) \cap (Created \cup Spent) = {}
  BY <1>1, <1>2 DEF SoundBody
<1>4. UnspentOn(p) = Created \ Spent
  BY DEF UnspentOn
<1>5. UnspentOn(b) = (Created \cup Outs(b)) \ (Spent \cup Ins(b))
  <2>1. UNION {Outs(c) : c \in {b} \cup Anc[p]} = Created \cup Outs(b)
    OBVIOUS
  <2>2. UNION {Ins(c) : c \in {b} \cup Anc[p]} = Spent \cup Ins(b)
    OBVIOUS
  <2> QED BY <1>1, <2>1, <2>2 DEF UnspentOn
<1>6. ChainedOn(b) = ChainedOn(p) \cup (Ins(b) \cap Outs(b))
  BY <1>1 DEF ChainedOn
<1>7. ChainedOn(p) \subseteq Created
  BY DEF ChainedOn
<1> HIDE DEF p, Created, Spent
<1>8. UnspentOn(b) = (UnspentOn(p) \cup Outs(b)) \ Ins(b)
  BY <1>3, <1>4, <1>5
<1>9. Outs(b) \cap (UnspentOn(p) \cup ChainedOn(p)) = {}
  BY <1>3, <1>4, <1>7
<1> QED BY <1>3, <1>4, <1>6, <1>8, <1>9 DEF p

\* Inserting, rolling back and replaying a block each carry a UTXO set of one
\* chain to one of the other.
LEMMA MatchesStep ==
  ASSUME NEW b \in Block, SoundTree, HeaderOK[b], Prev[b] # NoBlock, NEW u
  PROVE  /\ Matches(Prev[b], u) => Matches(b, InsertUtxo(b, u))
         /\ Matches(Prev[b], u) => Matches(b, ReplayUtxo(b, u))
         /\ Matches(b, u) => Matches(Prev[b], RollbackUtxo(b, u))
<1> DEFINE p == Prev[b]
<1>1. SoundBody(b)
  BY DEF SoundTree
<1>2. /\ InsertUtxo(b, u) = (u \ (Ins(b) \ Outs(b))) \cup Outs(b)
      /\ ReplayUtxo(b, u) = (u \cup Outs(b)) \ Ins(b)
      /\ RollbackUtxo(b, u) = (u \ Outs(b)) \cup (Ins(b) \ Outs(b))
  BY <1>1, InsertSound, ReplaySound, RollbackSound
<1>3. /\ UnspentOn(b) = (UnspentOn(p) \cup Outs(b)) \ Ins(b)
      /\ ChainedOn(b) = ChainedOn(p) \cup (Ins(b) \cap Outs(b))
      /\ Ins(b) \ Outs(b) \subseteq UnspentOn(p)
      /\ Outs(b) \cap (UnspentOn(p) \cup ChainedOn(p)) = {}
  BY UnspentStep
<1> HIDE DEF p
<1>5. Matches(p, u) => Matches(b, InsertUtxo(b, u))
  BY <1>2, <1>3 DEF Matches
<1>6. Matches(p, u) => Matches(b, ReplayUtxo(b, u))
  BY <1>2, <1>3 DEF Matches
<1>7. Matches(b, u) => Matches(p, RollbackUtxo(b, u))
  BY <1>2, <1>3 DEF Matches
<1> QED BY <1>5, <1>6, <1>7 DEF p

\* The genesis block on an empty database.
LEMMA MatchesGenesis ==
  ASSUME SoundTree, HeaderOK[Genesis]
  PROVE  Matches(Genesis, InsertUtxo(Genesis, {}))
<1>1. Genesis \in Block /\ Anc[Genesis] = {Genesis}
  BY AncGenesis, ConstantsTyped
<1>2. SoundBody(Genesis)
  BY <1>1 DEF SoundTree
<1>3. InsertUtxo(Genesis, {}) = Outs(Genesis)
  BY <1>1, <1>2, InsertSound
<1>4. /\ {Outs(c) : c \in {Genesis}} = {Outs(Genesis)}
      /\ {Ins(c) : c \in {Genesis}} = {Ins(Genesis)}
      /\ {Ins(c) \cap Outs(c) : c \in {Genesis}} = {Ins(Genesis) \cap Outs(Genesis)}
  BY Zenon
<1>5. /\ UnspentOn(Genesis) = Outs(Genesis) \ Ins(Genesis)
      /\ ChainedOn(Genesis) = Ins(Genesis) \cap Outs(Genesis)
  BY <1>1, <1>4 DEF UnspentOn, ChainedOn
<1> QED BY <1>3, <1>5 DEF Matches

-----------------------------------------------------------------------------
(* The inductive invariant *)

\* i: lists exactly the chain of b.
IndexOf(b, idx) == \A c \in Block : idx[Index[c]] = c <=> c \in Anc[b]

\* Before genesis arrives the database is empty.
EmptyInv ==
  /\ Idle
  /\ blocks = {} /\ utxo = {} /\ recheck = NoBlock
  /\ \A b \in Block : index[Index[b]] = NoBlock

\* Outside the replay the database is that of chain_tip.
TipInv ==
  /\ Anc[chain_tip] \subseteq blocks
  /\ Matches(chain_tip, utxo)
  /\ IndexOf(chain_tip, index)

\* A reorganization under way leads to a stored, longer chain which parts from
\* the tip's chain at base, and not too deep.
GoalInv ==
  /\ goal \in Block /\ Anc[goal] \subseteq blocks
  /\ Index[chain_tip] < Index[goal]
  /\ base \in Anc[chain_tip] \cap Anc[goal]
  /\ DepthOK(chain_tip, base)

\* The rollback batch has reached at, on the way from chain_tip down to base.
RollbackInv ==
  /\ Anc[goal] \cap Anc[chain_tip] \subseteq Anc[base]
  /\ at \in Anc[chain_tip] /\ base \in Anc[at]
  /\ Matches(at, staged)

\* The replay has reached at, on the way from base up to goal.
ReplayInv ==
  /\ at \in Anc[goal]
  /\ Matches(at, utxo)
  /\ IndexOf(at, index)

IInv ==
  /\ TypeOK
  /\ phase # "down"
  /\ tip = chain_tip
  /\ \A b \in blocks : HeaderOK[b]
  /\ chain_tip = NoBlock => EmptyInv
  /\ chain_tip # NoBlock => Genesis \in Anc[chain_tip]
  /\ chain_tip # NoBlock /\ phase # "replay" => TipInv
  /\ phase \in {"rollback", "replay"} => GoalInv
  /\ phase = "rollback" => RollbackInv
  /\ phase = "replay" => ReplayInv

-----------------------------------------------------------------------------
(* Every step preserves it *)

\* What a block contributes has the type of the key spaces.
LEMMA BlockTyped ==
  ASSUME NEW b \in Block
  PROVE  /\ TxIds(b) \subseteq TxId
         /\ Ins(b) \subseteq Outpoint /\ Outs(b) \subseteq Outpoint
         /\ Index[b] \in Height /\ Index[b] \in Nat
BY ConstantsTyped DEF TxId, Outpoint, Height

\* The new tables stay within the key spaces.
LEMMA UtxoTyped ==
  ASSUME NEW b \in Block, NEW u \in SUBSET Outpoint
  PROVE  /\ InsertUtxo(b, u) \subseteq Outpoint
         /\ ReplayUtxo(b, u) \subseteq Outpoint
         /\ RollbackUtxo(b, u) \subseteq Outpoint
<1>1. Ins(b) \subseteq Outpoint /\ Outs(b) \subseteq Outpoint
  BY BlockTyped
<1>2. Restored(b) \subseteq Ins(b)
  BY DEF Restored
<1> QED BY <1>1, <1>2 DEF InsertUtxo, ReplayUtxo, RollbackUtxo

\* Putting i: of a child of p after the chain of p lists the chain of the child.
LEMMA IndexStep ==
  ASSUME SoundTree, NEW b \in Block, HeaderOK[b], Prev[b] # NoBlock,
         NEW idx \in [Height -> MaybeBlock], IndexOf(Prev[b], idx)
  PROVE  IndexOf(b, [idx EXCEPT ![Index[b]] = b])
<1>1. ASSUME NEW c \in Block
      PROVE  [idx EXCEPT ![Index[b]] = b][Index[c]] = c <=> c \in Anc[b]
  <2>1. Index[c] \in Height /\ Index[b] \in Height
    BY BlockTyped
  <2>2. Anc[b] = {b} \cup Anc[Prev[b]] /\ Anc[b] \ {b} = Anc[Prev[b]]
    BY AncStep
  <2>3. CASE Index[c] # Index[b]
    BY <2>1, <2>2, <2>3 DEF IndexOf
  <2>4. CASE Index[c] = Index[b]
    <3>1. c \in Anc[b] \ {b} => Index[c] < Index[b]
      BY DEF SoundTree
    <3>2. Index[b] \in Nat
      BY BlockTyped
    <3>3. c \in Anc[b] => c = b
      BY <2>4, <3>1, <3>2
    <3>4. b \in Anc[b]
      BY AncSelf
    <3> QED BY <2>1, <2>4, <3>3, <3>4
  <2> QED BY <2>3, <2>4
<1> QED BY <1>1 DEF IndexOf

\* Genesis is below every common ancestor.
LEMMA GenesisBelow ==
  ASSUME NEW b \in Block, Genesis \in Anc[b], NEW a \in Anc[b]
  PROVE  Genesis \in Anc[a]
<1>1. Genesis \in Anc[a] \/ a \in Anc[Genesis]
  BY Ancestry
<1>2. a \in Anc[a]
  BY AncSelf
<1> QED BY <1>1, <1>2, AncGenesis

\* validate_and_insert_block extends the tip's chain by one block.
LEMMA InsertStep ==
  ASSUME IInv, SoundTree, NEW b \in Block, InsertBlock(b), recheck' \in MaybeBlock
  PROVE  IInv'
<1> USE DEF InsertBlock, Idle
<1>1. HeaderOK[b] /\ b \in Anc[b] /\ b # NoBlock
  BY AncSelf, ConstantsTyped DEF HeaderAccepted
<1>2. TypeOK'
  <2>1. utxo' \subseteq Outpoint
    BY UtxoTyped DEF IInv, TypeOK
  <2>2. txs' \subseteq TxId /\ index' \in [Height -> MaybeBlock]
    BY BlockTyped DEF IInv, TypeOK, MaybeBlock
  <2>3. {tip', chain_tip', recheck', goal', base', at'} \subseteq MaybeBlock
    BY DEF IInv, TypeOK, MaybeBlock, reorg
  <2> QED BY <2>1, <2>2, <2>3 DEF IInv, TypeOK, reorg
<1>3. Genesis \in Anc[b] /\ Anc[b] \subseteq blocks' /\ Matches(b, utxo') /\ IndexOf(b, index')
  <2>1. CASE chain_tip = NoBlock
    <3>1. EmptyInv
      BY <2>1 DEF IInv
    <3>2. b = Genesis
      BY <3>1, ConstantsTyped, BlockTyped DEF EmptyInv, HeaderAccepted, CheckpointOK
    <3>3. Anc[b] = {b}
      BY <3>2, AncGenesis
    <3>4. Matches(b, utxo')
      BY <1>1, <3>1, <3>2, MatchesGenesis DEF EmptyInv
    <3>5. IndexOf(b, index')
      <4>1. index \in [Height -> MaybeBlock] /\ \A c \in Block : index[Index[c]] = NoBlock
        BY <3>1 DEF IInv, TypeOK, EmptyInv
      <4> QED BY <3>3, <4>1, BlockTyped, ConstantsTyped DEF IndexOf
    <3> QED BY <3>2, <3>3, <3>4, <3>5
  <2>2. CASE chain_tip # NoBlock
    <3>1. TipInv /\ Genesis \in Anc[chain_tip] /\ chain_tip \in Block
      BY <2>2 DEF IInv, TypeOK, MaybeBlock
    <3>2. chain_tip \in blocks
      BY <3>1, AncSelf DEF TipInv
    <3>3. Prev[b] = chain_tip
      <4>1. Index[b] # 0
        BY <3>1 DEF TipInv, HeaderAccepted, CheckpointOK
      <4> QED BY <2>2, <3>2, <4>1, BlockTyped DEF TipForInsert
    <3>4. Anc[b] = {b} \cup Anc[chain_tip]
      BY <2>2, <3>3, AncStep
    <3>5. Matches(b, utxo')
      BY <1>1, <2>2, <3>1, <3>3, MatchesStep DEF TipInv
    <3>6. IndexOf(b, index')
      BY <1>1, <2>2, <3>1, <3>3, IndexStep DEF TipInv, IInv, TypeOK
    <3> QED BY <3>1, <3>4, <3>5, <3>6 DEF TipInv
  <2> QED BY <2>1, <2>2
<1> QED BY <1>1, <1>2, <1>3 DEF IInv, TipInv, reorg

\* reorganize_if_needed begins a reorganization only towards a longer chain that
\* is stored down to the fork point.
LEMMA BeginStep ==
  ASSUME IInv, Idle, chain_tip # NoBlock, NEW b \in Block,
         NEW B \in SUBSET Block, blocks \subseteq B, ~ StaleTip(B),
         \A c \in B : HeaderOK[c],
         ReorganizeIfNeeded(b, B),
         blocks' = B, txs' \subseteq TxId, recheck' \in MaybeBlock,
         UNCHANGED <<utxo, index, difficulty>>
  PROVE  IInv'
<1>1. TipInv /\ Genesis \in Anc[chain_tip] /\ chain_tip \in Block /\ tip = chain_tip
  BY DEF IInv, TypeOK, MaybeBlock, Idle
<1>2. chain_tip' = chain_tip /\ tip' = tip
  BY <1>1 DEF ReorganizeIfNeeded
<1>3. TipInv'
  BY <1>1, <1>2 DEF TipInv
<1>4. CASE UNCHANGED reorg
  BY <1>1, <1>2, <1>3, <1>4 DEF IInv, TypeOK, Idle, reorg
<1>5. CASE ~ UNCHANGED reorg
  <2>1. PICK a \in B : /\ IsForkPoint(B, chain_tip, b, a)
                       /\ DepthOK(chain_tip, a)
                       /\ base' = a
                       /\ Index[chain_tip] < Index[b]
                       /\ phase' = "rollback" /\ goal' = b
                       /\ at' = chain_tip /\ staged' = utxo
    BY <1>5 DEF ReorganizeIfNeeded, MoreWork
  <2>2. Walk(B, chain_tip) = Anc[chain_tip]
    BY <1>1 DEF Walk, TipInv
  <2>3. a \in Anc[chain_tip] /\ a \in Anc[b] /\ {d \in Anc[b] : a \in Anc[d]} \subseteq B
    BY <2>1, <2>2 DEF IsForkPoint, Walk
  <2>4. Anc[a] \subseteq B
    BY <1>1, <2>3, Ancestry DEF TipInv
  <2>5. Anc[b] \subseteq B
    <3>1. \A d \in Anc[b] : d \in Anc[a] \/ a \in Anc[d]
      BY <2>3, Ancestry
    <3> QED BY <2>3, <2>4, <3>1
  <2>6. Anc[b] \cap Anc[chain_tip] \subseteq Anc[a]
    <3>1. Walk(B, b) = Anc[b]
      BY <2>5 DEF Walk
    <3> QED BY <2>1, <2>2, <3>1 DEF IsForkPoint
  <2>7. GoalInv'
    BY <1>2, <2>1, <2>3, <2>5 DEF GoalInv
  <2>8. RollbackInv'
    BY <1>1, <1>2, <2>1, <2>3, <2>6, AncSelf DEF RollbackInv, TipInv
  <2>9. TypeOK'
    BY <1>1, <1>2, <2>1 DEF IInv, TypeOK, MaybeBlock
  <2> QED BY <1>1, <1>2, <1>3, <2>1, <2>7, <2>8, <2>9 DEF IInv
<1> QED BY <1>4, <1>5
\* rollback_blocks takes the block under the cursor out of the staged UTXO set, or
\* gives up and leaves the database alone.
LEMMA RollbackStep ==
  ASSUME IInv, SoundTree, RollbackBlock
  PROVE  IInv'
<1> USE DEF RollbackBlock, db
<1>1. /\ TypeOK /\ TipInv /\ GoalInv /\ RollbackInv
      /\ chain_tip \in Block /\ tip = chain_tip /\ Genesis \in Anc[chain_tip]
  BY DEF IInv, TypeOK, MaybeBlock, EmptyInv, Idle
<1>2. TipInv'
  BY <1>1 DEF TipInv
<1>3. CASE SpentTxsStored(at)
  <2>1. /\ staged' = RollbackUtxo(at, staged) /\ at' = Prev[at]
        /\ UNCHANGED <<phase, goal, base>>
    BY <1>3
  <2>2. at \in Block /\ at \in Anc[chain_tip] /\ base \in Anc[at] /\ at # base
    BY <1>1, AncSelf DEF RollbackInv
  <2>3. Prev[at] # NoBlock
    BY <2>2, Ancestry
  <2>4. Prev[at] \in Block /\ base \in Anc[Prev[at]]
    BY <2>2, <2>3, AncStep
  <2>5. Prev[at] \in Anc[chain_tip]
    <3>1. Prev[at] \in Anc[at]
      BY <2>2, <2>3, <2>4, AncStep, AncSelf
    <3> QED BY <1>1, <2>2, <3>1, Ancestry
  <2>6. Matches(Prev[at], staged')
    <3>1. HeaderOK[at]
      BY <1>1, <2>2 DEF TipInv, IInv
    <3> QED BY <1>1, <2>1, <2>2, <2>3, <3>1, MatchesStep DEF RollbackInv
  <2>7. TypeOK'
    <3>1. staged' \subseteq Outpoint
      BY <1>1, <2>1, <2>2, UtxoTyped DEF TypeOK
    <3> QED BY <1>1, <2>1, <2>4, <3>1 DEF TypeOK, MaybeBlock
  <2>8. GoalInv'
    BY <1>1, <2>1 DEF GoalInv
  <2>9. RollbackInv'
    BY <1>1, <2>1, <2>4, <2>5, <2>6 DEF RollbackInv
  <2> QED BY <1>1, <1>2, <2>1, <2>7, <2>8, <2>9, ConstantsTyped DEF IInv
<1>4. CASE ~ SpentTxsStored(at)
  <2>1. phase' = "idle" /\ NoReorg
    BY <1>4
  <2>2. TypeOK'
    BY <1>1, <2>1 DEF TypeOK, NoReorg, MaybeBlock
  <2> QED BY <1>1, <1>2, <2>1, <2>2, ConstantsTyped DEF IInv
<1> QED BY <1>3, <1>4

\* The rollback batch leaves the database of base's chain, and deletes no block
\* that the replay needs.
LEMMA CommitStep ==
  ASSUME IInv, SoundTree, CommitRollback
  PROVE  IInv'
<1> USE DEF CommitRollback
<1>1. /\ TypeOK /\ TipInv /\ GoalInv /\ RollbackInv
      /\ chain_tip \in Block /\ tip = chain_tip /\ Genesis \in Anc[chain_tip]
  BY DEF IInv, TypeOK, MaybeBlock, EmptyInv, Idle
<1>2. TypeOK'
  BY <1>1 DEF TypeOK, MaybeBlock
<1>3. Anc[goal] \subseteq blocks'
  BY <1>1 DEF GoalInv, RollbackInv, RolledBack
<1>4. IndexOf(base, index')
  <2>1. ASSUME NEW c \in Block PROVE index'[Index[c]] = c <=> c \in Anc[base]
    <3>1. Index[c] \in Height /\ c # NoBlock
      BY BlockTyped, ConstantsTyped
    <3>2. index[Index[c]] = c <=> c \in Anc[chain_tip]
      BY <1>1 DEF TipInv, IndexOf
    <3>3. Anc[base] \subseteq Anc[chain_tip]
      BY <1>1, Ancestry DEF GoalInv
    <3>4. ASSUME c \in Anc[base], NEW d \in RolledBack, Index[d] = Index[c] PROVE FALSE
      <4>1. d \in Anc[chain_tip] /\ d \notin Anc[base] /\ d \in Block
        BY <1>1, AncSelf DEF RolledBack
      <4>2. index[Index[d]] = d
        BY <1>1, <4>1 DEF TipInv, IndexOf
      <4> QED BY <3>2, <3>3, <3>4, <4>1, <4>2
    <3>5. index'[Index[c]] =
            IF \E d \in RolledBack : Index[d] = Index[c] THEN NoBlock ELSE index[Index[c]]
      BY <3>1
    <3>6. c \in Anc[chain_tip] /\ c \notin Anc[base] => c \in RolledBack
      BY DEF RolledBack
    <3> QED BY <3>1, <3>2, <3>3, <3>4, <3>5, <3>6
  <2> QED BY <2>1 DEF IndexOf
<1>5. GoalInv'
  BY <1>1, <1>3 DEF GoalInv
<1>6. ReplayInv'
  BY <1>1, <1>4 DEF GoalInv, RollbackInv, ReplayInv
<1> QED BY <1>1, <1>2, <1>5, <1>6, ConstantsTyped DEF IInv

\* replay_blocks moves the database up one block.
LEMMA ReplayStep ==
  ASSUME IInv, SoundTree, ReplayBlock
  PROVE  IInv'
<1> USE DEF ReplayBlock
<1>1. /\ TypeOK /\ GoalInv /\ ReplayInv
      /\ chain_tip \in Block /\ tip = chain_tip /\ Genesis \in Anc[chain_tip]
  BY DEF IInv, TypeOK, MaybeBlock, EmptyInv, Idle
<1>2. PICK b \in Anc[goal] : /\ Prev[b] = at /\ at' = b
                             /\ utxo' = ReplayUtxo(b, utxo)
                             /\ index' = [index EXCEPT ![Index[b]] = b]
  OBVIOUS
<1>3. b \in Block /\ HeaderOK[b] /\ Prev[b] # NoBlock
  <2>1. b \in Block /\ at \in Block
    BY <1>1, AncSelf DEF GoalInv, ReplayInv
  <2> QED BY <1>1, <1>2, <2>1, ConstantsTyped DEF GoalInv, IInv
<1>4. Matches(b, utxo')
  BY <1>1, <1>2, <1>3, MatchesStep DEF ReplayInv
<1>5. IndexOf(b, index')
  BY <1>1, <1>2, <1>3, IndexStep DEF ReplayInv, TypeOK
<1>6. TypeOK'
  <2>1. utxo' \subseteq Outpoint
    BY <1>1, <1>2, <1>3, UtxoTyped DEF TypeOK
  <2>2. index' \in [Height -> MaybeBlock]
    BY <1>1, <1>2, <1>3, BlockTyped DEF TypeOK, MaybeBlock
  <2> QED BY <1>1, <1>2, <1>3, <2>1, <2>2 DEF TypeOK, MaybeBlock
<1>7. GoalInv'
  BY <1>1 DEF GoalInv
<1>8. ReplayInv'
  BY <1>2, <1>4, <1>5 DEF ReplayInv
<1> QED BY <1>1, <1>6, <1>7, <1>8, ConstantsTyped DEF IInv

\* The new tip is written when the database is that of its chain.
LEMMA FinishStep ==
  ASSUME IInv, SoundTree, FinishReorg
  PROVE  IInv'
<1> USE DEF FinishReorg
<1>1. /\ TypeOK /\ GoalInv /\ ReplayInv
      /\ chain_tip \in Block /\ Genesis \in Anc[chain_tip]
  BY DEF IInv, TypeOK, MaybeBlock, EmptyInv, Idle
<1>2. TypeOK'
  BY <1>1 DEF TypeOK, NoReorg, MaybeBlock, GoalInv
<1>3. TipInv'
  BY <1>1 DEF TipInv, GoalInv, ReplayInv
<1>4. Genesis \in Anc[goal]
  <2>1. Genesis \in Anc[base]
    BY <1>1, GenesisBelow DEF GoalInv
  <2> QED BY <1>1, <2>1, Ancestry DEF GoalInv
<1>5. goal # NoBlock
  BY <1>1, ConstantsTyped DEF GoalInv
<1> QED BY <1>1, <1>2, <1>3, <1>4, <1>5 DEF IInv

\* Every step of the ledger.
LEMMA NextStep ==
  ASSUME IInv, SoundTree, NeverStale, [Next]_vars
  PROVE  IInv'
<1>1. ASSUME NEW b \in Block, SubmitBlock(b) PROVE IInv'
  <2>1. recheck' \in MaybeBlock
    BY <1>1 DEF SubmitBlock, IInv, TypeOK
  <2> QED BY <1>1, <2>1, InsertStep DEF SubmitBlock
<1>2. ASSUME NEW b \in Block, ReceiveBlock(b) PROVE IInv'
  <2>1. recheck' \in MaybeBlock
    BY <1>2 DEF ReceiveBlock, MaybeBlock
  <2> QED BY <1>2, <2>1, InsertStep DEF ReceiveBlock
<1>3. ASSUME NEW b \in Block, ReceiveForkBlock(b) PROVE IInv'
  <2>1. ~ StaleTip(blocks \cup {b}) /\ chain_tip # NoBlock /\ Idle
    BY <1>3 DEF ReceiveForkBlock, NeverStale
  <2>2. txs' \subseteq TxId /\ recheck' \in MaybeBlock /\ blocks \cup {b} \in SUBSET Block
    BY <1>3, BlockTyped DEF ReceiveForkBlock, IInv, TypeOK
  <2>3. \A c \in blocks \cup {b} : HeaderOK[c]
    BY <1>3 DEF ReceiveForkBlock, HeaderAccepted, IInv
  <2>4. /\ ReorganizeIfNeeded(b, blocks \cup {b}) /\ blocks' = blocks \cup {b}
        /\ UNCHANGED <<utxo, index, difficulty>>
    BY <1>3 DEF ReceiveForkBlock
  <2> QED BY <2>1, <2>2, <2>3, <2>4, BeginStep
<1>4. ASSUME RecheckReorg PROVE IInv'
  <2>1. recheck # NoBlock /\ recheck \in Block /\ Idle
    BY <1>4 DEF RecheckReorg, IInv, TypeOK, MaybeBlock
  <2>2. chain_tip # NoBlock /\ chain_tip \in Block
    BY <2>1 DEF IInv, TypeOK, MaybeBlock, EmptyInv
  <2>3. chain_tip \in blocks
    BY <2>1, <2>2, AncSelf DEF IInv, TipInv, Idle
  <2>4. ~ StaleTip(blocks)
    <3>1. blocks \cup {chain_tip} = blocks
      BY <2>3
    <3> QED BY <2>2, <3>1 DEF NeverStale
  <2>5. /\ blocks \in SUBSET Block /\ \A c \in blocks : HeaderOK[c]
        /\ ReorganizeIfNeeded(recheck, blocks) /\ blocks' = blocks
        /\ txs' \subseteq TxId /\ recheck' \in MaybeBlock
        /\ UNCHANGED <<utxo, index, difficulty>>
    BY <1>4 DEF RecheckReorg, IInv, TypeOK, MaybeBlock
  <2> QED BY <2>1, <2>2, <2>4, <2>5, BeginStep
<1>5. ASSUME UNCHANGED vars PROVE IInv'
  BY <1>5 DEF IInv, TypeOK, EmptyInv, TipInv, GoalInv, RollbackInv, ReplayInv, Idle, vars
<1> QED
  BY <1>1, <1>2, <1>3, <1>4, <1>5, RollbackStep, CommitStep, ReplayStep, FinishStep
  DEF Next, ReorgStep

\* The empty database satisfies it.
LEMMA InitInv == Init => IInv
<1>1. ASSUME Init PROVE \A b \in Block : index[Index[b]] = NoBlock
  BY <1>1, BlockTyped DEF Init
<1> QED BY <1>1 DEF Init, IInv, TypeOK, EmptyInv, Idle, MaybeBlock

\* The node never leaves the inductive invariant, whatever blocks it is sent.
THEOREM Inductive ==
  ASSUME SoundTree
  PROVE  Spec /\ []NeverStale => []IInv
<1>1. IInv /\ NeverStale /\ [Next]_vars => IInv'
  BY NextStep
<1> QED BY InitInv, <1>1, PTL DEF Spec

-----------------------------------------------------------------------------
(* The properties *)

\* The database keys, the fields and the locals keep their types.
THEOREM TypeCorrect ==
  ASSUME SoundTree
  PROVE  Spec /\ []NeverStale => []TypeOK
<1>1. IInv => TypeOK
  BY DEF IInv
<1> QED BY <1>1, Inductive, PTL

\* The node always holds the whole chain of its tip, and the tip in the database
\* is the one in memory.
THEOREM ChainKept ==
  ASSUME SoundTree
  PROVE  Spec /\ []NeverStale => [](TipChainStored /\ TipStored)
<1>1. IInv => TipChainStored /\ TipStored
  <2>1. IInv /\ Idle /\ chain_tip # NoBlock => chain_tip \in Block /\ TipInv /\ tip = chain_tip
    BY DEF IInv, TypeOK, MaybeBlock, Idle
  <2> QED BY <2>1, AncSelf DEF TipInv, TipChainStored, TipStored
<1> QED BY <1>1, Inductive, PTL

\* Whenever the node is idle its UTXO set is that of the tip's chain, whatever
\* sequence of insertions, rollbacks and replays led there.
THEOREM UtxoCorrect ==
  ASSUME SoundTree
  PROVE  Spec /\ []NeverStale => []UtxoMatchesTip
<1>1. IInv => UtxoMatchesTip
  BY DEF IInv, TipInv, Matches, UtxoMatchesTip, Idle
<1> QED BY <1>1, Inductive, PTL

\* No block spends an output that it creates itself.
NoneChained == \A b \in Block : Ins(b) \cap Outs(b) = {}

\* Where no block spends what it creates, the UTXO set is exact: the slack in
\* UtxoMatchesTip is due to such outputs alone.
THEOREM UtxoIsExact ==
  ASSUME SoundTree, NoneChained
  PROVE  Spec /\ []NeverStale => []UtxoExact
<1>1. ASSUME NEW b \in Block PROVE ChainedOn(b) = {}
  BY AncSelf DEF ChainedOn, NoneChained
<1>2. TypeOK /\ UtxoMatchesTip => UtxoExact
  BY <1>1 DEF TypeOK, MaybeBlock, UtxoMatchesTip, UtxoExact
<1> QED BY <1>2, TypeCorrect, UtxoCorrect, PTL

\* Whenever the node is idle the height index lists the tip's chain and no other.
THEOREM IndexCorrect ==
  ASSUME SoundTree
  PROVE  Spec /\ []NeverStale => []IndexIsChain
<1>1. IInv => IndexIsChain
  BY DEF IInv, TipInv, IndexOf, IndexIsChain, Idle
<1> QED BY <1>1, Inductive, PTL

\* No sound child of the tip is refused for a missing input.
THEOREM SoundChildren ==
  ASSUME SoundTree
  PROVE  Spec /\ []NeverStale => []SoundChildAccepted
<1>1. ASSUME IInv, Idle, chain_tip # NoBlock, NEW b \in Block, HeaderOK[b],
             Prev[b] = chain_tip, SoundBody(b),
             NEW i \in 2..Len(Txs[b]), NEW o \in Txs[b][i].ins
      PROVE  Pending(b, i, o) \/ o \in utxo
  <2>1. UnspentOn(chain_tip) \subseteq utxo
    BY <1>1 DEF IInv, TipInv, Matches, Idle
  <2>2. i \in DOMAIN Txs[b]
    BY ConstantsTyped
  <2>3. o \in Ins(b)
    BY <2>2 DEF Ins
  <2>4. Ins(b) \ Outs(b) \subseteq UnspentOn(chain_tip)
    BY <1>1, UnspentStep
  <2> QED BY <1>1, <2>1, <2>2, <2>3, <2>4, PendingSound
<1>2. IInv => SoundChildAccepted
  BY <1>1 DEF SoundChildAccepted, InputsFound
<1> QED BY <1>2, Inductive, PTL

\* A step that changes the tip goes to a child of it or to the goal of a
\* reorganization.
LEMMA TipChange ==
  ASSUME IInv, SoundTree, NeverStale, Next, tip # NoBlock, tip' # tip
  PROVE  /\ tip \in Block /\ tip' \in Block
         /\ Index[tip'] > Index[tip]
         /\ \E a \in Anc[tip] \cap Anc[tip'] : Index[tip] - Index[a] <= MaxReorgDepth
<1>1. tip = chain_tip /\ tip \in Block
  BY DEF IInv, TypeOK, MaybeBlock
<1>2. ASSUME NEW b \in Block, InsertBlock(b)
      PROVE  /\ tip' = b /\ Index[b] > Index[tip]
             /\ \E a \in Anc[tip] \cap Anc[b] : Index[tip] - Index[a] <= MaxReorgDepth
  <2>1. TipInv /\ Genesis \in Anc[chain_tip]
    BY <1>1, <1>2 DEF InsertBlock, Idle, IInv
  <2>2. Prev[b] = tip
    <3>1. chain_tip \in blocks
      BY <1>1, <2>1, AncSelf DEF TipInv
    <3>2. Index[b] # 0
      BY <1>2, <2>1 DEF InsertBlock, TipInv, HeaderAccepted, CheckpointOK
    <3> QED BY <1>1, <1>2, <3>1, <3>2, BlockTyped DEF InsertBlock, TipForInsert
  <2>3. tip' = b /\ HeaderOK[b]
    BY <1>2 DEF InsertBlock, HeaderAccepted
  <2>4. Index[b] > Index[tip]
    <3>1. tip \in Anc[b] \ {b}
      BY <1>1, <2>2, AncSelf, AncStep, ConstantsTyped
    <3>2. Index[tip] < Index[b] /\ Index[tip] \in Nat /\ Index[b] \in Nat
      BY <1>1, <2>3, <3>1, BlockTyped DEF SoundTree
    <3> QED BY <3>2
  <2>5. tip \in Anc[tip] \cap Anc[b]
    BY <1>1, <2>2, AncSelf, AncStep, ConstantsTyped
  <2>6. Index[tip] \in Nat /\ MaxReorgDepth \in Nat
    BY <1>1, BlockTyped, ConstantsTyped
  <2>7. Index[tip] - Index[tip] <= MaxReorgDepth
    BY <2>6
  <2> QED BY <2>3, <2>4, <2>5, <2>6, <2>7
<1>3. ASSUME FinishReorg
      PROVE  /\ tip' \in Block /\ Index[tip'] > Index[tip]
             /\ \E a \in Anc[tip] \cap Anc[tip'] : Index[tip] - Index[a] <= MaxReorgDepth
  BY <1>1, <1>3, BlockTyped DEF FinishReorg, IInv, GoalInv, DepthOK
<1>4. ASSUME NEW b \in Block, ReceiveForkBlock(b) PROVE FALSE
  BY <1>4 DEF ReceiveForkBlock, ReorganizeIfNeeded, NeverStale
<1>5. ASSUME RecheckReorg PROVE FALSE
  <2>1. chain_tip \in blocks
    BY <1>1, <1>5, AncSelf DEF RecheckReorg, Idle, IInv, TipInv
  <2>2. blocks \cup {chain_tip} = blocks
    BY <2>1
  <2>3. ~ StaleTip(blocks)
    BY <1>1, <2>2 DEF NeverStale
  <2> QED BY <1>5, <2>3 DEF RecheckReorg, ReorganizeIfNeeded
<1>6. ~ RollbackBlock /\ ~ CommitRollback /\ ~ ReplayBlock
  BY DEF RollbackBlock, CommitRollback, ReplayBlock, db
<1> QED
  BY <1>1, <1>2, <1>3, <1>4, <1>5, <1>6 DEF Next, ReorgStep, SubmitBlock, ReceiveBlock

\* No step abandons more than max_reorg_depth blocks.
THEOREM DepthBounded ==
  ASSUME SoundTree
  PROVE  Spec /\ []NeverStale => ReorgDepthBounded
<1>1. IInv /\ NeverStale /\ [Next]_vars =>
        [tip # NoBlock /\ tip' # tip =>
           \E a \in Anc[tip] \cap Anc[tip'] :
             Index[tip] - Index[a] <= MaxReorgDepth]_vars
  BY TipChange
<1> QED BY <1>1, Inductive, PTL DEF Spec, ReorgDepthBounded

-----------------------------------------------------------------------------
(* Induction along a chain *)

\* A fact that holds of genesis, and of a block whenever it holds of its parent,
\* holds of every block of a chain that reaches genesis.
LEMMA ChainInduction ==
  ASSUME NEW b \in Block, Genesis \in Anc[b], NEW G, Genesis \in G,
         \A c \in Anc[b] : Prev[c] # NoBlock /\ Prev[c] \in Anc[b] /\ Prev[c] \in G => c \in G
  PROVE  Anc[b] \subseteq G
<1> DEFINE Bad == {Anc[c] : c \in Anc[b] \ G}
<1> SUFFICES ASSUME Bad # {} PROVE FALSE
  OBVIOUS
<1>1. PICK T \in Bad : \A U \in Bad : U \subseteq T => U = T
  <2>1. IsFiniteSet(Anc[b]) /\ Bad \in SUBSET (SUBSET Anc[b])
    BY Ancestry
  <2> HIDE DEF Bad
  <2> QED BY <2>1, SmallestSubset
<1>2. PICK c \in Anc[b] \ G : T = Anc[c]
  OBVIOUS
<1>3. c \in Block /\ c # Genesis /\ Genesis \in Anc[c] /\ Anc[c] \subseteq Anc[b]
  BY AncSelf, GenesisBelow, Ancestry
<1>4. Prev[c] # NoBlock
  BY <1>3, Ancestry
<1>5. /\ Prev[c] \in Anc[Prev[c]] /\ Anc[Prev[c]] \subseteq Anc[c] /\ c \notin Anc[Prev[c]]
      /\ c \in Anc[c]
  BY <1>3, <1>4, AncStep, AncSelf
<1>6. Prev[c] \in Anc[b] /\ Anc[Prev[c]] # Anc[c]
  BY <1>3, <1>5
<1>7. Prev[c] \in G
  BY <1>1, <1>2, <1>5, <1>6
<1> QED BY <1>4, <1>6, <1>7

-----------------------------------------------------------------------------
(* The supply *)

\* The coins of a set are worth the sum of their amounts.
LEMMA TotalIs ==
  ASSUME NEW S
  PROVE  Total(S) = SumOf(Value, S)
BY DEF Total, SumOf

\* A block creates no more than its reward and what its transactions take, where a
\* coin that two of them take counts twice.
LEMMA BlockBalance ==
  ASSUME NEW b \in Block, SoundBody(b), BodyOK(b)
  PROVE  /\ Total(Outs(b)) \in Int /\ Total(Ins(b)) \in Int
         /\ Reward[Index[b]] \in Int /\ Respent(b) \in Int
         /\ Total(Outs(b)) <= Reward[Index[b]] + Respent(b) + Total(Ins(b))
<1> DEFINE n == Len(Txs[b])
           T == 1..n
           R == 2..n
           outs == [i \in T |-> Txs[b][i].outs]
           ins == [i \in T |-> Txs[b][i].ins]
           out == [i \in T |-> SumOf(Value, Txs[b][i].outs)]
           in == [i \in T |-> SumOf(Value, Txs[b][i].ins)]
           fee == [i \in R |-> Fee(Txs[b][i])]
<1>1. n \in Nat /\ DOMAIN Txs[b] = T /\ IsFiniteSet(T) /\ IsFiniteSet(R)
  <2>1. n \in Nat /\ DOMAIN Txs[b] = T
    BY ConstantsTyped
  <2>2. n \in Int /\ 1 \in Int /\ 2 \in Int
    BY <2>1
  <2> HIDE DEF n
  <2> QED BY <2>1, <2>2, FS_Interval
<1>2. Outs(b) = UnionOf(outs, T) /\ Ins(b) = UnionOf(ins, T)
  BY <1>1 DEF Outs, Ins, UnionOf
<1>3. \A o \in Outs(b) \cup Ins(b) : Value[o] \in Int
  BY ConstantsTyped, BlockTyped
<1>4. \A i \in T : /\ IsFiniteSet(outs[i]) /\ IsFiniteSet(ins[i])
                   /\ \A o \in outs[i] \cup ins[i] : Value[o] \in Int
  <2> SUFFICES ASSUME NEW i \in T
               PROVE  /\ IsFiniteSet(outs[i]) /\ IsFiniteSet(ins[i])
                      /\ \A o \in outs[i] \cup ins[i] : Value[o] \in Int
    OBVIOUS
  <2>1. outs[i] \in SUBSET Outs(b) /\ ins[i] \in SUBSET Ins(b)
    BY <1>2 DEF UnionOf
  <2>2. IsFiniteSet(Outs(b)) /\ IsFiniteSet(Ins(b))
    BY ConstantsTyped
  <2> HIDE DEF outs, ins
  <2> QED BY <1>3, <2>1, <2>2, FS_Subset
<1>5. \A i, j \in T : i # j => outs[i] \cap outs[j] = {}
  BY <1>1 DEF SoundBody
<1>6. \A i \in T : /\ out[i] = SumOf(Value, outs[i]) /\ in[i] = SumOf(Value, ins[i])
                   /\ out[i] \in Int /\ in[i] \in Int
  <2>1. \A i \in T : out[i] = SumOf(Value, outs[i]) /\ in[i] = SumOf(Value, ins[i])
    OBVIOUS
  <2> HIDE DEF outs, ins, out, in
  <2> QED BY <1>4, <2>1, SumInt
<1>7. Total(Outs(b)) = SumOf(out, T)
  <2> HIDE DEF outs, ins, out, in, T
  <2>1. SumOf(Value, UnionOf(outs, T)) = SumOf(out, T)
    <3>1. PartSums(Value, T, outs, out)
      BY <1>1, <1>4, <1>5, <1>6 DEF PartSums
    <3> QED BY <3>1, SumFamily
  <2> QED BY <1>2, <2>1, TotalIs
<1>12. Respent(b) = SumOf(in, T) - Total(Ins(b)) /\ Total(Ins(b)) \in Int
  <2> DEFINE taken == [i \in DOMAIN Txs[b] |-> Total(Txs[b][i].ins)]
  <2>1. taken = in
    BY <1>1, TotalIs
  <2>2. Respent(b) = SumOf(taken, DOMAIN taken) - Total(Ins(b))
    BY DEF Respent, SumOf
  <2>3. DOMAIN in = T
    OBVIOUS
  <2>4. Total(Ins(b)) \in Int
    BY <1>3, ConstantsTyped, TotalIs, SumInt
  <2> HIDE DEF taken, in, T
  <2> QED BY <2>1, <2>2, <2>3, <2>4
<1>8. Reward[Index[b]] \in Nat
  BY ConstantsTyped, BlockTyped
<1>9. SumOf(out, T) \in Int /\ SumOf(in, T) \in Int
  <2> HIDE DEF out, in, T
  <2> QED BY <1>1, <1>6, SumInt
<1>10. CASE n = 0
  <2>1. T = {}
    BY <1>10
  <2>2. SumOf(out, T) = 0 /\ SumOf(in, T) = 0
    <3> HIDE DEF out, in, T
    <3> QED BY <2>1, SumEmpty
  <2> HIDE DEF out, in, T
  <2> QED BY <1>7, <1>8, <1>12, <2>2
<1>11. CASE n # 0
  <2>1. T = R \cup {1} /\ 1 \notin R /\ 1 \in T /\ R \subseteq T
    BY <1>1, <1>11
  <2>2. in[1] = 0
    <3>1. Txs[b][1].ins = {}
      BY DEF BodyOK
    <3> QED BY <2>1, <3>1, SumEmpty
  <2>3. out[1] <= Reward[Index[b]] + SumOf(fee, R)
    <3>1. BlockFees(b) = SumOf(fee, R)
      BY DEF BlockFees, SumOf
    <3>2. Total(Txs[b][1].outs) = out[1]
      BY <2>1, TotalIs
    <3> QED BY <3>1, <3>2 DEF BodyOK
  <2>4. \A i \in R : fee[i] = in[i] - out[i]
    BY <2>1, TotalIs DEF Fee
  <2>5. \A i \in R : fee[i] \in Int /\ out[i] \in Int /\ in[i] = fee[i] + out[i]
    <3> SUFFICES ASSUME NEW i \in R
                 PROVE  fee[i] \in Int /\ out[i] \in Int /\ in[i] = fee[i] + out[i]
      OBVIOUS
    <3>1. out[i] \in Int /\ in[i] \in Int /\ fee[i] = in[i] - out[i]
      BY <1>6, <2>1, <2>4
    <3> HIDE DEF in, out, fee
    <3> QED BY <3>1
  <2> HIDE DEF in, out, fee, R, T
  <2>6. SumOf(in, R) = SumOf(fee, R) + SumOf(out, R)
    BY <1>1, <2>5, SumPlus
  <2>7. SumOf(in, T) = in[1] + SumOf(in, R) /\ SumOf(out, T) = out[1] + SumOf(out, R)
    <3>1. \A i \in R \cup {1} : in[i] \in Int /\ out[i] \in Int
      BY <1>6, <2>1
    <3>2. /\ SumOf(in, R \cup {1}) = in[1] + SumOf(in, R)
          /\ SumOf(out, R \cup {1}) = out[1] + SumOf(out, R)
      BY <1>1, <2>1, <3>1, SumAdd
    <3> QED BY <2>1, <3>2
  <2>8. SumOf(fee, R) \in Int /\ SumOf(out, R) \in Int /\ out[1] \in Int
    BY <1>1, <1>6, <2>1, <2>5, SumInt
  <2> QED BY <1>7, <1>8, <1>9, <1>12, <2>2, <2>3, <2>6, <2>7, <2>8
<1>13. SumOf(out, T) \in Int /\ Respent(b) \in Int
  <2> HIDE DEF out, in, T
  <2> QED BY <1>9, <1>12
<1> QED BY <1>7, <1>8, <1>10, <1>11, <1>12, <1>13

\* What the blocks may add to the database, and what a whole chain may.
IssueOf == [b \in Block |-> Issue(b)]
Issued(b) == SumOf(IssueOf, Anc[b])

\* All that the UTXO set of the chain of b may hold: its coins, and the outputs
\* spent by the block that created them.
Held(b) == UnspentOn(b) \cup ChainedOn(b)

\* What the chain of b may hold is worth no more than what it may issue.
Backed(b) ==
  /\ IsFiniteSet(Held(b)) /\ Held(b) \subseteq Outpoint
  /\ Total(Held(b)) <= Issued(b)

\* The bodies of the blocks B pass the checks of validate_and_insert_block, which
\* the fork path leaves out.
CheckedBodies(B) == \A b \in B : BodyOK(b)

\* Sums of amounts are integers.
LEMMA TotalInt ==
  ASSUME NEW S \in SUBSET Outpoint, IsFiniteSet(S)
  PROVE  Total(S) \in Int
<1>1. \A o \in S : Value[o] \in Int
  BY ConstantsTyped
<1> QED BY <1>1, TotalIs, SumInt

\* The amounts of two sets that share no outpoint add up.
LEMMA TotalUnion ==
  ASSUME NEW A \in SUBSET Outpoint, NEW B \in SUBSET Outpoint,
         IsFiniteSet(A), IsFiniteSet(B), A \cap B = {}
  PROVE  Total(A \cup B) = Total(A) + Total(B)
<1>1. \A o \in A \cup B : Value[o] \in Int
  BY ConstantsTyped
<1> QED BY <1>1, TotalIs, SumUnion

\* Fewer outpoints are worth no more.
LEMMA TotalMono ==
  ASSUME NEW B \in SUBSET Outpoint, IsFiniteSet(B), NEW A \in SUBSET B
  PROVE  Total(A) <= Total(B)
<1> DEFINE C == B \ A
<1>1. /\ A \in SUBSET Outpoint /\ C \in SUBSET Outpoint
      /\ IsFiniteSet(A) /\ IsFiniteSet(C) /\ A \cap C = {} /\ A \cup C = B
  BY FS_Subset
<1> HIDE DEF C
<1>2. Total(B) = Total(A) + Total(C) /\ Total(A) \in Int
  BY <1>1, TotalUnion, TotalInt
<1>3. \A o \in C : Value[o] \in Nat
  BY <1>1, ConstantsTyped
<1>4. Total(C) \in Nat
  BY <1>1, <1>3, TotalIs, SumNat
<1> QED BY <1>2, <1>4

\* What a block adds to all that its parent's chain may hold.
LEMMA SupplyStep ==
  ASSUME NEW b \in Block, SoundBody(b), BodyOK(b),
         NEW w \in SUBSET Outpoint, IsFiniteSet(w), w \cap Outs(b) = {},
         Ins(b) \ Outs(b) \subseteq w
  PROVE  LET left == (w \cup Outs(b)) \ (Ins(b) \ Outs(b))
         IN  /\ IsFiniteSet(left) /\ left \subseteq Outpoint
             /\ Issue(b) \in Int /\ Total(w) \in Int /\ Total(left) \in Int
             /\ Total(left) <= Total(w) + Issue(b)
<1> DEFINE all == w \cup Outs(b)
           gone == Ins(b) \ Outs(b)
           own == Ins(b) \cap Outs(b)
           left == all \ gone
<1>1. /\ IsFiniteSet(Outs(b)) /\ IsFiniteSet(Ins(b))
      /\ Outs(b) \in SUBSET Outpoint /\ Ins(b) \in SUBSET Outpoint
  BY ConstantsTyped, BlockTyped
<1>2. /\ all \in SUBSET Outpoint /\ IsFiniteSet(all)
      /\ gone \in SUBSET Outpoint /\ IsFiniteSet(gone)
      /\ own \in SUBSET Outpoint /\ IsFiniteSet(own)
      /\ left \in SUBSET Outpoint /\ IsFiniteSet(left)
  BY <1>1, FS_Union, FS_Subset
<1>3. Total(all) = Total(w) + Total(Outs(b))
  BY <1>1, TotalUnion
<1>4. left \cup gone = all /\ left \cap gone = {} /\ gone \cup own = Ins(b) /\ gone \cap own = {}
  OBVIOUS
<1> HIDE DEF all, gone, own, left
<1>5. Total(all) = Total(left) + Total(gone)
  BY <1>2, <1>4, TotalUnion
<1>6. Total(Ins(b)) = Total(gone) + Total(own)
  BY <1>2, <1>4, TotalUnion
<1>7. Total(w) \in Int /\ Total(left) \in Int /\ Total(gone) \in Int /\ Total(own) \in Int
  BY <1>2, TotalInt
<1>8. /\ Total(Outs(b)) \in Int /\ Reward[Index[b]] \in Int /\ Respent(b) \in Int
      /\ Total(Outs(b)) <= Reward[Index[b]] + Respent(b) + Total(Ins(b))
  BY BlockBalance
<1>9. Issue(b) = Reward[Index[b]] + Respent(b) + Total(own)
  BY DEF Issue, own
<1>10. Issue(b) \in Int /\ Total(left) <= Total(w) + Issue(b)
  BY <1>3, <1>5, <1>6, <1>7, <1>8, <1>9
<1> QED BY <1>2, <1>7, <1>10 DEF left, all, gone

\* What a chain may issue grows by what its last block may.
LEMMA IssuedStep ==
  ASSUME NEW b \in Block, Prev[b] # NoBlock, Genesis \in Anc[b],
         \A c \in Anc[b] : Issue(c) \in Int
  PROVE  /\ Issued(Prev[b]) \in Int
         /\ Issued(b) = Issue(b) + Issued(Prev[b])
<1>1. \A c \in Block : IssueOf[c] = Issue(c)
  BY DEF IssueOf
<1>2. /\ Prev[b] \in Block /\ Anc[b] = Anc[Prev[b]] \cup {b} /\ b \notin Anc[Prev[b]]
      /\ IsFiniteSet(Anc[Prev[b]]) /\ Anc[Prev[b]] \cup {b} \subseteq Block
  BY AncStep, AncSelf, Ancestry
<1>3. \A c \in Anc[Prev[b]] \cup {b} : IssueOf[c] \in Int
  BY <1>1, <1>2
<1>4. SumOf(IssueOf, Anc[Prev[b]] \cup {b}) = IssueOf[b] + SumOf(IssueOf, Anc[Prev[b]])
  BY <1>2, <1>3, SumAdd
<1> QED BY <1>1, <1>2, <1>3, <1>4, SumInt DEF Issued

\* What a sound, checked block may issue is an integer.
LEMMA IssueInt ==
  ASSUME NEW b \in Block, SoundBody(b), BodyOK(b)
  PROVE  Issue(b) \in Int
<1>1. Reward[Index[b]] \in Int /\ Respent(b) \in Int
  BY BlockBalance
<1>2. Ins(b) \cap Outs(b) \in SUBSET Outpoint /\ IsFiniteSet(Ins(b) \cap Outs(b))
  BY ConstantsTyped, BlockTyped, FS_Subset
<1> QED BY <1>1, <1>2, TotalInt DEF Issue

\* Every chain of sound, checked blocks is backed.
LEMMA ChainBacked ==
  ASSUME SoundTree, NEW b \in Block, Genesis \in Anc[b],
         \A c \in Anc[b] : HeaderOK[c], CheckedBodies(Anc[b])
  PROVE  Backed(b)
<1> DEFINE G == {c \in Block : Backed(c)}
<1>0. \A c \in Anc[b] : c \in Block /\ SoundBody(c) /\ BodyOK(c) /\ Issue(c) \in Int
  BY AncSelf, IssueInt DEF SoundTree, CheckedBodies
<1>1. Genesis \in G
  <2>1. Genesis \in Block /\ SoundBody(Genesis) /\ BodyOK(Genesis) /\ Issue(Genesis) \in Int
    BY <1>0
  <2>2. /\ UNION {Outs(c) : c \in Anc[Genesis]} = Outs(Genesis)
        /\ UNION {Ins(c) : c \in Anc[Genesis]} = Ins(Genesis)
        /\ UNION {Ins(c) \cap Outs(c) : c \in Anc[Genesis]} = Ins(Genesis) \cap Outs(Genesis)
    BY AncGenesis
  <2>3. Ins(Genesis) \ Outs(Genesis) = {}
    BY <2>1, AncGenesis DEF SoundBody
  <2>4. Held(Genesis) = ({} \cup Outs(Genesis)) \ (Ins(Genesis) \ Outs(Genesis))
    BY <2>2, <2>3 DEF Held, UnspentOn, ChainedOn
  <2>5. {} \in SUBSET Outpoint /\ IsFiniteSet({}) /\ {} \cap Outs(Genesis) = {}
    BY FS_EmptySet
  <2>6. /\ IsFiniteSet(Held(Genesis)) /\ Held(Genesis) \subseteq Outpoint
        /\ Total(Held(Genesis)) \in Int
        /\ Total(Held(Genesis)) <= Total({}) + Issue(Genesis)
    BY <2>1, <2>3, <2>4, <2>5, SupplyStep
  <2>7. Total({}) = 0
    BY TotalIs, SumEmpty
  <2>8. Issued(Genesis) = Issue(Genesis)
    <3>1. IssueOf[Genesis] = Issue(Genesis)
      BY <2>1 DEF IssueOf
    <3>2. Anc[Genesis] = {} \cup {Genesis}
      BY AncGenesis
    <3>3. SumOf(IssueOf, {} \cup {Genesis}) = IssueOf[Genesis] + SumOf(IssueOf, {})
      BY <2>1, <2>5, <3>1, SumAdd
    <3> QED BY <2>1, <3>1, <3>2, <3>3, SumEmpty DEF Issued
  <2> QED BY <2>1, <2>6, <2>7, <2>8 DEF Backed
<1>2. ASSUME NEW c \in Anc[b], Prev[c] # NoBlock, Prev[c] \in G PROVE c \in G
  <2> DEFINE w == Held(Prev[c])
  <2>1. c \in Block /\ HeaderOK[c] /\ SoundBody(c) /\ BodyOK(c)
    BY <1>0
  <2>2. /\ Held(c) = (w \cup Outs(c)) \ (Ins(c) \ Outs(c))
        /\ Ins(c) \ Outs(c) \subseteq w /\ w \cap Outs(c) = {}
    <3>1. /\ UnspentOn(c) = (UnspentOn(Prev[c]) \cup Outs(c)) \ Ins(c)
          /\ ChainedOn(c) = ChainedOn(Prev[c]) \cup (Ins(c) \cap Outs(c))
          /\ Ins(c) \ Outs(c) \subseteq UnspentOn(Prev[c])
          /\ Outs(c) \cap (UnspentOn(Prev[c]) \cup ChainedOn(Prev[c])) = {}
      BY <1>2, <2>1, UnspentStep
    <3>2. UnspentOn(Prev[c]) \cap ChainedOn(Prev[c]) = {}
      BY DEF UnspentOn, ChainedOn
    <3> QED BY <3>1, <3>2 DEF Held
  <2>3. IsFiniteSet(w) /\ w \in SUBSET Outpoint /\ Total(w) <= Issued(Prev[c])
    BY <1>2 DEF Backed
  <2> HIDE DEF w
  <2>4. /\ IsFiniteSet(Held(c)) /\ Held(c) \subseteq Outpoint
        /\ Issue(c) \in Int /\ Total(w) \in Int /\ Total(Held(c)) \in Int
        /\ Total(Held(c)) <= Total(w) + Issue(c)
    BY <2>1, <2>2, <2>3, SupplyStep
  <2>5. Issued(Prev[c]) \in Int /\ Issued(c) = Issue(c) + Issued(Prev[c])
    <3>1. Anc[c] \subseteq Anc[b]
      BY Ancestry
    <3>2. Genesis \in Anc[c]
      BY <1>2, GenesisBelow
    <3> QED BY <1>0, <1>2, <2>1, <3>1, <3>2, IssuedStep
  <2>6. Total(Held(c)) <= Issued(c)
    BY <2>3, <2>4, <2>5
  <2> QED BY <2>1, <2>4, <2>6 DEF Backed
<1>3. Anc[b] \subseteq G
  <2> HIDE DEF G
  <2> QED BY <1>1, <1>2, ChainInduction
<1> QED BY <1>3, AncSelf

\* Whenever the node is idle on a chain of checked bodies, the coins in its
\* database are worth no more than what that chain may issue, whatever
\* reorganizations led there: insertion, rollback and replay add no other coin.
THEOREM SupplyKept ==
  ASSUME SoundTree
  PROVE  Spec /\ []NeverStale => []SupplyBounded
<1>1. ASSUME IInv PROVE SupplyBounded
  <2> SUFFICES ASSUME Idle, chain_tip # NoBlock, \A b \in Anc[chain_tip] : BodyOK(b)
               PROVE  LET issued == [b \in Anc[chain_tip] |-> Issue(b)]
                      IN  Total(utxo) <= MapThenSumSet(LAMBDA b : issued[b], DOMAIN issued)
    BY DEF SupplyBounded
  <2> DEFINE issued == [b \in Anc[chain_tip] |-> Issue(b)]
  <2>1. chain_tip \in Block /\ TipInv /\ Genesis \in Anc[chain_tip]
    BY <1>1 DEF IInv, TypeOK, MaybeBlock, Idle
  <2>2. (\A c \in Anc[chain_tip] : HeaderOK[c]) /\ CheckedBodies(Anc[chain_tip])
    BY <1>1, <2>1 DEF IInv, TipInv, CheckedBodies
  <2>3. Backed(chain_tip)
    BY <2>1, <2>2, ChainBacked
  <2>4. utxo \in SUBSET Held(chain_tip)
    BY <2>1 DEF TipInv, Matches, Held
  <2>5. Total(utxo) <= Total(Held(chain_tip)) /\ Total(utxo) \in Int
    BY <2>3, <2>4, TotalMono, TotalInt, FS_Subset DEF Backed
  <2>6. IsFiniteSet(Anc[chain_tip]) /\ Anc[chain_tip] \subseteq Block
    BY <2>1, Ancestry, AncSelf
  <2>7. \A c \in Anc[chain_tip] : IssueOf[c] \in Int /\ IssueOf[c] = issued[c]
    BY <2>2, <2>6, IssueInt DEF IssueOf, SoundTree, CheckedBodies
  <2>8. SumOf(IssueOf, Anc[chain_tip]) = SumOf(issued, Anc[chain_tip])
    <3> HIDE DEF issued
    <3> QED BY <2>6, <2>7, SumSame
  <2>9. Issued(chain_tip) \in Int /\ Total(Held(chain_tip)) \in Int
    BY <2>3, <2>6, <2>7, SumInt, TotalInt DEF Issued, Backed
  <2>10. Total(utxo) <= Issued(chain_tip)
    BY <2>3, <2>5, <2>9 DEF Backed
  <2> QED BY <2>8, <2>10 DEF Issued, SumOf
<1> QED BY <1>1, Inductive, PTL

-----------------------------------------------------------------------------
(* Ledger implements AbstractLedger *)

\* What a caller sees is always the coins of the tip's chain.
CoinsSound == chain_tip # NoBlock => VisibleCoins = UnspentOn(chain_tip)

\* The invariant implies it.
LEMMA VisibleSound == IInv => CoinsSound
<1> SUFFICES ASSUME IInv, chain_tip # NoBlock PROVE VisibleCoins = UnspentOn(chain_tip)
  BY DEF CoinsSound
<1>1. CASE Idle
  <2>1. Matches(chain_tip, utxo)
    BY <1>1 DEF IInv, TipInv, Idle
  <2>2. \A o \in ChainedOn(chain_tip) : o \notin UnspentOn(chain_tip)
    BY DEF ChainedOn, UnspentOn
  <2> QED BY <1>1, <2>1, <2>2 DEF VisibleCoins, Matches
<1>2. CASE ~ Idle
  BY <1>2 DEF VisibleCoins
<1> QED BY <1>1, <1>2

\* Every step of the ledger is a step of the abstract one or not visible.
LEMMA StepImplements ==
  ASSUME IInv, IInv', CoinsSound, CoinsSound', SoundTree, NeverStale, [Next]_vars
  PROVE  [Abstract!Next]_(Abstract!vars)
<1>1. CASE chain_tip' = chain_tip
  <2>1. VisibleCoins' = VisibleCoins
    <3>1. CASE chain_tip = NoBlock
      BY <1>1, <3>1 DEF VisibleCoins
    <3>2. CASE chain_tip # NoBlock
      BY <1>1, <3>2 DEF CoinsSound
    <3> QED BY <3>1, <3>2
  <2> QED BY <1>1, <2>1 DEF Abstract!vars
<1>2. CASE chain_tip' # chain_tip
  <2>1. Next /\ tip = chain_tip /\ tip' = chain_tip'
    BY <1>2 DEF IInv, vars
  <2>2. chain_tip' # NoBlock /\ VisibleCoins' = UnspentOn(chain_tip')
    <3>1. chain_tip' # NoBlock
      BY <1>2, <2>1, TipChange, ConstantsTyped DEF IInv, TypeOK
    <3> QED BY <3>1 DEF CoinsSound
  <2>3. CASE chain_tip = NoBlock
    <3>1. chain_tip' = Genesis
      <4>1. EmptyInv
        BY <2>3 DEF IInv
      <4>2. PICK b \in Block : InsertBlock(b) /\ chain_tip' = b
        BY <1>2, <2>1, <2>3, <4>1 DEF Next, ReorgStep, SubmitBlock, ReceiveBlock, InsertBlock,
             ReceiveForkBlock, RecheckReorg, RollbackBlock, CommitRollback, ReplayBlock,
             FinishReorg, EmptyInv, Idle
      <4> QED BY <4>1, <4>2, BlockTyped
              DEF EmptyInv, InsertBlock, HeaderAccepted, CheckpointOK
    <3> QED BY <2>2, <2>3, <3>1 DEF Abstract!Next, Abstract!Start
  <2>4. CASE chain_tip # NoBlock
    <3>1. Abstract!Advance(chain_tip')
      BY <1>2, <2>1, <2>2, <2>4, TipChange DEF Abstract!Advance
    <3>2. chain_tip' \in Block
      BY <1>2, <2>1, <2>4, TipChange
    <3> QED BY <3>1, <3>2 DEF Abstract!Next
  <2> QED BY <2>3, <2>4
<1> QED BY <1>1, <1>2

\* Callers that hold the lock see one best chain and its coins, exchanged as a
\* whole and only for a higher chain within the depth limit.
THEOREM Refinement ==
  ASSUME SoundTree
  PROVE  Spec /\ []NeverStale => ImplementsAbstract
<1>1. Init => Abstract!Init
  BY DEF Init, Abstract!Init, VisibleCoins
<1>2. IInv /\ IInv' /\ CoinsSound /\ CoinsSound' /\ NeverStale /\ [Next]_vars =>
        [Abstract!Next]_(Abstract!vars)
  BY StepImplements
<1> QED
  BY <1>1, <1>2, VisibleSound, Inductive, PTL DEF Spec, ImplementsAbstract, Abstract!Spec

-----------------------------------------------------------------------------
(* The scan of recover_tip *)

\* The blocks of B that the scan prefers to b.
Preferred(B, b) ==
  {c \in B : \/ Index[c] > Index[b]
             \/ Index[c] = Index[b] /\ KeyRank[c] < KeyRank[b]}

\* In a finite, nonempty set of blocks the scan finds one, and no other is higher.
LEMMA HighestFound ==
  ASSUME NEW B \in SUBSET Block, IsFiniteSet(B), B # {}
  PROVE  /\ Highest(B) \in B
         /\ \A c \in B : Index[c] <= Index[Highest(B)]
<1> DEFINE T == {Preferred(B, b) : b \in B}
           R == StrictSubsetOrdering(B)
<1>0. \A b \in B : Index[b] \in Nat /\ KeyRank[b] \in Nat
  BY ConstantsTyped
<1>1. T \subseteq FiniteSubsetsOf(B)
  <2>1. ASSUME NEW b \in B PROVE Preferred(B, b) \in FiniteSubsetsOf(B)
    <3>1. Preferred(B, b) \in SUBSET B
      BY DEF Preferred
    <3>2. IsFiniteSet(Preferred(B, b))
      BY <3>1, FS_Subset
    <3> QED BY <3>1, <3>2 DEF FiniteSubsetsOf
  <2> QED BY <2>1
<1>2. T # {}
  OBVIOUS
<1>3. IsWellFoundedOn(R, FiniteSubsetsOf(B))
  BY FS_StrictSubsetOrderingWellFounded
<1>4. PICK x \in T : \A y \in T : ~ (<<y, x>> \in R)
  <2> HIDE DEF T, R
  <2> QED BY <1>1, <1>2, <1>3, WFMin
<1>5. PICK b \in B : x = Preferred(B, b)
  OBVIOUS
<1>6. Preferred(B, b) = {}
  <2> SUFFICES ASSUME NEW c \in Preferred(B, b) PROVE FALSE
    OBVIOUS
  <2>1. c \in B /\ Preferred(B, c) \in T
    BY DEF Preferred
  <2>2. Preferred(B, c) \subseteq Preferred(B, b)
    BY <1>0, <2>1 DEF Preferred
  <2>3. c \notin Preferred(B, c)
    BY <1>0, <2>1 DEF Preferred
  <2>4. Preferred(B, c) # Preferred(B, b)
    BY <2>3
  <2>5. <<Preferred(B, c), Preferred(B, b)>> \in R
    <3>1. Preferred(B, c) \in SUBSET B /\ Preferred(B, b) \in SUBSET B
      BY DEF Preferred
    <3> QED BY <2>2, <2>4, <3>1 DEF StrictSubsetOrdering
  <2> QED BY <1>4, <1>5, <2>1, <2>5
<1>7. \A c \in B : \/ Index[c] < Index[b]
                   \/ Index[c] = Index[b] /\ KeyRank[b] <= KeyRank[c]
  BY <1>0, <1>6 DEF Preferred
<1>8. /\ Highest(B) \in B
      /\ \A c \in B : \/ Index[c] < Index[Highest(B)]
                      \/ Index[c] = Index[Highest(B)] /\ KeyRank[Highest(B)] <= KeyRank[c]
  BY <1>7 DEF Highest
<1> QED BY <1>0, <1>8

-----------------------------------------------------------------------------
(* The best stored chain.  A rollback deletes the blocks it passes and their *)
(* transactions although other stored branches may rest on them; the chain   *)
(* selection is right as long as that takes nothing from them.               *)

\* Every stored block has its ancestors in the database, and the transactions
\* that load_tx needs to roll it back.
Connected == \A b \in blocks : Anc[b] \subseteq blocks /\ SpentTxsStored(b)

\* No block of B is higher than t and forks from its chain within the limits.
Best(t, B) ==
  \A b \in B : Index[b] > Index[t] =>
    \A a \in Anc[t] \cap Anc[b] : ~ DepthOK(t, a)

\* At rest the tip is the best; a reorganization under way leads to the best, and
\* its goal is the only block better than the tip it leaves.
BestInv ==
  /\ Idle /\ chain_tip # NoBlock => Best(chain_tip, blocks)
  /\ phase \in {"rollback", "replay"} => Best(goal, blocks)
  /\ phase = "rollback" => Best(chain_tip, blocks \ {goal})

\* Deeper fork points are worse, and so are those below a higher tip.
LEMMA DepthLess ==
  ASSUME NEW s \in Block, NEW t \in Block, NEW a \in Block, NEW b \in Block,
         DepthOK(t, a), Index[s] <= Index[t], Index[a] <= Index[b]
  PROVE  DepthOK(s, b)
<1>1. /\ Index[s] \in Nat /\ Index[t] \in Nat /\ Index[a] \in Nat /\ Index[b] \in Nat
      /\ MaxReorgDepth \in Nat /\ LatestCheckpoint \in Nat
  BY BlockTyped, ConstantsTyped
<1> QED BY <1>1 DEF DepthOK

\* Ancestors of a block with an acceptable header are not higher.
LEMMA AncLower ==
  ASSUME SoundTree, NEW b \in Block, HeaderOK[b], NEW a \in Anc[b]
  PROVE  a \in Block /\ Index[a] <= Index[b]
<1>1. a \in Block /\ Index[a] \in Nat /\ Index[b] \in Nat
  BY AncSelf, BlockTyped
<1>2. a # b => Index[a] < Index[b]
  BY DEF SoundTree
<1> QED BY <1>1, <1>2

\* Two stored chains that meet have a fork point, and find_common_ancestor finds
\* it: no common ancestor is higher.
LEMMA ForkFound ==
  ASSUME SoundTree, NEW B \in SUBSET Block, \A d \in B : HeaderOK[d],
         NEW s \in Block, NEW t \in Block, Anc[s] \subseteq B, Anc[t] \subseteq B,
         NEW a \in Anc[s] \cap Anc[t]
  PROVE  \E m \in B : IsForkPoint(B, s, t, m) /\ Index[a] <= Index[m]
<1> DEFINE C == Anc[s] \cap Anc[t]
           m == Highest(C)
<1>1. C \in SUBSET Block /\ IsFiniteSet(C) /\ C # {}
  BY AncSelf, Ancestry, FS_Subset
<1>2. m \in C /\ \A c \in C : Index[c] <= Index[m]
  <2> HIDE DEF C
  <2> QED BY <1>1, HighestFound
<1>3. ASSUME NEW c \in C PROVE c \in Anc[m]
  <2>1. c \in Anc[m] \/ m \in Anc[c]
    BY <1>2, Ancestry
  <2>2. c \in Block /\ m \in Block /\ HeaderOK[c] /\ Index[c] \in Nat /\ Index[m] \in Nat
    BY <1>1, <1>2, BlockTyped
  <2>3. m \in Anc[c] => c = m
    <3>1. m \in Anc[c] /\ c # m => Index[m] < Index[c]
      BY <2>2 DEF SoundTree
    <3> QED BY <1>2, <2>2, <3>1
  <2> QED BY <2>1, <2>2, <2>3, AncSelf
<1>4. Walk(B, s) = Anc[s] /\ Walk(B, t) = Anc[t]
  BY DEF Walk
<1>5. IsForkPoint(B, s, t, m)
  BY <1>2, <1>3, <1>4 DEF IsForkPoint
<1> QED BY <1>2, <1>5

\* A tip that is the best is not left: reorganize_if_needed switches to no block
\* that Best has seen.
LEMMA BestStays ==
  ASSUME NEW b, NEW B, NEW t \in Block, Best(t, B), MoreWork(b, t),
         NEW a, IsForkPoint(B, t, b, a), DepthOK(t, a), b \in Block
  PROVE  FALSE
<1>1. a \in Anc[t] \cap Anc[b] /\ {d \in Anc[b] : a \in Anc[d]} \subseteq B
  BY DEF IsForkPoint, Walk
<1>2. b \in B
  BY <1>1, AncSelf
<1> QED BY <1>1, <1>2 DEF Best, MoreWork

\* The goal of a reorganization is the best when the tip was the best before the
\* goal was stored.
LEMMA GoalBest ==
  ASSUME SoundTree, NEW B \in SUBSET Block, \A d \in B : HeaderOK[d],
         NEW t \in Block, HeaderOK[t], NEW b \in Block, HeaderOK[b], Best(t, B), Index[b] > Index[t],
         NEW m \in Anc[t] \cap Anc[b], DepthOK(t, m)
  PROVE  Best(b, B \cup {b})
<1> SUFFICES ASSUME NEW c \in B \cup {b}, Index[c] > Index[b],
                    NEW a \in Anc[b] \cap Anc[c], DepthOK(b, a)
             PROVE  FALSE
  BY DEF Best
<1>1. Index[b] \in Nat /\ Index[t] \in Nat /\ a \in Block /\ m \in Block
  BY AncSelf, BlockTyped
<1>2. c \in B /\ c \in Block
  BY <1>1
<1>3. Index[c] \in Nat /\ Index[a] \in Nat
  BY <1>1, <1>2, BlockTyped
<1>4. Index[c] > Index[t]
  BY <1>1, <1>3
<1>5. m \in Anc[a] \/ a \in Anc[m]
  BY Ancestry
<1>6. CASE m \in Anc[a]
  <2>1. m \in Anc[c]
    BY <1>2, <1>6, Ancestry
  <2> QED BY <1>2, <1>4, <2>1 DEF Best
<1>7. CASE a \in Anc[m]
  <2>1. a \in Anc[t]
    BY <1>7, Ancestry
  <2>2. DepthOK(t, a)
    BY <1>1, <1>3, DepthLess
  <2> QED BY <1>2, <1>4, <2>1, <2>2 DEF Best
<1> QED BY <1>5, <1>6, <1>7

\* A block inserted on the best tip is the best: a block above it is not stored.
LEMMA InsertBest ==
  ASSUME IInv, SoundTree, Connected, BestInv, NEW b \in Block, InsertBlock(b)
  PROVE  BestInv'
<1>1. /\ Idle /\ b \notin blocks /\ HeaderOK[b] /\ blocks' = blocks \cup {b}
      /\ chain_tip' = b /\ phase' = phase /\ blocks \subseteq Block
  BY DEF InsertBlock, HeaderAccepted, reorg, IInv, TypeOK
<1>2. Best(b, blocks \cup {b})
  <2> SUFFICES ASSUME NEW c \in blocks \cup {b}, Index[c] > Index[b],
                      NEW a \in Anc[b] \cap Anc[c], DepthOK(b, a)
               PROVE  FALSE
    BY DEF Best
  <2>1. c \in blocks
    BY BlockTyped
  <2>2. chain_tip # NoBlock
    BY <2>1 DEF IInv, EmptyInv
  <2>3. TipInv /\ Genesis \in Anc[chain_tip] /\ chain_tip \in Block
    BY <1>1, <2>2 DEF IInv, TypeOK, MaybeBlock, Idle
  <2>4. Prev[b] = chain_tip
    <3>1. chain_tip \in blocks
      BY <2>3, AncSelf DEF TipInv
    <3>2. Index[b] # 0
      BY <1>1, <2>3 DEF InsertBlock, TipInv, HeaderAccepted, CheckpointOK
    <3> QED BY <2>2, <3>1, <3>2, BlockTyped DEF InsertBlock, TipForInsert
  <2>5. a # b
    BY <1>1, <2>1 DEF Connected
  <2>6. a \in Anc[chain_tip]
    BY <2>2, <2>4, <2>5, AncStep
  <2>7. Index[chain_tip] < Index[b] /\ Index[b] \in Nat
    <3>1. chain_tip \in Anc[b] \ {b}
      BY <2>2, <2>3, <2>4, AncSelf, AncStep
    <3> QED BY <1>1, <3>1, BlockTyped DEF SoundTree
  <2>8. c \in Block /\ a \in Block /\ Index[c] \in Nat /\ Index[a] \in Nat /\ Index[chain_tip] \in Nat
    BY <1>1, <2>1, <2>3, AncSelf, BlockTyped
  <2>9. DepthOK(chain_tip, a) /\ Index[c] > Index[chain_tip]
    BY <2>3, <2>7, <2>8, DepthLess
  <2> QED BY <1>1, <2>1, <2>2, <2>6, <2>9 DEF BestInv, Best
<1> QED BY <1>1, <1>2 DEF BestInv, Idle

\* A fork block is switched to exactly when it is better than the tip.
LEMMA ForkBest ==
  ASSUME IInv, SoundTree, NeverStale, Connected, BestInv, NEW b \in Block, ReceiveForkBlock(b)
  PROVE  BestInv'
<1> DEFINE B == blocks \cup {b}
<1>1. /\ Idle /\ b \notin blocks /\ chain_tip # NoBlock /\ HeaderOK[b] /\ Prev[b] \in blocks
      /\ blocks' = B /\ ReorganizeIfNeeded(b, B) /\ ~ StaleTip(B)
  BY DEF ReceiveForkBlock, HeaderAccepted, NeverStale
<1>2. /\ TipInv /\ chain_tip \in Block /\ blocks \subseteq Block
      /\ \A c \in B : HeaderOK[c]
  BY <1>1 DEF IInv, TypeOK, MaybeBlock, Idle
<1>3. chain_tip' = chain_tip /\ Best(chain_tip, blocks)
  BY <1>1 DEF ReorganizeIfNeeded, BestInv
<1>4. Anc[b] \subseteq B /\ Anc[chain_tip] \subseteq B
  <2>1. Prev[b] # NoBlock
    BY <1>1, <1>2, ConstantsTyped
  <2> QED BY <1>1, <1>2, <2>1, AncStep DEF Connected, TipInv
<1>5. CASE UNCHANGED reorg
  <2>1. phase' = "idle"
    BY <1>1, <1>5 DEF reorg, Idle
  <2>2. ~ MoreWork(b, chain_tip) \/ ~ \E a \in B : IsForkPoint(B, chain_tip, b, a) /\ DepthOK(chain_tip, a)
    BY <1>1, <2>1 DEF ReorganizeIfNeeded
  <2>3. ASSUME Index[b] > Index[chain_tip], NEW a \in Anc[chain_tip] \cap Anc[b], DepthOK(chain_tip, a)
        PROVE  FALSE
    <3>1. PICK m \in B : IsForkPoint(B, chain_tip, b, m) /\ Index[a] <= Index[m]
      <4>1. B \in SUBSET Block
        BY <1>2
      <4> HIDE DEF B
      <4> QED BY <1>2, <1>4, <4>1, ForkFound
    <3>2. DepthOK(chain_tip, m)
      <4>1. a \in Block /\ m \in Block /\ Index[chain_tip] <= Index[chain_tip]
        BY <1>2, AncSelf, BlockTyped
      <4> QED BY <1>2, <2>3, <3>1, <4>1, DepthLess
    <3> QED BY <2>2, <2>3, <3>1, <3>2 DEF MoreWork
  <2>4. Best(chain_tip, B)
    BY <1>3, <2>3 DEF Best
  <2> QED BY <1>1, <1>3, <2>1, <2>4 DEF BestInv, Idle
<1>6. CASE ~ UNCHANGED reorg
  <2>1. PICK a \in B : /\ IsForkPoint(B, chain_tip, b, a) /\ DepthOK(chain_tip, a)
                       /\ Index[b] > Index[chain_tip]
                       /\ phase' = "rollback" /\ goal' = b
    BY <1>1, <1>6 DEF ReorganizeIfNeeded, MoreWork
  <2>2. a \in Anc[chain_tip] \cap Anc[b]
    BY <2>1 DEF IsForkPoint, Walk
  <2>3. HeaderOK[chain_tip]
    BY <1>2, AncSelf DEF TipInv
  <2>4. Best(b, B)
    BY <1>1, <1>2, <1>3, <2>1, <2>2, <2>3, GoalBest
  <2>5. Best(chain_tip, B \ {b})
    BY <1>3 DEF Best
  <2> QED BY <1>1, <1>3, <2>1, <2>4, <2>5 DEF BestInv, Idle
<1> QED BY <1>5, <1>6

\* Every step keeps the best chain, as long as the stored blocks are connected.
LEMMA BestStep ==
  ASSUME IInv, SoundTree, NeverStale, Connected, BestInv, [Next]_vars
  PROVE  BestInv'
<1>1. ASSUME RecheckReorg PROVE BestInv'
  <2>1. /\ Idle /\ recheck # NoBlock /\ recheck \in Block /\ chain_tip # NoBlock
        /\ ReorganizeIfNeeded(recheck, blocks) /\ blocks' = blocks
    BY <1>1 DEF RecheckReorg, IInv, TypeOK, MaybeBlock, EmptyInv
  <2>2. chain_tip \in Block /\ chain_tip \in blocks
    BY <2>1, AncSelf DEF IInv, TypeOK, MaybeBlock, TipInv, Idle
  <2>3. ~ StaleTip(blocks)
    <3>1. blocks \cup {chain_tip} = blocks
      BY <2>2
    <3> QED BY <2>1, <2>2, <3>1 DEF NeverStale
  <2>4. chain_tip' = chain_tip /\ UNCHANGED reorg
    BY <2>1, <2>2, <2>3, BestStays DEF ReorganizeIfNeeded, BestInv
  <2> QED BY <2>1, <2>4 DEF BestInv, Idle, reorg
<1>2. ASSUME RollbackBlock PROVE BestInv'
  <2>1. at \in blocks
    BY <1>2 DEF RollbackBlock, IInv, EmptyInv, Idle, TipInv, RollbackInv
  <2>2. phase' = phase /\ goal' = goal /\ blocks' = blocks /\ chain_tip' = chain_tip
    BY <1>2, <2>1 DEF RollbackBlock, Connected, db
  <2> QED BY <2>2 DEF BestInv, Idle
<1>3. ASSUME CommitRollback PROVE BestInv'
  BY <1>3 DEF CommitRollback, BestInv, Idle, Best
<1>4. ASSUME ReplayBlock PROVE BestInv'
  BY <1>4 DEF ReplayBlock, BestInv, Idle
<1>5. ASSUME FinishReorg PROVE BestInv'
  BY <1>5 DEF FinishReorg, BestInv, Idle
<1>6. ASSUME UNCHANGED vars PROVE BestInv'
  BY <1>6 DEF vars, BestInv, Idle
<1> QED
  BY <1>1, <1>2, <1>3, <1>4, <1>5, <1>6, InsertBest, ForkBest
  DEF Next, ReorgStep, SubmitBlock, ReceiveBlock

\* What BestInv says at rest is what BestChainWins asks for.
LEMMA BestEnough ==
  ASSUME BestInv
  PROVE  BestChainWins
BY DEF BestInv, BestChainWins, Best, IsForkPoint, Walk

\* Whatever order blocks arrive in, the node ends on the best stored chain it may
\* switch to, as long as no rollback takes ancestors or spent transactions from
\* another stored branch.
THEOREM BestWhileConnected ==
  ASSUME SoundTree
  PROVE  Spec /\ []NeverStale /\ []Connected => []BestChainWins
<1>1. Init => BestInv
  BY DEF Init, BestInv, Idle
<1>2. IInv /\ NeverStale /\ Connected /\ BestInv /\ [Next]_vars => BestInv'
  BY BestStep
<1>3. BestInv => BestChainWins
  BY BestEnough
<1> QED BY <1>1, <1>2, <1>3, Inductive, PTL DEF Spec

\* Neither of two blocks is on the chain of the other.
Apart(b, c) == b \notin Anc[c] /\ c \notin Anc[b]

\* No branch forks again: all branches part from a chain at the same block.  No
\* transaction is in two blocks, and an outpoint names the transaction it is of.
SeparateBranches ==
  /\ \A b, c, d \in Block :
       HeaderOK[b] /\ HeaderOK[c] /\ HeaderOK[d] /\ Apart(b, c) /\ Apart(b, d) =>
         Anc[b] \cap Anc[c] = Anc[b] \cap Anc[d]
  /\ \A b, c \in Block :
       HeaderOK[b] /\ HeaderOK[c] /\ b # c => TxIds(b) \cap TxIds(c) = {}
  /\ \A b \in Block : HeaderOK[b] => \A o \in Outs(b) : o[1] \in TxIds(b)

\* A stored block has its ancestors and its own transactions in the database.
StoreInv == \A b \in blocks : Anc[b] \subseteq blocks /\ TxIds(b) \subseteq txs

\* The transactions that a stored block spends from are then stored too, since an
\* sound block spends outputs of its own chain.
LEMMA StoreConnects ==
  ASSUME IInv, SoundTree, SeparateBranches, StoreInv
  PROVE  Connected
<1> SUFFICES ASSUME NEW b \in blocks, NEW o \in Ins(b) PROVE o[1] \in txs
  BY DEF StoreInv, Connected, SpentTxsStored
<1>1. b \in Block /\ HeaderOK[b]
  BY DEF IInv, TypeOK
<1>2. \A c \in Anc[b] : c \in Block /\ HeaderOK[c] /\ TxIds(c) \subseteq txs
  BY <1>1, AncSelf DEF IInv, StoreInv
<1>3. PICK c \in Anc[b] : o \in Outs(c)
  <2>1. SoundBody(b)
    BY <1>1 DEF SoundTree
  <2> QED BY <1>1, <2>1, AncSelf DEF SoundBody
<1> QED BY <1>2, <1>3 DEF SeparateBranches

\* The batch of a rollback takes nothing from the blocks that stay: what shares a
\* block with the abandoned chain above the fork point is on that chain, because
\* it would otherwise be a branch of a branch or a block better than the old tip.
LEMMA CommitStores ==
  ASSUME IInv, SoundTree, SeparateBranches, BestInv, StoreInv, CommitRollback
  PROVE  StoreInv'
<1>1. /\ TypeOK /\ TipInv /\ GoalInv /\ RollbackInv /\ chain_tip \in Block
      /\ \A b \in blocks : HeaderOK[b]
  BY DEF CommitRollback, IInv, TypeOK, MaybeBlock, EmptyInv, Idle
<1>2. /\ blocks' = blocks \ RolledBack
      /\ txs' = txs \ (UNION {TxIds(b) : b \in RolledBack})
      /\ Best(chain_tip, blocks \ {goal})
  BY DEF CommitRollback, BestInv
<1>3. /\ goal \in Block /\ Anc[goal] \subseteq blocks /\ goal \in blocks /\ HeaderOK[goal]
      /\ chain_tip \in blocks /\ HeaderOK[chain_tip] /\ base \in Block
      /\ base \in Anc[chain_tip] /\ base \in Anc[goal] /\ DepthOK(chain_tip, base)
      /\ Anc[goal] \cap Anc[chain_tip] \subseteq Anc[base]
  BY <1>1, AncSelf DEF GoalInv, RollbackInv, TipInv
<1>4. ASSUME NEW c \in blocks, c \notin RolledBack, NEW d \in Anc[c], d \in RolledBack
      PROVE  FALSE
  <2>1. d \in Anc[chain_tip] /\ d \notin Anc[base] /\ c \in Block /\ HeaderOK[c]
    BY <1>1, <1>4 DEF RolledBack, TypeOK
  <2>2. c # goal
    BY <1>3, <1>4, <2>1
  <2>3. CASE c \in Anc[chain_tip]
    <3>1. c \in Anc[base]
      BY <1>4, <2>3 DEF RolledBack
    <3> QED BY <1>3, <1>4, <2>1, <3>1, Ancestry
  <2>4. CASE chain_tip \in Anc[c] /\ c \notin Anc[chain_tip]
    <3>1. c # chain_tip
      BY <1>3, <2>4, AncSelf
    <3>2. Index[c] > Index[chain_tip]
      <4>1. Index[chain_tip] < Index[c]
        BY <2>1, <2>4, <3>1 DEF SoundTree
      <4>2. Index[c] \in Nat /\ Index[chain_tip] \in Nat
        BY <1>3, <2>1, <1>1, BlockTyped
      <4> QED BY <4>1, <4>2
    <3>3. DepthOK(chain_tip, chain_tip)
      <4>1. Index[base] <= Index[chain_tip] /\ Index[chain_tip] <= Index[chain_tip]
        BY <1>1, <1>3, AncLower, BlockTyped
      <4> QED BY <1>1, <1>3, <4>1, DepthLess
    <3>4. chain_tip \in Anc[chain_tip] \cap Anc[c]
      BY <1>1, <2>4, AncSelf
    <3> QED BY <1>2, <1>4, <2>2, <3>2, <3>3, <3>4 DEF Best
  <2>5. CASE Apart(chain_tip, c)
    <3>1. goal \notin Anc[chain_tip]
      <4>1. goal \in Anc[chain_tip] => Index[goal] <= Index[chain_tip]
        BY <1>1, <1>3, AncLower
      <4>2. Index[chain_tip] < Index[goal] /\ Index[goal] \in Nat /\ Index[chain_tip] \in Nat
        BY <1>1, <1>3, BlockTyped DEF GoalInv
      <4> QED BY <4>1, <4>2
    <3>2. chain_tip \notin Anc[goal]
      <4>1. chain_tip \in Anc[goal] => chain_tip \in Anc[base]
        BY <1>1, <1>3, AncSelf
      <4> QED BY <1>3, <2>1, <4>1, Ancestry
    <3>3. Anc[chain_tip] \cap Anc[c] = Anc[chain_tip] \cap Anc[goal]
      BY <1>1, <1>3, <2>1, <2>5, <3>1, <3>2 DEF SeparateBranches, Apart
    <3> QED BY <1>3, <1>4, <2>1, <3>3
  <2> QED BY <2>3, <2>4, <2>5 DEF Apart
<1>5. ASSUME NEW c \in blocks' PROVE Anc[c] \subseteq blocks' /\ TxIds(c) \subseteq txs'
  <2>1. c \in blocks /\ c \notin RolledBack
    BY <1>2, <1>5
  <2>2. Anc[c] \subseteq blocks'
    BY <1>2, <1>4, <2>1 DEF StoreInv
  <2>3. ASSUME NEW d \in RolledBack PROVE TxIds(c) \cap TxIds(d) = {}
    <3>1. d \in blocks /\ d # c
      BY <1>1, <2>1, <2>3 DEF RolledBack, TipInv
    <3> QED BY <1>1, <2>1, <3>1 DEF SeparateBranches, TypeOK
  <2>4. TxIds(c) \subseteq txs'
    BY <1>2, <2>1, <2>3 DEF StoreInv
  <2> QED BY <2>2, <2>4
<1> QED BY <1>5 DEF StoreInv

\* Every step keeps it: a block is stored together with its transactions, and
\* after its parent.
LEMMA StoreStep ==
  ASSUME IInv, IInv', SoundTree, SeparateBranches, BestInv, StoreInv, [Next]_vars
  PROVE  StoreInv'
<1>1. ASSUME NEW b \in Block, blocks' = blocks \cup {b}, txs' = txs \cup TxIds(b),
             Anc[b] \subseteq blocks'
      PROVE  StoreInv'
  BY <1>1 DEF StoreInv
<1>2. ASSUME NEW b \in Block, InsertBlock(b) PROVE StoreInv'
  <2>1. /\ blocks' = blocks \cup {b} /\ txs' = txs \cup TxIds(b)
        /\ chain_tip' = b /\ phase' = "idle" /\ b # NoBlock
    BY <1>2, ConstantsTyped DEF InsertBlock, Idle, reorg
  <2>2. Anc[b] \subseteq blocks'
    BY <2>1 DEF IInv, TipInv
  <2> QED BY <1>1, <2>1, <2>2
<1>3. ASSUME NEW b \in Block, ReceiveForkBlock(b) PROVE StoreInv'
  <2>1. /\ blocks' = blocks \cup {b} /\ txs' = txs \cup TxIds(b) /\ Prev[b] \in blocks
    BY <1>3 DEF ReceiveForkBlock, HeaderAccepted
  <2>2. Prev[b] # NoBlock
    BY <2>1, ConstantsTyped DEF IInv, TypeOK
  <2>3. Anc[b] \subseteq blocks'
    BY <2>1, <2>2, AncStep DEF StoreInv
  <2> QED BY <1>1, <2>1, <2>3
<1>4. ASSUME UNCHANGED <<blocks, txs>> PROVE StoreInv'
  BY <1>4 DEF StoreInv
<1>5. RecheckReorg \/ RollbackBlock \/ ReplayBlock \/ FinishReorg \/ UNCHANGED vars =>
        UNCHANGED <<blocks, txs>>
  BY DEF RecheckReorg, RollbackBlock, ReplayBlock, FinishReorg, db, vars
<1> QED
  BY <1>2, <1>3, <1>4, <1>5, CommitStores
  DEF Next, ReorgStep, SubmitBlock, ReceiveBlock

\* On a tree whose branches fork once and share no transaction the node ends on
\* the best stored chain it may switch to, whatever order blocks arrive in and
\* however often it goes from one branch to another.
THEOREM BestCorrect ==
  ASSUME SoundTree, SeparateBranches
  PROVE  Spec /\ []NeverStale => []BestChainWins
<1>1. Init => BestInv /\ StoreInv
  BY DEF Init, BestInv, Idle, StoreInv
<1>2. IInv /\ IInv' /\ NeverStale /\ BestInv /\ StoreInv /\ [Next]_vars =>
        BestInv' /\ StoreInv'
  BY StoreConnects, BestStep, StoreStep
<1>3. BestInv => BestChainWins
  BY BestEnough
<1> QED BY <1>1, <1>2, <1>3, Inductive, PTL DEF Spec

\* On such a tree the node can always leave its chain again: no rollback has taken
\* a transaction of the chain or one that it spends from.
THEOREM Reversible ==
  ASSUME SoundTree, SeparateBranches
  PROVE  Spec /\ []NeverStale => []ChainReversible
<1>1. Init => BestInv /\ StoreInv
  BY DEF Init, BestInv, Idle, StoreInv
<1>2. IInv /\ IInv' /\ NeverStale /\ BestInv /\ StoreInv /\ [Next]_vars =>
        BestInv' /\ StoreInv'
  BY StoreConnects, BestStep, StoreStep
<1>3. IInv /\ StoreInv => ChainReversible
  <2>1. IInv /\ Idle /\ chain_tip # NoBlock => Anc[chain_tip] \subseteq blocks
    BY DEF IInv, TipInv, Idle
  <2>2. IInv /\ StoreInv => Connected
    BY StoreConnects
  <2> QED BY <2>1, <2>2 DEF ChainReversible, StoreInv, Connected
<1> QED BY <1>1, <1>2, <1>3, Inductive, PTL DEF Spec

-----------------------------------------------------------------------------
(* The invariant with crashes: the stored tip after recover_tip is a stored *)
(* block, and it is never lower than the tip before.  Unlike the theorems   *)
(* above, these hold with crashes and with the stale-tip recovery too.      *)

\* The stored blocks are finitely many, have passed the header checks and lead
\* back to genesis, which is never deleted.
BlocksInv ==
  /\ blocks \subseteq Block /\ IsFiniteSet(blocks)
  /\ \A b \in blocks : HeaderOK[b] /\ Genesis \in Anc[b]
  /\ blocks # {} => Genesis \in blocks

\* A running reorganization goes to a stored block above the tip, from a stored
\* ancestor.
SwitchInv ==
  /\ tip \in Block /\ HeaderOK[tip]
  /\ goal \in blocks /\ base \in blocks
  /\ Index[goal] > Index[tip]

\* A crash may find the tip's block deleted, but a block at least as high is
\* stored; until the rollback is committed the tip itself is.
CrashInv ==
  /\ BlocksInv
  /\ tip \in MaybeBlock /\ recheck \in MaybeBlock
  /\ phase \in {"idle", "rollback", "replay", "down"}
  /\ tip = NoBlock => blocks = {} /\ recheck = NoBlock
  /\ tip # NoBlock => \E b \in blocks : Index[b] >= Index[tip]
  /\ phase # "down" => chain_tip = tip
  /\ phase \in {"idle", "rollback"} /\ tip # NoBlock => tip \in blocks
  /\ phase \in {"rollback", "replay"} => SwitchInv

\* Storing one more checked block whose parent is stored keeps BlocksInv.
LEMMA StoreKeeps ==
  ASSUME BlocksInv, NEW b \in Block, HeaderAccepted(b), blocks' = blocks \cup {b}
  PROVE  BlocksInv'
<1>1. IsFiniteSet(blocks \cup {b})
  BY FS_AddElement DEF BlocksInv
<1>2. Genesis \in Anc[b] /\ (Genesis \in blocks \/ b = Genesis)
  <2>1. CASE Index[b] = 0
    BY <2>1, AncSelf DEF HeaderAccepted, CheckpointOK
  <2>2. CASE Index[b] # 0
    <3>1. Prev[b] \in blocks
      BY <2>2, BlockTyped DEF HeaderAccepted
    <3>2. Prev[b] # NoBlock /\ Genesis \in Anc[Prev[b]]
      BY <3>1, ConstantsTyped DEF BlocksInv
    <3> QED BY <3>1, <3>2, AncStep DEF BlocksInv
  <2> QED BY <2>1, <2>2
<1> QED BY <1>1, <1>2 DEF BlocksInv, HeaderAccepted

\* The recovered tip is stored and at least as high as the old one.
LEMMA RecoveredHigher ==
  ASSUME NEW B \in SUBSET Block, IsFiniteSet(B), B # {},
         NEW t \in Block, NEW b \in B, Index[b] >= Index[t]
  PROVE  Highest(B) \in B /\ Index[Highest(B)] >= Index[t]
<1>1. Highest(B) \in B /\ Index[b] <= Index[Highest(B)]
  BY HighestFound
<1>2. Index[b] \in Nat /\ Index[t] \in Nat /\ Index[Highest(B)] \in Nat
  BY <1>1, BlockTyped
<1> QED BY <1>1, <1>2

\* What one step must establish besides the invariant.
NoDrop == tip # NoBlock => Index[tip'] >= Index[tip]

\* An insertion puts the tip one higher.
LEMMA InsertNoDrop ==
  ASSUME CrashInv, SoundTree, NEW b \in Block, InsertBlock(b), recheck' \in MaybeBlock
  PROVE  CrashInv' /\ NoDrop
<1>1. BlocksInv'
  BY StoreKeeps DEF InsertBlock, CrashInv
<1>2. /\ tip' = b /\ chain_tip' = b /\ b \in blocks' /\ b \notin blocks
      /\ phase' = "idle" /\ phase = "idle" /\ chain_tip = tip
  BY DEF InsertBlock, Idle, reorg, CrashInv
<1>3. Index[b] \in Nat /\ b # NoBlock
  BY BlockTyped, ConstantsTyped
<1>4. CrashInv'
  BY <1>1, <1>2, <1>3 DEF CrashInv, MaybeBlock, Idle
<1>5. ASSUME tip # NoBlock PROVE Index[b] >= Index[tip]
  <2>1. tip \in blocks /\ tip \in Block /\ Index[tip] \in Nat
    BY <1>2, <1>5, BlockTyped DEF CrashInv, BlocksInv, Idle, MaybeBlock
  <2>2. Index[b] # 0
    <3>1. b # Genesis
      BY <1>2, <2>1 DEF CrashInv, BlocksInv
    <3> QED BY <3>1 DEF InsertBlock, HeaderAccepted, CheckpointOK
  <2>3. Prev[b] = tip
    BY <1>2, <1>3, <1>5, <2>1, <2>2 DEF InsertBlock, TipForInsert
  <2>4. HeaderOK[b]
    BY DEF InsertBlock, HeaderAccepted
  <2>5. Index[tip] < Index[b] /\ Index[b] \in Nat /\ Index[tip] \in Nat
    <3>1. Prev[b] # NoBlock /\ tip \in Block
      BY <1>5, <2>3, ConstantsTyped DEF MaybeBlock
    <3>2. tip \in Anc[b] \ {b}
      BY <2>3, <3>1, AncSelf, AncStep
    <3> QED BY <2>4, <3>1, <3>2, BlockTyped DEF SoundTree
  <2> QED BY <2>1, <2>5
<1> QED BY <1>2, <1>4, <1>5 DEF NoDrop

\* The start of reorganize_if_needed, a recovery of a stale tip included.
LEMMA BeginNoDrop ==
  ASSUME CrashInv, NEW b \in Block, Idle, tip # NoBlock, BlocksInv',
         blocks \subseteq blocks', ReorganizeIfNeeded(b, blocks'), recheck' \in MaybeBlock
  PROVE  CrashInv' /\ NoDrop
<1> DEFINE cur == IF StaleTip(blocks') THEN Highest(blocks') ELSE chain_tip
<1>1. tip \in blocks' /\ tip \in Block /\ chain_tip = tip /\ Index[tip] \in Nat
  BY BlockTyped DEF CrashInv, BlocksInv, Idle, MaybeBlock
<1>2. Highest(blocks') \in blocks' /\ Index[Highest(blocks')] >= Index[tip]
  BY <1>1, RecoveredHigher DEF BlocksInv
<1>3. cur \in blocks' /\ Index[cur] >= Index[tip]
  BY <1>1, <1>2
<1>4. tip' = cur /\ chain_tip' = cur
  BY <1>1 DEF ReorganizeIfNeeded
<1>5. cur \in Block /\ HeaderOK[cur] /\ Index[cur] \in Nat /\ cur # NoBlock
  BY <1>3, BlockTyped, ConstantsTyped DEF BlocksInv
<1>6. CASE /\ phase' = "rollback" /\ goal' = b /\ MoreWork(b, cur)
           /\ \E a \in blocks' : IsForkPoint(blocks', cur, b, a) /\ base' = a
  <2>1. PICK a \in blocks' : IsForkPoint(blocks', cur, b, a) /\ base' = a
    BY <1>6
  <2>2. b \in blocks'
    BY <2>1, AncSelf DEF IsForkPoint, Walk
  <2>3. Index[goal'] > Index[tip']
    BY <1>4, <1>6 DEF MoreWork
  <2>4. SwitchInv'
    BY <1>4, <1>5, <1>6, <2>1, <2>2, <2>3 DEF SwitchInv
  <2>5. CrashInv'
    <3> HIDE DEF cur
    <3> QED BY <1>3, <1>4, <1>5, <1>6, <2>4 DEF CrashInv, MaybeBlock, Idle
  <2> QED BY <1>3, <1>4, <2>5 DEF NoDrop
<1>7. CASE phase' = phase
  <2>1. CrashInv'
    <3> HIDE DEF cur
    <3> QED BY <1>3, <1>4, <1>5, <1>7 DEF CrashInv, MaybeBlock, Idle
  <2> QED BY <1>3, <1>4, <2>1 DEF NoDrop
<1> QED BY <1>6, <1>7 DEF ReorganizeIfNeeded, reorg

\* The rollback deletes the tip's branch, but neither its target nor genesis.
LEMMA CommitNoDrop ==
  ASSUME CrashInv, SoundTree, CommitRollback
  PROVE  CrashInv' /\ NoDrop
<1>1. /\ phase = "rollback" /\ phase' = "replay" /\ blocks' = blocks \ RolledBack
      /\ UNCHANGED <<tip, chain_tip, recheck, goal, base>>
  BY DEF CommitRollback
<1>2. SwitchInv /\ chain_tip = tip /\ tip # NoBlock
  BY <1>1, ConstantsTyped DEF CrashInv, SwitchInv
<1>3. goal \in Block /\ base \in Block /\ tip \in Block
      /\ Index[goal] \in Nat /\ Index[tip] \in Nat
  BY <1>2, BlockTyped DEF CrashInv, BlocksInv, SwitchInv
<1>4. goal \notin RolledBack
  <2>1. \A c \in Anc[tip] : Index[c] <= Index[tip]
    BY <1>2, <1>3, BlockTyped, AncSelf DEF SoundTree, SwitchInv
  <2>2. goal \notin Anc[tip]
    BY <1>2, <1>3, <2>1 DEF SwitchInv
  <2> QED BY <1>2, <2>2 DEF RolledBack
<1>5. base \notin RolledBack /\ Genesis \notin RolledBack
  BY <1>2, <1>3, AncSelf DEF RolledBack, SwitchInv, CrashInv, BlocksInv
<1>6. BlocksInv'
  <2>1. IsFiniteSet(blocks')
    BY <1>1, FS_Subset DEF CrashInv, BlocksInv
  <2> QED BY <1>1, <1>5, <2>1 DEF CrashInv, BlocksInv
<1>7. SwitchInv'
  BY <1>1, <1>2, <1>4, <1>5 DEF SwitchInv
<1>8. CrashInv'
  BY <1>1, <1>2, <1>3, <1>6, <1>7 DEF CrashInv, SwitchInv, Idle
<1> QED BY <1>1, <1>3, <1>8 DEF NoDrop

\* The steps of a reorganization that delete nothing, and the crash.
LEMMA QuietNoDrop ==
  ASSUME CrashInv, RollbackBlock \/ ReplayBlock \/ FinishReorg \/ Crash \/ UNCHANGED vars
  PROVE  CrashInv' /\ NoDrop
<1>1. tip # NoBlock => tip \in Block /\ Index[tip] \in Nat
  BY BlockTyped DEF CrashInv, MaybeBlock
<1>2. ASSUME RollbackBlock PROVE CrashInv' /\ NoDrop
  <2>1. /\ phase = "rollback" /\ UNCHANGED <<blocks, tip, chain_tip, recheck>>
        /\ \/ UNCHANGED <<phase, goal, base>>
           \/ phase' = "idle"
    BY <1>2 DEF RollbackBlock, db
  <2>2. SwitchInv /\ chain_tip = tip /\ tip # NoBlock
    BY <2>1, ConstantsTyped DEF CrashInv, SwitchInv
  <2>3. tip \in blocks
    BY <2>1, <2>2 DEF CrashInv
  <2> QED BY <1>1, <2>1, <2>2, <2>3
          DEF CrashInv, BlocksInv, SwitchInv, Idle, NoDrop
<1>3. ASSUME ReplayBlock PROVE CrashInv' /\ NoDrop
  BY <1>1, <1>3 DEF ReplayBlock, CrashInv, BlocksInv, SwitchInv, Idle, NoDrop
<1>4. ASSUME FinishReorg PROVE CrashInv' /\ NoDrop
  <2>1. /\ phase = "replay" /\ phase' = "idle" /\ tip' = goal /\ chain_tip' = goal
        /\ UNCHANGED <<blocks, recheck>>
    BY <1>4 DEF FinishReorg
  <2>2. SwitchInv
    BY <2>1 DEF CrashInv
  <2>3. goal \in blocks /\ goal \in Block /\ goal # NoBlock /\ Index[goal] \in Nat
        /\ tip \in Block /\ Index[tip] \in Nat /\ Index[goal] > Index[tip]
    BY <2>2, BlockTyped, ConstantsTyped DEF SwitchInv, CrashInv, BlocksInv
  <2> QED BY <2>1, <2>3 DEF CrashInv, BlocksInv, Idle, MaybeBlock, NoDrop
<1>5. ASSUME Crash PROVE CrashInv' /\ NoDrop
  BY <1>1, <1>5 DEF Crash, db, CrashInv, BlocksInv, Idle, MaybeBlock, NoDrop
<1>6. ASSUME UNCHANGED vars PROVE CrashInv' /\ NoDrop
  BY <1>1, <1>6 DEF vars, CrashInv, BlocksInv, SwitchInv, Idle, NoDrop
<1> QED BY <1>2, <1>3, <1>4, <1>5, <1>6

\* Blockchain::new and recover_tip.
LEMMA RestartNoDrop ==
  ASSUME CrashInv, Restart
  PROVE  CrashInv' /\ NoDrop
<1>1. phase' = "idle" /\ chain_tip' = tip' /\ UNCHANGED <<blocks, recheck>>
  BY DEF Restart
<1>2. CASE blocks = {}
  BY <1>1, <1>2 DEF Restart, CrashInv, BlocksInv, Idle, NoDrop
<1>3. CASE blocks # {}
  <2>2. tip # NoBlock /\ tip \in Block
    BY <1>3 DEF CrashInv, MaybeBlock
  <2>3. PICK b \in blocks : Index[b] >= Index[tip]
    BY <2>2 DEF CrashInv
  <2>4. tip' \in blocks /\ Index[tip'] >= Index[tip]
    BY <1>3, <2>2, <2>3, RecoveredHigher DEF Restart, CrashInv, BlocksInv
  <2>5. tip' \in Block /\ tip' # NoBlock /\ Index[tip'] \in Nat
    BY <2>4, BlockTyped, ConstantsTyped DEF CrashInv, BlocksInv
  <2> QED BY <1>1, <1>3, <2>4, <2>5 DEF CrashInv, BlocksInv, Idle, MaybeBlock, NoDrop
<1> QED BY <1>2, <1>3

\* Every step, a crash or a restart included, keeps the invariant and the height.
LEMMA CrashStep ==
  ASSUME CrashInv, SoundTree, [CrashNext]_vars
  PROVE  CrashInv' /\ NoDrop
<1>1. ASSUME NEW b \in Block, SubmitBlock(b) \/ ReceiveBlock(b) PROVE CrashInv' /\ NoDrop
  <2>1. InsertBlock(b) /\ recheck' \in MaybeBlock
    BY <1>1 DEF SubmitBlock, ReceiveBlock, CrashInv, MaybeBlock
  <2> QED BY <2>1, InsertNoDrop
<1>2. ASSUME NEW b \in Block, ReceiveForkBlock(b) PROVE CrashInv' /\ NoDrop
  <2>1. /\ Idle /\ chain_tip # NoBlock /\ HeaderAccepted(b) /\ blocks' = blocks \cup {b}
        /\ ReorganizeIfNeeded(b, blocks') /\ recheck' = recheck
    BY <1>2 DEF ReceiveForkBlock
  <2>2. tip # NoBlock /\ recheck' \in MaybeBlock
    BY <2>1 DEF CrashInv, Idle
  <2>3. BlocksInv'
    BY <2>1, StoreKeeps DEF CrashInv
  <2>4. blocks \subseteq blocks'
    BY <2>1
  <2> QED BY <2>1, <2>2, <2>3, <2>4, BeginNoDrop
<1>3. ASSUME RecheckReorg PROVE CrashInv' /\ NoDrop
  <2>1. /\ Idle /\ recheck \in Block /\ blocks' = blocks /\ recheck' \in MaybeBlock
        /\ ReorganizeIfNeeded(recheck, blocks')
    BY <1>3 DEF RecheckReorg, CrashInv, MaybeBlock
  <2>2. BlocksInv'
    BY <2>1 DEF CrashInv, BlocksInv
  <2>3. tip # NoBlock
    BY <1>3 DEF RecheckReorg, CrashInv
  <2> QED BY <2>1, <2>2, <2>3, BeginNoDrop
<1> QED BY <1>1, <1>2, <1>3, CommitNoDrop, QuietNoDrop, RestartNoDrop
        DEF CrashNext, Next, ReorgStep

\* The empty database satisfies it.
LEMMA CrashInit == Init => CrashInv
BY FS_EmptySet DEF Init, CrashInv, BlocksInv, Idle, MaybeBlock

-----------------------------------------------------------------------------
(* The properties *)

\* Whenever the node runs and no reorganization is under way, its tip is a stored
\* block and the same in the database and in memory, whatever crashes came before.
THEOREM TipSurvives ==
  ASSUME SoundTree
  PROVE  CrashSpec => []TipStored
<1>1. CrashInv /\ [CrashNext]_vars => CrashInv'
  BY CrashStep
<1>2. CrashInv => TipStored
  BY DEF CrashInv, TipStored, Idle
<1> QED BY <1>1, <1>2, CrashInit, PTL DEF CrashSpec

\* No step lowers the stored tip: no insertion, no batch of a reorganization, no
\* crash between two batches, no recovery of a stale tip and no restart.
THEOREM HeightSurvives ==
  ASSUME SoundTree
  PROVE  CrashSpec => HeightNeverDrops
<1>1. CrashInv /\ [CrashNext]_vars => CrashInv'
  BY CrashStep
<1>2. CrashInv /\ [CrashNext]_vars => [tip # NoBlock => Index[tip'] >= Index[tip]]_vars
  BY CrashStep DEF NoDrop
<1> QED BY <1>1, <1>2, CrashInit, PTL DEF CrashSpec, HeightNeverDrops
=============================================================================
