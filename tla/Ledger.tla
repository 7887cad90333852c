------------------------------- MODULE Ledger -------------------------------
(***************************************************************************)
(* The chain database of an Astram node: core/src/blockchain/mod.rs.       *)
(*                                                                         *)
(* Blockchain owns a RocksDB store with five kinds of keys (b:hash,        *)
(* t:txid, u:txid:vout, i:height and tip) and two fields in memory         *)
(* (chain_tip and difficulty).  Every call runs under the bc mutex, so a   *)
(* call is one action unless it writes more than one batch:                *)
(* reorganize_if_needed commits the rollback, every replayed block and the *)
(* new tip separately, and a crash may fall between two of these.          *)
(*                                                                         *)
(* A rejected block changes nothing, so a rejection is a stuttering step.  *)
(* A block that is only too far in the future is one that has not arrived  *)
(* yet.                                                                    *)
(***************************************************************************)
EXTENDS Integers, Sequences, FiniteSets, FiniteSetsExt

CONSTANTS
  Block,            \* the block hashes that may ever be delivered
  NoBlock,          \* no hash: None, or an absent key
  Genesis,          \* the block whose hash is the height-0 checkpoint
  Prev,             \* header.previous_hash, NoBlock if outside Block
  Index,            \* header.index
  Bits,             \* header.difficulty, the compact target
  KeyRank,          \* position of b:hash in the key order of the database
  HeaderOK,         \* hash, PoW, timestamps, 4x bound and merkle root pass: one
                    \* verdict, though validate_median_time_past looks at the
                    \* stored ancestors only and stops where one is missing
  Txs,              \* block.transactions; the first one is the coinbase
  Anc,              \* a block and its ancestors along Prev
  Value,            \* amount of every output, by outpoint <<txid, vout>>
  Reward,           \* block reward, by height
  BaseMinFee,       \* BASE_MIN_FEE
  FeePerByte,       \* MIN_RELAY_FEE_NAT_PER_BYTE
  PowLimitBits,     \* POW_LIMIT_BITS
  RetargetWindow,   \* RETARGET_WINDOW, 24
  Retarget(_),      \* DWG3: bits from the window of headers, newest first
  MaxReorgDepth,    \* max_reorg_depth, 100
  LatestCheckpoint, \* height of the last checkpoint
  StaleMinBlocks    \* number of blocks from which a tip can be stale, 100

(***************************************************************************)
(* A transaction is [id, ins, outs, size, auth]: ins and outs are sets of  *)
(* outpoints, and auth says that its signatures verify, that it names no   *)
(* input twice and that every input's public key owns the output it names. *)
(***************************************************************************)
Ins(b) == UNION {Txs[b][i].ins : i \in DOMAIN Txs[b]}
Outs(b) == UNION {Txs[b][i].outs : i \in DOMAIN Txs[b]}
TxIds(b) == {Txs[b][i].id : i \in DOMAIN Txs[b]}
Outpoint == UNION {Ins(b) \cup Outs(b) : b \in Block}
TxId == (UNION {TxIds(b) : b \in Block}) \cup {o[1] : o \in Outpoint}
Height == {Index[b] : b \in Block}
MaybeBlock == Block \cup {NoBlock}

ASSUME ConstantsTyped ==
  /\ NoBlock \notin Block
  /\ Genesis \in Block
  /\ Prev \in [Block -> MaybeBlock]
  /\ Index \in [Block -> Nat] /\ KeyRank \in [Block -> Nat]
  /\ HeaderOK \in [Block -> BOOLEAN]
  /\ Anc \in [Block -> SUBSET Block]
  /\ MaxReorgDepth \in Nat /\ LatestCheckpoint \in Nat
  /\ Index[Genesis] = 0
  /\ Prev[Genesis] = NoBlock
  /\ \A b \in Block : Len(Txs[b]) \in Nat /\ DOMAIN Txs[b] = 1..Len(Txs[b])
  /\ \A b \in Block : IsFiniteSet(Ins(b)) /\ IsFiniteSet(Outs(b))
  /\ \A o \in Outpoint : Value[o] \in Nat
  /\ \A h \in Height : Reward[h] \in Nat

\* Anc is what a walk along previous_hash visits.  A block hash commits to the
\* hash of its parent, so the walk never comes back to a block and ends.
ASSUME Ancestry ==
  /\ \A b \in Block :
       Anc[b] = {b} \cup (IF Prev[b] = NoBlock THEN {} ELSE Anc[Prev[b]])
  /\ \A b \in Block : \A c \in Anc[b] : Anc[c] \subseteq Anc[b]
  /\ \A b \in Block : Prev[b] # NoBlock => b \notin Anc[Prev[b]]
  /\ \A b \in Block : \A c, d \in Anc[b] : c \in Anc[d] \/ d \in Anc[c]
  /\ \A b \in Block : IsFiniteSet(Anc[b])

VARIABLES
  blocks,      \* keys b: present in the database
  txs,         \* keys t: present in the database
  utxo,        \* keys u: present in the database
  index,       \* i:height -> hash
  tip,         \* the key tip
  chain_tip,   \* Blockchain.chain_tip
  difficulty,  \* Blockchain.difficulty
  recheck,     \* inserted block whose reorganize_if_needed call is still due
  phase,       \* where reorganize_if_needed stands; "down" while not running
  goal,        \* new_block_hash of the reorganization under way
  base,        \* its common ancestor
  at,          \* cursor: next block to roll back, or last block replayed
  staged       \* the u: keys as the uncommitted rollback batch leaves them

db == <<blocks, txs, utxo, index, tip>>
reorg == <<phase, goal, base, at, staged>>
vars == <<blocks, txs, utxo, index, tip, chain_tip, difficulty, recheck,
          phase, goal, base, at, staged>>

-----------------------------------------------------------------------------
(* Block validation *)

\* validate_against_checkpoints: genesis is the only checkpoint.
CheckpointOK(b) == Index[b] = 0 => b = Genesis

\* The headers calculate_adjusted_difficulty reads: i:(h-1), ..., i:(h-W).
Window(h) == [k \in 1..RetargetWindow |-> index[h - k]]

\* One of those headers is missing: no entry i:, or an entry without its b:.
WindowIncomplete(h) ==
  \E k \in 1..RetargetWindow : h - k \notin Height \/ index[h - k] \notin blocks

\* calculate_adjusted_difficulty.
ExpectedBits(h) ==
  IF h < RetargetWindow \/ WindowIncomplete(h) THEN difficulty
  ELSE Retarget(Window(h))

\* The header checks that validate_and_insert_block and validate_fork_block
\* share; a failing parent check is "previous header not found".
HeaderAccepted(b) ==
  /\ HeaderOK[b]
  /\ CheckpointOK(b)
  /\ Index[b] > 0 => Bits[b] = ExpectedBits(Index[b]) /\ Prev[b] \in blocks

\* Output o is in block_utxos when transaction i of b is checked.
Pending(b, i, o) ==
  \E j \in 1..(i - 1) :
    o \in Txs[b][j].outs /\ \A k \in (j + 1)..(i - 1) : o \notin Txs[b][k].ins

\* Every input is an output of an earlier transaction of the block or in u.
InputsFound(b, u) ==
  \A i \in 2..Len(Txs[b]) : \A o \in Txs[b][i].ins : Pending(b, i, o) \/ o \in u

Total(S) == MapThenSumSet(LAMBDA o : Value[o], S)
Fee(tx) == Total(tx.ins) - Total(tx.outs)
MinFee(tx) == BaseMinFee + tx.size * FeePerByte
BlockFees(b) ==
  LET fees == [i \in 2..Len(Txs[b]) |-> Fee(Txs[b][i])]
  IN  MapThenSumSet(LAMBDA i : fees[i], DOMAIN fees)

\* What the transactions must satisfy whatever the UTXO set holds.
BodyOK(b) ==
  /\ Txs[b] # <<>>
  /\ Txs[b][1].ins = {}
  /\ \A i \in DOMAIN Txs[b] : Txs[b][i].auth
  /\ \A i \in 2..Len(Txs[b]) : Fee(Txs[b][i]) >= MinFee(Txs[b][i])
  /\ Total(Txs[b][1].outs) <= Reward[Index[b]] + BlockFees(b)

\* Mutants: vout counted from one; spent outputs kept.
InsertUtxo_VoutFromOne(b, u) == u \cup {<<o[1], o[2] + 1>> : o \in Outs(b)}
InsertUtxo_KeepSpent(b, u) == u \cup Outs(b)

\* The u: keys after the insertion batch.  Only an input read from the database
\* is deleted; one taken from block_utxos is put and never deleted.  The values
\* are left out: the address, which insertion stores in lower case and rollback
\* and replay store as it is spelled in the output, is not modelled.
InsertUtxo(b, u) ==
  {o \in u \cup Outs(b) :
     ~ \E i \in 2..Len(Txs[b]) :
         /\ o \in Txs[b][i].ins
         /\ ~ Pending(b, i, o)
         /\ \A j \in i..Len(Txs[b]) : o \notin Txs[b][j].outs}

-----------------------------------------------------------------------------
(* Rollback and replay of one block *)

\* A rollback goes through the transactions backwards; each one deletes its
\* outputs and puts back its inputs, so the earliest mention of a key decides.
Restored(b) ==
  {o \in Ins(b) :
     \E i \in DOMAIN Txs[b] :
       o \in Txs[b][i].ins /\ \A j \in 1..(i - 1) : o \notin Txs[b][j].outs}

\* Mutants: the spent outputs do not come back; the created ones stay.
RollbackUtxo_NoRestore(b, u) == u \ Outs(b)
RollbackUtxo_KeepOutputs(b, u) == u \cup Restored(b)

\* The u: keys a rollback leaves; an input that names no output of its
\* transaction is skipped.
Creatable == UNION {Outs(b) : b \in Block}
RollbackUtxo(b, u) == (u \ Outs(b)) \cup (Restored(b) \cap Creatable)

\* load_tx finds the transaction behind every input.
SpentTxsStored(b) == \A o \in Ins(b) : o[1] \in txs

\* Mutants: the outputs are not put; the inputs are not deleted.
ReplayUtxo_NoOutputs(b, u) == u \ Ins(b)
ReplayUtxo_KeepSpent(b, u) == u \cup Outs(b)

\* A replay goes forwards; each transaction puts its outputs and deletes its
\* inputs, so the latest mention of a key decides.
ReplayUtxo(b, u) ==
  {o \in u \cup Outs(b) :
     ~ \E i \in DOMAIN Txs[b] :
         o \in Txs[b][i].ins /\ \A j \in (i + 1)..Len(Txs[b]) : o \notin Txs[b][j].outs}

-----------------------------------------------------------------------------
(* Chain selection *)

\* Mutant: the first block of the scan.
Highest_FirstKey(B) == CHOOSE b \in B : \A c \in B : KeyRank[b] <= KeyRank[c]

\* recover_tip: greatest index; the scan keeps the first of equals.
Highest(B) ==
  CHOOSE b \in B : \A c \in B :
    \/ Index[c] < Index[b]
    \/ Index[c] = Index[b] /\ KeyRank[b] <= KeyRank[c]

\* Mutant: the lead must be two blocks.
MoreWork_ByTwo(new, cur) == Index[new] > Index[cur] + 1

\* calculate_chain_work is index + 1, as the header claims it, and more work wins.
MoreWork(new, cur) == Index[new] > Index[cur]

\* A tip that reorganize_if_needed finds suspiciously low and recovers first.
StaleTip(B) ==
  /\ Cardinality(B) > StaleMinBlocks
  /\ Index[chain_tip] + 1 < Cardinality(B) \div 2

\* Blocks that find_common_ancestor reaches from b without leaving the database.
Walk(B, b) == {c \in Anc[b] : {d \in Anc[b] : c \in Anc[d]} \subseteq B}

\* Mutant: any common block.
IsForkPoint_Any(B, cur, new, a) == a \in Walk(B, cur) \cap Walk(B, new)

\* a is the first block of the walk from new that is on the walk from cur.
IsForkPoint(B, cur, new, a) ==
  /\ a \in Walk(B, cur) \cap Walk(B, new)
  /\ \A c \in Walk(B, cur) \cap Walk(B, new) : c \in Anc[a]

\* Mutant: one block too many.
DepthOK_OneMore(cur, a) == Index[cur] - Index[a] <= MaxReorgDepth + 1

\* validate_reorg_depth and check_reorg_against_checkpoints.
DepthOK(cur, a) ==
  /\ Index[cur] - Index[a] <= MaxReorgDepth
  /\ Index[a] >= LatestCheckpoint

Idle == phase = "idle"
NoReorg == goal' = NoBlock /\ base' = NoBlock /\ at' = NoBlock /\ staged' = {}

\* reorganize_if_needed(b) up to the rollback, with B the stored blocks.
ReorganizeIfNeeded(b, B) ==
  LET cur == IF StaleTip(B) THEN Highest(B) ELSE chain_tip
      CanSwitchAt(a) == IsForkPoint(B, cur, b, a) /\ DepthOK(cur, a)
  IN  /\ chain_tip' = cur
      /\ tip' = IF StaleTip(B) THEN cur ELSE tip
      /\ \/ /\ MoreWork(b, cur)
            /\ \E a \in B : CanSwitchAt(a) /\ base' = a
            /\ phase' = "rollback"
            /\ goal' = b
            /\ at' = cur
            /\ staged' = utxo
         \/ /\ ~ MoreWork(b, cur) \/ ~ \E a \in B : CanSwitchAt(a)
            /\ UNCHANGED reorg

-----------------------------------------------------------------------------
(* Operations *)

\* The tip that validate_and_insert_block compares with: a tip whose block is
\* gone is recovered first.
TipForInsert == IF chain_tip \in blocks THEN chain_tip ELSE Highest(blocks)

\* The batch of validate_and_insert_block.
InsertBlock(b) ==
  /\ Idle
  /\ b \notin blocks
  /\ HeaderAccepted(b)
  /\ Index[b] > 0 /\ chain_tip # NoBlock => Prev[b] = TipForInsert
  /\ BodyOK(b) /\ InputsFound(b, utxo)
  /\ blocks' = blocks \cup {b}
  /\ txs' = txs \cup TxIds(b)
  /\ utxo' = InsertUtxo(b, utxo)
  /\ index' = [index EXCEPT ![Index[b]] = b]
  /\ tip' = b
  /\ chain_tip' = b
  /\ difficulty' = Bits[b]
  /\ UNCHANGED reorg

\* POST /mining/submit.
SubmitBlock(b) == InsertBlock(b) /\ UNCHANGED recheck

\* The P2P block processor takes b from its queue and inserts it.  It then
\* gives up the lock and calls reorganize_if_needed(b) when it has it again.
ReceiveBlock(b) == recheck = NoBlock /\ InsertBlock(b) /\ recheck' = b

\* That second call.
RecheckReorg ==
  /\ Idle
  /\ recheck # NoBlock
  /\ recheck' = NoBlock
  /\ ReorganizeIfNeeded(recheck, blocks)
  /\ UNCHANGED <<blocks, txs, utxo, index, difficulty>>

\* "fork detected": the processor stores the block with validate_fork_block and
\* calls reorganize_if_needed under the same lock.
ReceiveForkBlock(b) ==
  /\ Idle
  /\ recheck = NoBlock
  /\ b \notin blocks
  /\ HeaderAccepted(b)
  /\ Index[b] > 0 /\ chain_tip # NoBlock /\ Prev[b] # TipForInsert
  /\ blocks' = blocks \cup {b}
  /\ txs' = txs \cup TxIds(b)
  /\ ReorganizeIfNeeded(b, blocks \cup {b})
  /\ UNCHANGED <<utxo, index, difficulty, recheck>>

\* Mutant: the cursor stays where it is.
RollbackBlock_NoAdvance ==
  /\ phase = "rollback" /\ at # base
  /\ staged' = RollbackUtxo(at, staged)
  /\ UNCHANGED <<db, chain_tip, difficulty, recheck, phase, goal, base, at>>

\* rollback_blocks, one block added to the batch; an unknown spent transaction
\* drops the batch and ends the call.
RollbackBlock ==
  /\ phase = "rollback" /\ at # base
  /\ \/ /\ SpentTxsStored(at)
        /\ staged' = RollbackUtxo(at, staged)
        /\ at' = Prev[at]
        /\ UNCHANGED <<phase, goal, base>>
     \/ /\ ~ SpentTxsStored(at)
        /\ phase' = "idle"
        /\ NoReorg
  /\ UNCHANGED <<db, chain_tip, difficulty, recheck>>

\* Mutant: the common ancestor is rolled back too.
RolledBack_WithBase == (Anc[chain_tip] \ Anc[base]) \cup {base}

\* The blocks that leave the main chain.
RolledBack == Anc[chain_tip] \ Anc[base]

\* rollback_blocks writes its batch.
CommitRollback ==
  /\ phase = "rollback" /\ at = base
  /\ blocks' = blocks \ RolledBack
  /\ txs' = txs \ (UNION {TxIds(b) : b \in RolledBack})
  /\ utxo' = staged
  /\ index' = [h \in Height |->
                 IF \E b \in RolledBack : Index[b] = h THEN NoBlock ELSE index[h]]
  /\ phase' = "replay"
  /\ staged' = {}
  /\ UNCHANGED <<tip, chain_tip, difficulty, recheck, goal, base, at>>

\* replay_blocks writes the batch of the next block towards the goal.
ReplayBlock ==
  /\ phase = "replay" /\ at # goal
  /\ \E b \in Anc[goal] :
       /\ Prev[b] = at
       /\ utxo' = ReplayUtxo(b, utxo)
       /\ index' = [index EXCEPT ![Index[b]] = b]
       /\ at' = b
  /\ UNCHANGED <<blocks, txs, tip, chain_tip, difficulty, recheck,
                 phase, goal, base, staged>>

\* The new tip is written and the call returns.
FinishReorg ==
  /\ phase = "replay" /\ at = goal
  /\ tip' = goal
  /\ chain_tip' = goal
  /\ difficulty' = Bits[goal]
  /\ phase' = "idle"
  /\ NoReorg
  /\ UNCHANGED <<blocks, txs, utxo, index, recheck>>

\* The process ends between two batches.
Crash ==
  /\ phase # "down"
  /\ phase' = "down"
  /\ NoReorg
  /\ chain_tip' = NoBlock
  /\ difficulty' = PowLimitBits
  /\ recheck' = NoBlock
  /\ UNCHANGED db

\* Mutant: the tip of the database is believed.
Restart_NoRecovery ==
  /\ phase = "down"
  /\ phase' = "idle"
  /\ difficulty' = IF tip \in blocks THEN Bits[tip] ELSE PowLimitBits
  /\ chain_tip' = tip
  /\ UNCHANGED <<db, recheck, goal, base, at, staged>>

\* Blockchain::new, and the recover_tip that main always runs on a database
\* with blocks.
Restart ==
  /\ phase = "down"
  /\ phase' = "idle"
  /\ difficulty' = IF tip \in blocks THEN Bits[tip] ELSE PowLimitBits
  /\ tip' = IF blocks = {} THEN tip ELSE Highest(blocks)
  /\ chain_tip' = IF blocks = {} THEN tip ELSE Highest(blocks)
  /\ UNCHANGED <<blocks, txs, utxo, index, recheck, goal, base, at, staged>>

-----------------------------------------------------------------------------
(* Specification *)

Init ==
  /\ blocks = {} /\ txs = {} /\ utxo = {}
  /\ index = [h \in Height |-> NoBlock]
  /\ tip = NoBlock /\ chain_tip = NoBlock
  /\ difficulty = PowLimitBits
  /\ recheck = NoBlock
  /\ phase = "idle"
  /\ goal = NoBlock /\ base = NoBlock /\ at = NoBlock
  /\ staged = {}

ReorgStep == RollbackBlock \/ CommitRollback \/ ReplayBlock \/ FinishReorg

Next ==
  \/ \E b \in Block : SubmitBlock(b) \/ ReceiveBlock(b) \/ ReceiveForkBlock(b)
  \/ RecheckReorg
  \/ ReorgStep

Spec == Init /\ [][Next]_vars

\* The thread that reorganizes holds the lock and keeps running.
FairSpec == Spec /\ WF_vars(ReorgStep)

CrashNext == Next \/ Crash \/ Restart
CrashSpec == Init /\ [][CrashNext]_vars

-----------------------------------------------------------------------------
(* What the tree of blocks says, whatever order its blocks arrive in *)

\* The coins of the chain that ends in b: what it creates and does not spend.
UnspentOn(b) ==
  (UNION {Outs(c) : c \in Anc[b]}) \ (UNION {Ins(c) : c \in Anc[b]})

\* Outputs created and spent by one and the same block of that chain.
ChainedOn(b) == UNION {Ins(c) \cap Outs(c) : c \in Anc[b]}

\* A body that fits its branch: what it takes from outside the block is unspent
\* on the branch, an output of the block is spent after it is created and by one
\* transaction only, and no outpoint is created a second time.  Two transactions
\* may take the same coin of the branch: used_utxos is per transaction and the
\* database is read as it is before the batch.
SoundBody(b) ==
  LET Before == Anc[b] \ {b}
      Created == UNION {Outs(c) : c \in Before}
      Spent == UNION {Ins(c) : c \in Before}
      T == DOMAIN Txs[b]
  IN  /\ Ins(b) \ Outs(b) \subseteq Created \ Spent
      /\ Outs(b) \cap (Created \cup Spent) = {}
      /\ \A i, j \in T : i # j =>
            /\ Txs[b][i].ins \cap Txs[b][j].ins \cap Outs(b) = {}
            /\ Txs[b][i].outs \cap Txs[b][j].outs = {}
      /\ \A i, j \in T : i <= j => Txs[b][i].ins \cap Txs[b][j].outs = {}
      /\ \A i \in T : Txs[b][i].ins # {} => i > 1

\* Every block with an acceptable header has such a body and an index above its
\* ancestors'.  This is assumed of the blocks that are sent: the code compares no
\* index with the parent's, refuses no repeated txid, and takes the bodies of
\* fork blocks as they come.  Indexes may skip heights, bodies may fail BodyOK,
\* and nothing is assumed of the order, repetition or loss of blocks.
SoundTree ==
  \A b \in Block : HeaderOK[b] =>
    /\ \A c \in Anc[b] \ {b} : Index[c] < Index[b]
    /\ SoundBody(b)

\* The stale-tip recovery of reorganize_if_needed does not trigger, now or when one
\* more block is stored.
NeverStale == \A b \in Block : chain_tip # NoBlock => ~ StaleTip(blocks \cup {b})

-----------------------------------------------------------------------------
(* Properties *)

\* Every variable has its type: the database keys, the fields of Blockchain and
\* the locals of reorganize_if_needed.
TypeOK ==
  /\ blocks \subseteq Block
  /\ txs \subseteq TxId
  /\ utxo \subseteq Outpoint
  /\ index \in [Height -> MaybeBlock]
  /\ {tip, chain_tip, recheck, goal, base, at} \subseteq MaybeBlock
  /\ difficulty \in {Bits[b] : b \in Block} \cup {PowLimitBits}
  /\ phase \in {"idle", "rollback", "replay", "down"}
  /\ staged \subseteq Outpoint

\* While no reorganization is under way the node holds the whole chain of its
\* tip, from genesis: rollback_blocks never deletes a block the new chain needs.
TipChainStored ==
  Idle /\ chain_tip # NoBlock => Anc[chain_tip] \subseteq blocks

\* The UTXO set is that of the tip's chain, however many blocks insert, rollback
\* and replay have gone through: no coin of the chain is missing, and a spent
\* output is left only if the block that created it also spent it.
UtxoMatchesTip ==
  Idle /\ chain_tip # NoBlock =>
    /\ UnspentOn(chain_tip) \subseteq utxo
    /\ utxo \subseteq UnspentOn(chain_tip) \cup ChainedOn(chain_tip)

\* The height index lists exactly the blocks of the tip's chain, each at its own
\* height: the deletions of a rollback and the puts of a replay leave no entry
\* of an abandoned branch behind.
IndexIsChain ==
  Idle /\ chain_tip # NoBlock =>
    \A b \in Block : index[Index[b]] = b <=> b \in Anc[chain_tip]

\* A block on the tip whose body fits its branch is never refused with "referenced
\* utxo not found", whatever reorganizations came before.
SoundChildAccepted ==
  Idle /\ chain_tip # NoBlock =>
    \A b \in Block :
      HeaderOK[b] /\ Prev[b] = chain_tip /\ SoundBody(b) => InputsFound(b, utxo)

\* The stored tip is the block of a chain the node holds in memory too, so the
\* recovery inside validate_and_insert_block has nothing to recover.
TipStored ==
  Idle /\ chain_tip # NoBlock => chain_tip \in blocks /\ tip = chain_tip

\* The height of the stored tip never goes down: not by an insertion, not by a
\* reorganization, not by a crash at any point of one and the recovery after it.
HeightNeverDrops == [][tip # NoBlock => Index[tip'] >= Index[tip]]_vars

\* A change of tip abandons at most max_reorg_depth blocks of the old chain.
ReorgDepthBounded ==
  [][tip # NoBlock /\ tip' # tip =>
       \E a \in Anc[tip] \cap Anc[tip'] :
         Index[tip] - Index[a] <= MaxReorgDepth]_vars

\* A stored chain that is longer than the tip's, and that the depth limit allows
\* to switch to, has been switched to by the time the processor is idle.
BestChainWins ==
  Idle /\ recheck = NoBlock /\ chain_tip # NoBlock =>
    ~ \E b \in blocks, a \in blocks :
        /\ Index[b] > Index[chain_tip]
        /\ IsForkPoint(blocks, chain_tip, b, a)
        /\ DepthOK(chain_tip, a)

\* Exactly the keys of the unspent outputs are stored, so that a balance sums over
\* the right outputs.
UtxoExact == Idle /\ chain_tip # NoBlock => utxo = UnspentOn(chain_tip)

\* What a block takes a second time, with another of its transactions.
Respent(b) ==
  LET taken == [i \in DOMAIN Txs[b] |-> Total(Txs[b][i].ins)]
  IN  MapThenSumSet(LAMBDA i : taken[i], DOMAIN taken) - Total(Ins(b))

\* What a block may add to the coins in the database: its reward, the coins that
\* two of its transactions take, and the outputs it creates and spends, whose keys
\* an insertion leaves behind.
Issue(b) == Reward[Index[b]] + Respent(b) + Total(Ins(b) \cap Outs(b))

\* On a chain whose bodies pass the checks (those of fork blocks are not checked)
\* the coins in the database are worth no more than was issued along the chain:
\* no sequence of insertions, rollbacks and replays adds another coin.
SupplyBounded ==
  Idle /\ chain_tip # NoBlock /\ (\A b \in Anc[chain_tip] : BodyOK(b)) =>
    LET issued == [b \in Anc[chain_tip] |-> Issue(b)]
    IN  Total(utxo) <= MapThenSumSet(LAMBDA b : issued[b], DOMAIN issued)

\* The chain of the tip can be left again: every block of it still finds its
\* transactions and those it spends from under t:, which a rollback deletes and
\* a replay does not put back.
ChainReversible ==
  Idle /\ chain_tip # NoBlock =>
    \A b \in Anc[chain_tip] : SpentTxsStored(b) /\ TxIds(b) \subseteq txs

\* A reorganization, once begun, ends: it reaches the new tip or gives up.
ReorgTerminates == phase = "rollback" ~> Idle

-----------------------------------------------------------------------------
(* Refinement *)

\* The unspent outputs a caller finds once it has the lock.  The thread that
\* reorganizes keeps the lock, so nobody reads the tables in between.
VisibleCoins ==
  IF chain_tip = NoBlock THEN {}
  ELSE IF Idle THEN utxo \ ChainedOn(chain_tip)
  ELSE UnspentOn(chain_tip)

Abstract == INSTANCE AbstractLedger
              WITH head <- chain_tip, coins <- VisibleCoins, Coins <- UnspentOn

\* The database behaves like one best chain and its coins, exchanged as a whole:
\* insertion, rollback and replay of single blocks are not visible.
ImplementsAbstract == Abstract!Spec
=============================================================================
