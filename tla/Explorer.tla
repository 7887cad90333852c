------------------------------ MODULE Explorer ------------------------------
(***************************************************************************)
(* The explorer's index: sync_blockchain (main.rs), what it extracts from  *)
(* the node's blocks (rpc.rs), the database it writes (db.rs) and the HTTP *)
(* handler that computes the record of an address beside it (handlers.rs). *)
(* Every batch that a pass or a request writes is an action of its own;    *)
(* the writes of a start are one action.                                   *)
(*                                                                         *)
(* The node is its main chain, a sequence of blocks that a request reads   *)
(* under the bc lock.  Inputs and outputs of a transaction are fixed, so   *)
(* the address and the amount under an eu: key are those of its outpoint.  *)
(***************************************************************************)
EXTENDS Integers, Sequences, FiniteSets, FiniteSetsExt, SequencesExt

CONSTANTS
  Chains,       \* chains of blocks, from the genesis block on, the node may adopt
  BlockTxs,     \* the transactions of a block, in order
  Inputs,       \* the outpoints <<txid, vout>> a transaction spends
  Outputs,      \* its outputs, a sequence of records [to, amount]
  Sender,       \* the address of the key of its first input
  Estimate,     \* the fee estimated from its size
  Reward,       \* the name "Block_Reward"
  Several,      \* stands for the names "N recipients" and "N outputs"
  Queried,      \* addresses that HTTP clients ask for
  OldHeight,    \* last_synced of a database written by an older version
  MaxReorgs,    \* bound on reorganizations of the node
  MaxFaults     \* bound on restarts and errors together

Block == UNION {Range(c) : c \in Chains}
Tx == UNION {Range(BlockTxs[b]) : b \in Block}
Outpoint == UNION {{<<t, v>> : v \in DOMAIN Outputs[t]} : t \in Tx}
Out(o) == Outputs[o[1]][o[2]]
Address ==
  {Reward, Several} \cup Queried \cup {Out(o).to : o \in Outpoint} \cup {Sender[t] : t \in Tx}
Value(S) ==
  LET amount == [o \in S |-> Out(o).amount] IN MapThenSumSet(LAMBDA o : amount[o], S)
Created(T) == {o \in Outpoint : o[1] \in T}
Spent(T) == UNION {Inputs[t] : t \in T}
TxsIn(b) == Range(BlockTxs[b])
TxsOf(c) == UNION {TxsIn(c[i]) : i \in DOMAIN c}
Unspent(c) == Created(TxsOf(c)) \ Spent(TxsOf(c))

ASSUME ConstantsTyped ==
  /\ \A c \in Chains : c \in Seq(Block) /\ Len(c) > 0
  /\ IsFiniteSet(Tx)
  /\ \A b \in Block : BlockTxs[b] \in Seq(Tx) /\ Len(BlockTxs[b]) > 0
  /\ \A t \in Tx : /\ Inputs[t] \subseteq Outpoint
                   /\ Outputs[t] \in Seq([to : Address, amount : Nat])
                   /\ Estimate[t] \in Nat
  /\ OldHeight \in Nat \ {0}
  /\ MaxReorgs \in Nat /\ MaxFaults \in Nat

\* What the node has checked: a block has one height, and in a chain every
\* transaction is in one block and spends no output of a later one.
ASSUME ChainsValid ==
  /\ \A c, d \in Chains : \A i \in DOMAIN c, j \in DOMAIN d : c[i] = d[j] => i = j
  /\ \A c \in Chains : \A i, j \in DOMAIN c :
       i < j => /\ TxsIn(c[i]) \cap TxsIn(c[j]) = {}
                /\ Spent(TxsIn(c[i])) \cap Created(TxsIn(c[j])) = {}

VARIABLES
  chain,    \* the node's main chain
  blocks,   \* b: keys, the block stored at a height
  byHash,   \* bh: keys
  txs,      \* t: keys, and the ta: keys that follow from them
  listed,   \* ti: and tb: keys, as pairs of block and transaction
  eu,       \* eu: keys
  eur,      \* eur: keys
  addr,     \* addr: keys
  meta,     \* meta: keys
  pass,     \* the pass of sync_blockchain
  upd,      \* update_address_info of the pass and of an HTTP request
  writer,   \* who wrote the record of an address last: a pass, a request, an older version
  lost,     \* errors that the pass has logged and passed over
  reorgs,
  faults

tables == <<blocks, byHash, txs, listed, eu, eur, addr, meta>>
counts == <<writer, lost, reorgs, faults>>
vars == <<chain, blocks, byHash, txs, listed, eu, eur, addr, meta, pass, upd,
          writer, lost, reorgs, faults>>

Idle == [step |-> "idle"]
Empty == [x \in {} |-> x]
Put(f, k, v) == [x \in DOMAIN f \cup {k} |-> IF x = k THEN v ELSE f[x]]
Pick(S) == CHOOSE x \in S : TRUE
HeightOf(b) == Pick(UNION {{i - 1 : i \in {j \in DOMAIN c : c[j] = b}} : c \in Chains})

-----------------------------------------------------------------------------
(* What is extracted from the blocks of a pass *)

\* Outputs to others than the sender; a coinbase has no sender.
Transfers(t) == {v \in DOMAIN Outputs[t] : Inputs[t] = {} \/ Outputs[t][v].to # Sender[t]}
OutputSum(t) == Value({<<t, v>> : v \in DOMAIN Outputs[t]})

\* The sole recipient; the sole output if all of them go to the sender.
Recipient(t) ==
  LET S == IF Transfers(t) = {} THEN DOMAIN Outputs[t] ELSE Transfers(t)
  IN  IF Cardinality(S) = 1 THEN Outputs[t][Pick(S)].to ELSE Several

Amount(t) ==
  IF Transfers(t) = {} THEN OutputSum(t) ELSE Value({<<t, v>> : v \in Transfers(t)})

\* Only inputs that were created in the blocks of the same pass are known.
FeeOf(t, known) ==
  CASE Inputs[t] = {} -> 0
    [] Inputs[t] # {} /\ Value(known) >= OutputSum(t) -> Value(known) - OutputSum(t)
    [] Value(known) < OutputSum(t) /\ known # Inputs[t] -> Estimate[t]
    [] OTHER -> 0

\* extract_transactions, for transaction t of block b in a pass over the
\* transactions T.
TransactionInfo(b, t, T) ==
  LET known == Inputs[t] \cap Created(T)
      fee == FeeOf(t, known)
  IN  [block |-> b,
       from |-> IF Inputs[t] = {} THEN Reward ELSE Sender[t],
       to |-> Recipient(t),
       amount |-> Amount(t),
       fee |-> fee,
       total |-> IF Value(known) > 0 THEN Value(known) ELSE OutputSum(t) + fee]

\* Mutant: only recipients.
Touches_Recipient(info) == {info.to}

\* Addresses whose records a transaction makes the pass compute.
Touches(info) == {info.from, info.to}

\* The blocks of a chain from height h on.
BlocksFrom(c, h) == SubSeq(c, h + 1, Len(c))

\* The extracted list has the transactions of the blocks one after the other: what
\* is at a position <<block, transaction>> of it, and the position that follows.
TxAt(c, at) == <<c[at[1]], BlockTxs[c[at[1]]][at[2]]>>
After(c, at) ==
  IF at[2] < Len(BlockTxs[c[at[1]]]) THEN <<at[1], at[2] + 1>> ELSE <<at[1] + 1, 1>>

-----------------------------------------------------------------------------
(* The database at a start *)

SumAmounts(f, T) ==
  LET amount == [t \in T |-> f[t].amount] IN MapThenSumSet(LAMBDA t : amount[t], T)
Rewards(f) == {t \in DOMAIN f : f[t].from = Reward}

\* initialize_metadata: counters that are missing are computed from the keys.  The
\* code writes them one after the other and tests each, or a flag of its own, before;
\* a start that is cut short is left out, the next one writes what is missing.
InitializeMetadata(m, b, t, a) ==
  LET last == IF DOMAIN b = {} THEN 0 ELSE Max(DOMAIN b)
      scan == last > 0 /\ (m.blocks = 0 \/ m.last = -1)
  IN  [m EXCEPT !.blocks = IF scan THEN Cardinality(DOMAIN b) ELSE m.blocks,
                !.last = IF scan THEN last ELSE m.last,
                !.txs = IF m.txs = 0 THEN Cardinality(DOMAIN t) ELSE m.txs,
                !.supply = IF m.migrated THEN m.supply ELSE SumAmounts(t, Rewards(t)),
                !.addrs = IF m.migrated THEN m.addrs ELSE Cardinality(DOMAIN a),
                !.volume = IF m.migrated THEN m.volume ELSE SumAmounts(t, DOMAIN t),
                !.migrated = TRUE]

NoMeta == [blocks |-> 0, last |-> -1, txs |-> 0, volume |-> 0, supply |-> 0,
           addrs |-> 0, synced |-> 0, migrated |-> FALSE]

\* A record as older versions computed it, from the transactions alone.
TxsOfAddress(f, a) == {t \in DOMAIN f : a \in {f[t].from, f[t].to}}
SentBy(f, a) ==
  LET T == {t \in DOMAIN f : f[t].from = a}
      paid == [t \in T |-> f[t].amount + f[t].fee]
  IN  MapThenSumSet(LAMBDA t : paid[t], T)
ReceivedBy(f, a) == SumAmounts(f, {t \in DOMAIN f : f[t].to = a})

\* Mutant: the subtraction is not guarded.
Positive_Unguarded(n) == n

Positive(n) == IF n > 0 THEN n ELSE 0

Fresh ==
  /\ blocks = Empty /\ byHash = {} /\ txs = Empty /\ listed = {} /\ addr = Empty
  /\ meta = InitializeMetadata(NoMeta, Empty, Empty, Empty)

\* An older version has indexed the chain up to OldHeight: it kept no UTXO
\* data and no time index, and its counters are missing, or as in the code
\* that corrects them, block_count is a height plus one.
Upgraded ==
  LET old == SubSeq(chain, 1, OldHeight + 1)
      T == TxsOf(old)
      BlockWith(t) == CHOOSE b \in Range(old) : t \in Range(BlockTxs[b])
  IN  /\ Len(chain) > OldHeight
      /\ blocks = [h \in 0..OldHeight |-> chain[h + 1]]
      /\ byHash = Range(old)
      /\ txs = [t \in T |-> TransactionInfo(BlockWith(t), t, T)]
      /\ listed = {<<BlockWith(t), t>> : t \in T}
      /\ addr = [a \in UNION {Touches(txs[t]) : t \in T} |->
           [balance |-> Positive(ReceivedBy(txs, a) - SentBy(txs, a)), sent |-> SentBy(txs, a),
            received |-> ReceivedBy(txs, a), count |-> Cardinality(TxsOfAddress(txs, a))]]
      /\ \E kept \in {[NoMeta EXCEPT !.synced = OldHeight],
                      [NoMeta EXCEPT !.synced = OldHeight, !.blocks = OldHeight + 2,
                                     !.txs = Cardinality(T)]} :
           meta = InitializeMetadata(kept, blocks, txs, addr)

Init ==
  /\ \E c \in Chains : \E n \in {1, OldHeight + 1} \cap DOMAIN c : chain = SubSeq(c, 1, n)
  /\ Fresh \/ Upgraded
  /\ eu = {} /\ eur = {}
  /\ pass = Idle
  /\ upd = [p \in {"sync", "http"} |-> Idle]
  /\ writer = [a \in DOMAIN addr |-> "old"]
  /\ lost = 0 /\ reorgs = 0 /\ faults = 0

-----------------------------------------------------------------------------
(* The node *)

NodeExtends ==
  /\ \E d \in Chains : /\ Len(d) > Len(chain)
                       /\ IsPrefix(chain, d)
                       /\ chain' = SubSeq(d, 1, Len(chain) + 1)
  /\ UNCHANGED <<tables, pass, upd, counts>>

NodeReorganizes ==
  /\ reorgs < MaxReorgs
  /\ reorgs' = reorgs + 1
  /\ \E d \in Chains : /\ Len(d) > Len(chain)
                       /\ ~ IsPrefix(chain, d)
                       /\ chain' = SubSeq(d, 1, Len(chain) + 1)
  /\ UNCHANGED <<tables, pass, upd, writer, lost, faults>>

-----------------------------------------------------------------------------
(* A pass of sync_blockchain *)

Fault == faults < MaxFaults /\ faults' = faults + 1

\* Mutant: it goes on where it was.
SyncedHeight_Kept == meta.synced

\* An index without UTXO data starts again.
SyncedHeight == IF eu = {} THEN 0 ELSE meta.synced

\* The blocks a pass asks for: all of them, or those after the last pass.
Fetched == IF SyncedHeight = 0 THEN chain ELSE BlocksFrom(chain, SyncedHeight + 1)

Fetch ==
  /\ pass = Idle
  /\ meta' = [meta EXCEPT !.synced = SyncedHeight]
  /\ pass' = IF Fetched = << >> THEN Idle
             ELSE [step |-> "blocks", from |-> SyncedHeight, got |-> Fetched, next |-> 1]
  /\ UNCHANGED <<chain, blocks, byHash, txs, listed, eu, eur, addr, upd, counts>>

\* No answer, or one without blocks.
FetchFails ==
  /\ pass = Idle
  /\ Fault
  /\ meta' = [meta EXCEPT !.synced = SyncedHeight]
  /\ UNCHANGED <<chain, blocks, byHash, txs, listed, eu, eur, addr, pass, upd,
                 writer, lost, reorgs>>

IsNewBlock(b) == HeightOf(b) \notin DOMAIN blocks

\* save_block.
SaveBlock ==
  /\ pass.step = "blocks"
  /\ LET b == pass.got[pass.next]
         h == HeightOf(b)
     IN  /\ blocks' = Put(blocks, h, b)
         /\ byHash' = byHash \cup {b}
         /\ meta' = [meta EXCEPT !.blocks = IF IsNewBlock(b) THEN @ + 1 ELSE @,
                                 !.last = IF h >= @ THEN h ELSE @]
  /\ pass' = IF pass.next < Len(pass.got) THEN [pass EXCEPT !.next = @ + 1]
             ELSE [pass EXCEPT !.step = "utxo"]
  /\ UNCHANGED <<chain, txs, listed, eu, eur, addr, upd, counts>>

\* Mutant: the reverse index is not consulted.
SpentKeys_OfPass(T) == Spent(T) \cap Created(T)

\* The eu: keys to delete: the address is known from the same pass, or the
\* reverse index gives it.
SpentKeys(T) == Spent(T) \cap (Created(T) \cup eur)

\* The pass goes on with the transactions.
ToTransactions ==
  pass' = [step |-> "txs", from |-> pass.from, got |-> pass.got, at |-> <<1, 1>>,
           touched |-> {}]

\* apply_utxo_changes, one batch: all that is created, then all that is spent.
ApplyUtxoChanges ==
  LET T == TxsOf(pass.got)
  IN  /\ pass.step = "utxo"
      /\ eu' = (eu \cup Created(T)) \ SpentKeys(T)
      /\ eur' = (eur \cup Created(T)) \ Spent(T)
      /\ ToTransactions
      /\ UNCHANGED <<chain, blocks, byHash, txs, listed, addr, meta, upd, counts>>

\* Its error is logged and the pass goes on.
UtxoChangesLost ==
  /\ pass.step = "utxo"
  /\ Fault
  /\ lost' = lost + 1
  /\ ToTransactions
  /\ UNCHANGED <<chain, tables, upd, writer, reorgs>>

\* Mutant: a transaction that is saved again counts again.
IsNewTx_Always(t) == TRUE

IsNewTx(t) == t \notin DOMAIN txs

\* save_transaction.
SaveTransaction ==
  /\ pass.step = "txs"
  /\ LET b == TxAt(pass.got, pass.at)[1]
         t == TxAt(pass.got, pass.at)[2]
         next == After(pass.got, pass.at)
         info == TransactionInfo(b, t, TxsOf(pass.got))
         touched == pass.touched \cup Touches(info)
     IN  /\ txs' = Put(txs, t, info)
         /\ listed' = listed \cup {<<b, t>>}
         /\ meta' = IF ~ IsNewTx(t) THEN meta
                    ELSE [meta EXCEPT !.txs = @ + 1,
                                      !.volume = @ + info.amount,
                                      !.supply = IF info.from = Reward THEN @ + info.amount
                                                 ELSE @]
         /\ pass' = IF next[1] <= Len(pass.got)
                    THEN [pass EXCEPT !.at = next, !.touched = touched]
                    ELSE [step |-> "addrs", from |-> pass.from, got |-> pass.got,
                          touched |-> touched]
  /\ UNCHANGED <<chain, blocks, byHash, eu, eur, addr, upd, counts>>

LatestHeight(got) == Max({HeightOf(b) : b \in Range(got)})

\* set_last_synced_height, once every address is done.
Finish ==
  /\ pass.step = "addrs" /\ pass.touched = {} /\ upd["sync"] = Idle
  /\ meta' = [meta EXCEPT !.synced = LatestHeight(pass.got)]
  /\ pass' = Idle
  /\ UNCHANGED <<chain, blocks, byHash, txs, listed, eu, eur, addr, upd, counts>>

\* A write fails: the pass ends and the next one begins where it began.
PassFails ==
  /\ pass.step \in {"blocks", "txs"} \/ (pass.step = "addrs" /\ pass.touched = {})
  /\ upd["sync"] = Idle
  /\ Fault
  /\ pass' = Idle
  /\ UNCHANGED <<chain, tables, upd, writer, lost, reorgs>>

\* The process ends and starts again.
Restart ==
  /\ Fault
  /\ meta' = InitializeMetadata(meta, blocks, txs, addr)
  /\ pass' = Idle
  /\ upd' = [p \in {"sync", "http"} |-> Idle]
  /\ UNCHANGED <<chain, blocks, byHash, txs, listed, eu, eur, addr, writer, lost, reorgs>>

-----------------------------------------------------------------------------
(* update_address_info, called by a pass and by an HTTP request *)

\* get_balance_from_utxos.  The scan of the transactions before it is taken at the same
\* instant; no property relates the two.
BalanceOf(a) == Value({o \in eu : Out(o).to = a})

AddressInfo(a) ==
  [balance |-> BalanceOf(a), sent |-> SentBy(txs, a), received |-> ReceivedBy(txs, a),
   count |-> Cardinality(TxsOfAddress(txs, a))]

\* A pass takes the addresses of its transactions in the order of a hash set.
SyncUpdates(a) ==
  /\ pass.step = "addrs" /\ a \in pass.touched /\ upd["sync"] = Idle
  /\ pass' = [pass EXCEPT !.touched = @ \ {a}]
  /\ upd' = [upd EXCEPT !["sync"] = [step |-> "computed", address |-> a, info |-> AddressInfo(a)]]
  /\ UNCHANGED <<chain, tables, counts>>

\* An error in it is logged and the pass goes on.
SyncSkips(a) ==
  /\ pass.step = "addrs" /\ a \in pass.touched /\ upd["sync"] = Idle
  /\ Fault
  /\ lost' = lost + 1
  /\ pass' = [pass EXCEPT !.touched = @ \ {a}]
  /\ UNCHANGED <<chain, tables, upd, writer, reorgs>>

\* GET /address/{address} without a record; one that exists is returned.
QueryAddress(a) ==
  /\ upd["http"] = Idle
  /\ a \notin DOMAIN addr
  /\ upd' = [upd EXCEPT !["http"] = [step |-> "computed", address |-> a, info |-> AddressInfo(a)]]
  /\ UNCHANGED <<chain, tables, pass, counts>>

\* save_address_info reads whether the record is new, and the counter.
ReadAddressCount(p) ==
  /\ upd[p].step = "computed"
  /\ upd' = [upd EXCEPT ![p] = [step |-> "counted", address |-> @.address, info |-> @.info,
                                new |-> @.address \notin DOMAIN addr, count |-> meta.addrs]]
  /\ UNCHANGED <<chain, tables, pass, counts>>

\* Its batch.
SaveAddressInfo(p) ==
  LET u == upd[p]
  IN  /\ u.step = "counted"
      /\ addr' = Put(addr, u.address, u.info)
      /\ meta' = [meta EXCEPT !.addrs = IF u.new THEN u.count + 1 ELSE @]
      /\ writer' = Put(writer, u.address, p)
      /\ upd' = [upd EXCEPT ![p] = Idle]
      /\ UNCHANGED <<chain, blocks, byHash, txs, listed, eu, eur, pass, lost, reorgs, faults>>

-----------------------------------------------------------------------------
SyncStep ==
  \/ Fetch \/ SaveBlock \/ ApplyUtxoChanges \/ SaveTransaction \/ Finish
  \/ \E a \in Address : SyncUpdates(a)
  \/ ReadAddressCount("sync")
  \/ SaveAddressInfo("sync")

HttpStep ==
  \/ \E a \in Queried : QueryAddress(a)
  \/ ReadAddressCount("http")
  \/ SaveAddressInfo("http")

FaultStep ==
  \/ FetchFails \/ UtxoChangesLost \/ PassFails \/ Restart
  \/ \E a \in Address : SyncSkips(a)

Next == NodeExtends \/ NodeReorganizes \/ SyncStep \/ HttpStep \/ FaultStep

Spec == Init /\ [][Next]_vars

\* The loop of main runs a pass every 10 s, whatever the last one returned.
FairSpec == Spec /\ WF_vars(SyncStep)

-----------------------------------------------------------------------------
(* Properties *)

AddressRecord == [balance : Nat, sent : Nat, received : Nat, count : Nat]

\* Type invariant.
TypeOK ==
  /\ DOMAIN blocks \subseteq Nat /\ Range(blocks) \subseteq Block
  /\ byHash \subseteq Block
  /\ DOMAIN txs \subseteq Tx
  /\ listed \subseteq Block \X Tx
  /\ eu \subseteq Outpoint /\ eur \subseteq Outpoint
  /\ DOMAIN addr \subseteq Address /\ Range(addr) \subseteq AddressRecord
  /\ \A k \in {"blocks", "txs", "volume", "supply", "addrs", "synced"} : meta[k] \in Nat
  /\ meta.last \in Nat \cup {-1}
  /\ \A p \in {"sync", "http"} : upd[p].step \in {"idle", "computed", "counted"}
  /\ writer \in [DOMAIN addr -> {"old", "sync", "http"}]
  /\ {lost, reorgs, faults} \subseteq Nat

\* The two UTXO indexes agree, whatever fails and whatever the node does; and
\* while the node has not reorganized and no batch was lost, they are the
\* unspent outputs of the chain up to a height between the last finished pass
\* and the highest block stored: a pass that is cut short and repeated over a
\* longer chain neither revives a spent output nor loses one.
UtxoExact ==
  /\ eur = eu
  /\ reorgs = 0 /\ lost = 0 /\ eu # {} =>
       \E h \in meta.synced .. meta.last : eu = Unspent(SubSeq(chain, 1, h + 1))

\* The counters that get_stats and the rich list show are those of the keys,
\* after any number of repeated, failed and interrupted passes, and after the
\* upgrade of an older database.  Addresses may be undercounted, because two
\* requests can read the same counter, but never overcounted.
CountersExact ==
  /\ meta.blocks = Cardinality(DOMAIN blocks)
  /\ meta.txs = Cardinality(DOMAIN txs)
  /\ meta.volume = SumAmounts(txs, DOMAIN txs)
  /\ meta.supply = SumAmounts(txs, Rewards(txs))
  /\ meta.addrs <= Cardinality(DOMAIN addr)
  /\ reorgs = 0 => Cardinality(listed) = meta.txs

\* An address that every transaction that moves its outputs names, as sender or as
\* sole recipient.
Followed(a) ==
  \A t \in Tx :
    LET owners == {Out(o).to : o \in Inputs[t] \cup {<<t, v>> : v \in DOMAIN Outputs[t]}}
    IN  a \in owners => a = Recipient(t) \/ (Inputs[t] # {} /\ a = Sender[t])

\* Between passes a record of such an address that a pass wrote last shows the balance
\* that the UTXO keys give; so does one of an older version, unless the node has
\* reorganized: a branch that was given up before the first pass may have been the only
\* one to name the address.  A request computes its record beside a pass and may write
\* it after the pass has.  A pass that is cut short leaves records behind the UTXO keys
\* until the next pass has indexed the same blocks again; if the node has reorganized
\* in between, it never does.
RecordsFresh ==
  /\ pass = Idle /\ eu # {} /\ meta.synced = meta.last
  /\ lost = 0 /\ (reorgs = 0 \/ faults = 0)
  => \A a \in DOMAIN addr :
       (writer[a] = "sync" \/ (writer[a] = "old" /\ reorgs = 0)) /\ Followed(a)
         => addr[a].balance = BalanceOf(a)

\* The index reaches the node's height and stays there; without a
\* reorganization or a lost batch it then holds exactly the node's unspent
\* outputs.  An index whose very first UTXO batch is lost, or that an older
\* version wrote, is rebuilt.
CatchesUp ==
  <>[](/\ meta.synced = Len(chain) - 1
       /\ eu # {}
       /\ reorgs = 0 /\ lost = 0 => eu = Unspent(chain))
=============================================================================
