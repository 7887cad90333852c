# A verification project for AstramChain

TLA+ models of the parts of AstramChain whose correctness depends on order,
interleaving and failure, the TLC runs that check them on small instances, and
TLAPS proofs about the chain database, the mempool, the mining pool, the block
processor, the peer table, the synchronization loop and the explorer's index. Source paths are relative to `src/`.

## 1. The system

| Part | State | Operations | Interacts with |
|---|---|---|---|
| Chain database (`core/src/blockchain/mod.rs`) | RocksDB keys `b:` `t:` `u:` `i:` `tip`; `chain_tip`, `difficulty` in memory | `validate_and_insert_block`, `validate_fork_block`, `reorganize_if_needed` (with `rollback_blocks`, `replay_blocks`), `recover_tip` | called by the P2P processor and the HTTP server under the `bc` mutex |
| Mempool (`node/src/lib.rs`) | `pending`, `seen_tx` | `on_tx`, `POST /tx`, `POST /tx/relay`, eviction, pruning by blocks, cleanup of `seen_tx` | reads the chain for fees, feeds block templates |
| Block processor and orphan pool (`node/src/p2p/service.rs`) | queue, orphan pool, recently mined blocks | insert, fork, orphan, connect orphans | writes chain and mempool |
| Peer manager (`node/src/p2p/manager.rs`) | peers, addresses, bans, heights | handshake, admission, relay, disconnect | callbacks into the node while holding its own locks |
| Header synchronization (`service.rs`, `manager.rs`) | synchronizing peer, requested blocks, time of last progress | locator, headers, getdata, stall detection | peer manager, chain |
| HTTP server (`node/src/server/mod.rs`) | none of its own | status, mempool, submit, balances | chain, mempool, peers |
| Mining pool (`astram-stratum`) | PPLNS window, balances, found blocks, payout queue, payout database, templates | share, found block, payout loop, template loop, balance sync | node over HTTP |
| Stratum sessions, variable difficulty (`astram-stratum`) | per connection | subscribe, authorize, retarget | pool |
| Miner (`miner`) | current template | refresh, mine, submit | node or pool |
| DNS registry (`astram-dns`) | registered nodes, in memory | register, list, clean-up, health check | nodes |
| Explorer (`explorer`) | index of blocks, transactions, coins and addresses; counters | periodic pass, upgrade of an old index, address requests | node over HTTP |
| Wallets (`wallet-cli`, `chrome-wallet`) | keys | build and sign transactions | node over HTTP |
| Proof of work, rewards, difficulty (`core/src/consensus`, `config.rs`, `security.rs`) | none | pure functions | chain, miner |

What is hard here: a reorganization writes several batches, and the process may
end between any two of them; blocks arrive in any order, twice or never, and each
arrival chooses a chain anew; handlers check under one lock and act under another;
the pool's tasks share balances, a payout queue and templates across awaits;
a connection is served and removed by tasks that know only its id; peers and the DNS
server fall silent, leave and return; an indexing pass can fail after any write. What
makes the parts correct: the tables of the database always describe one chain, the
best one it may switch to; the mempool holds no two transactions that exclude each
other and stays bounded; a pool block is credited once and never beyond its reward;
the peer tables hold nothing of connections that are gone; a node that is behind
catches up whatever some peers do; nodes that run find each other; the explorer's
index and counters are those of the chain it has seen.

## 2. Modules

| Module | Content |
|---|---|
| `Ledger` | the chain database: state, operations, properties, the mapping to `AbstractLedger` |
| `AbstractLedger` | what the database promises: a best chain and its unspent coins, exchanged in one step |
| `LedgerProofs` | theorems about `Ledger`, first without and then with crashes and restarts |
| `Mempool`, `MempoolProofs` | the memory pool and its handlers |
| `Processor`, `ProcessorProofs` | the block processor, its orphan pool and the submission of mined blocks |
| `Pool`, `PoolProofs` | share window, credits, payouts and templates of the mining pool |
| `Peers`, `PeersProofs` | connections, peer tables, admission limits and nested mutexes |
| `Sync`, `SyncProofs` | the loop of `start_block_sync` and the messages it depends on |
| `Registry` | the DNS server and the tasks of nodes that register and look for peers |
| `Explorer`, `ExplorerProofs` | the explorer's database and the passes that fill it |
| `SumLemmas` | facts about sums over finite sets that the proof modules share |
| `MC...` | instances for TLC; each `.cfg` is one question |

Definitions whose names end in `_Something` after the name of another definition are
mutants: that definition with a plausible mistake. They are not used by any
specification; each shows that a property notices the mistake.

### 2.1 Ledger

The variables `blocks`, `txs`, `utxo`, `index`, `tip` are the five kinds of keys,
`chain_tip` and `difficulty` the fields of `Blockchain`. A call that writes one batch
under the mutex is one action (`SubmitBlock`, `ReceiveBlock`, `ReceiveForkBlock`).
`reorganize_if_needed` writes several, so it is a little machine: `phase`, `goal`,
`base`, `at`, `staged` are its locals, and `RollbackBlock`, `CommitRollback`,
`ReplayBlock`, `FinishReorg` its steps. `recheck` is the hash for which the P2P
processor still has to call it after it gave up the lock. `Crash` and `Restart` are
the end of the process between batches, and `Blockchain::new` followed by
`recover_tip` in `main`. A rejected block leaves everything unchanged.

The tree of blocks is a constant: hashes (model values) with parent, index,
difficulty, transactions and the verdict of the header checks that depend on the
block alone. A transaction is its id, the outpoints it spends and creates, its size
and whether its signatures and owners check out. What depends on state is kept:
parent and tip, the difficulty expected from the height index, the lookup of every
input in the block's own outputs or in the database, fees and reward. The insertion
batch, rollback and replay treat a key that a block mentions twice as the code does:
the order of their writes decides. What stands under an outpoint is not modelled: only that
the key is there.

### 2.2 Mempool

`pending` is the `Vec`, `seen` the map `seen_tx`. A handler is a worker that is free
or about to commit a transaction it looked at before (`P2pCheck`, `HttpCheck`), so
blocks, cleanup and other handlers come between. `Limited` is the whole of
`enforce_mempool_limit`: expiry, the early return, the sort by the estimated rate and
the eviction. `Retained` (`Vec::retain`) and `ByRate` (`sort_by_cached_key`) are the one
arrangement of the entries that respects the order asked for, so that the prover can
reason about them without recursion. The chain is the set of transactions it confirms; it grows
(`InsertBlock`, followed by `Prune` under another lock) or changes (`SwitchBranch`,
which
prunes nothing). Two history variables: `relayed`, when a transaction was broadcast last,
and `viaRelay`, the transactions whose last push was by `POST /tx/relay`.

### 2.3 Pool

`recent`, `balances`, `found` are the fields of `ShareTracker`, `saved` the payout
database, `queue` the payouts waiting for a block, `store` the templates miners work
on. `conn` says where `mining.submit` of a connection stands: block sent, answer
known, credited, queue drained. Each of these ends at an await or an unlock. The
payout loop takes its candidates, builds a transaction for each and replaces the
queue in separate steps, and the template loop reads the queue before it waits for the
node's mempool. The pool's coins have values: `PayoutBuild` takes the shortest front of
the node's list that covers amount and fee (`Selected`, with the order of the list as the
parameter `Before`) and returns the rest to the pool; when all coins together do not
cover them the candidate is skipped. The node accepts a block that extends its tip and
whose payouts spend unspent coins, answers Ok to a block it has, and refuses the rest:
an answer that the block is stale clears the queue, any other refusal, and no answer,
changes nothing. A block is named by its job, so one solution per job is considered.
`Starts` says where the instance begins: height, connections, what is owed to the miners,
faults used up. `credited` is a history variable.

### 2.4 Processor

The task of `register_handlers` that takes blocks from the queue. `pc` is where it
stands between two critical sections: `Receive` looks at `recently_mined_blocks`;
`SkipKnown`, `Insert`, `StoreFork` and `FindOrphan` are the four outcomes under the
`bc` mutex; `Book` is what follows an insertion or a switch without it, and `Recheck`
takes it again. An orphan is stored by `StoreOrphan` (gap, eviction, timeout, insertion)
and followed by `Retry` and, at the end, `RequestParent`. `process_orphan_blocks` is
`TryOrphan`, `NextRound` and `EndConnect`: one step per orphan, because the hash map
yields them in any order, and no other holder of `bc` or of the chain mutex comes
between them. `Submit` and `BookSubmit` are the two critical sections of
`POST /mining/submit`, which runs beside the task.

The database shows only what its calls return: `Ledger` says how. All blocks pass
validation, more work is a greater height as in `Ledger`, and a reorganization that may
happen either succeeds, deleting the blocks it takes off, or fails and changes nothing
(section 5 has a case of the latter). `Book` and `TryOrphan` also prune the
mempool, which is `Prune` of `Mempool`. The cancellation of mining at
`service.rs:258` never happens: nothing sets `mining.active`.

### 2.5 Peers

A connection is dialled (`Dial`, `Connected`) or accepted (`Accept`), registered
(`Guard`, `Register`, `Track`, `Greet`) and served by a reader and a writer task. When
one of the two ends (`ReaderEnds`, `WriterEnds`), the connection has `stage` "ended" and `spawn_peer_loop` removes the
id from `peers` and then from `peer_ips` (`RemovePeer`, `RemoveIp`), one mutex at a time.
The other task may live on for a while: a reader (`reading`) handles messages after its
connection was removed. Ids are the remote end's address and port: any number of
connections may have the same one, accepted and dialled ones alike. `Disconnect` is `disconnect_peer`, which does not touch `peer_ips`.
`peersLock` and `bcLock` matter only across steps: `Handshake` and `Version` lead to
`LockPeers` and `Locator`, which takes bc while it holds peers; `GetData` and `Serve`
take them in the other order. `unseen` is a history variable: the inbound connections that
an admission to a nearby address did not count, because they were between their own check
and their entry in `peer_ips`, or because the removal of another connection of the same id
had dropped that entry.

### 2.6 Sync

`Iterate` is one round of the loop: it follows a peer that is ahead (`Follow`), bans one
that stalls (`BanTarget`) or finds nobody ahead (`Synced`). `Answer` is a peer's answer
to `GetHeaders` together with the handler that asks for the missing blocks; `Deliver`
and `Broadcast` bring blocks, which are appended, stored as fork blocks or kept as
orphans. `MineOwn` is a block of this node that no peer takes over, so that the node has
to give it up. Ages replace time stamps and stop at the value that matters. `idle` is a
history variable: for how long the followed peer has delivered nothing.

### 2.7 Registry

`seen` is the server's list with the age of `last_seen`. The first registration of a node
is awaited (`Start`, `StartTimesOut`); later requests are on the wire between
`Reregister` and `Receive`, so they can be late or lost. `CleanUp`
is the task that drops entries older than `max_age`; `CheckStart`, `Probe` and `CheckEnd`
are the three parts of a health check, which probes without the lock and removes at the
end by address. `Crash` loses the list. Nodes start, stop and return; `Fetch` takes a
list, drops itself from it and connects, `FetchFails` falls back to configured and saved
peers, but only the first time. A running node may refuse a connection by its own
admission limits, which counts as a fault. `Elapse` is a unit of 300 s.

### 2.8 Explorer

The state is the database, key by key. A pass is `Fetch`, then one `SaveBlock` per
block, `ToTransactions`, `ApplyUtxoChanges`, one `SaveTransaction` per transaction (`at`
is the position of the next one in the extracted list, a block and a place in it), the
records of the addresses involved (`SyncUpdates`, `ReadAddressCount`, `SaveAddressInfo`)
and `Finish`. A request fails (`FetchFails`), a write fails (`PassFails`), a batch of coins is lost
with a logged error (`UtxoChangesLost`), or the process ends (`Restart`). `QueryAddress`
computes and saves a record beside the pass. `Upgraded` is a database that an older version wrote, without coins. Every write of a pass is an action; two things are
taken together: the writes of `initialize_metadata` at a start, each of which has its own
flag and may be repeated, and the two scans of `update_address_info`, of transactions and
of coins. The node is external: `NodeExtends` and `NodeReorganizes`.
`writer` is a history variable: who wrote the record of an address last, an older version,
a pass or a request.

## 3. Runs

| Run | Expected | Question |
|---|---|---|
| `ledger` | pass | all arrival orders of a fourteen-block tree with four branches, chained and shared transactions, a double spend within a block, gaps in the indexes and an overpaid coinbase: tables, depth and supply |
| `ledger_two` | pass | two branches without chained or shared transactions: exact UTXO set, best chain, a way back from every chain, termination |
| `ledger_crash` | pass | a crash after any batch, then recovery |
| `ledger_restart` | violation | does the UTXO set belong to the recovered tip? |
| `mempool` | pass | interleaved handlers with a pool at its limit, blocks, branch switches, expiry and cleanup |
| `pool` | pass | concurrent and repeated submission of blocks, payouts in them that compete for coins, stale answers, faults |
| `processor` | pass | arrival orders of two branches with an orphan pool at its limit, beside submissions |
| `explorer` | pass | passes over a node that grows and reorganizes, with faults, beside an address request |
| `peers` | pass | connections that come and go between any two mutexes, with ids used again and limits within reach |
| `peers_deadlock` | violation | can a handshake and a GetData wait for each other? |
| `sync` | pass | an honest peer beside one that claims, stalls, leaves and returns |
| `registry` | pass | nodes and a DNS server that stop and return |

**Bounds.** The ledger tree is four blocks high with a depth limit of two, so that
reorganizations of every depth from one to three occur, the last being refused, and
branches fork from the main chain, from each other and from genesis; p is mined on two
branches, and a2 spends an output it creates. c4 and d3 skip an index, two transactions of
d3 spend the same coin, and the coinbase of a4 pays itself more than reward and fees (it is
refused on the tip and taken on a fork). The retarget window is two instead of 24. `StaleMinBlocks` keeps its value of 100, so the stale-tip recovery does not occur
in these instances. `CHECK_DEADLOCK FALSE`: with the tree delivered, the node waits.
The mempool instance has three transactions (a conflicting pair and a child), two
handlers and a clock of two ticks. As in the code (86,400 s and 3,600 s) a transaction
expires later than `seen_tx` forgets it: `seen_tx` forgets at the last tick, while the
transaction is pending, and one whose own time stamp lies before the start expires. The
pool instance has two miners, a window of two shares, two templates, heights up to two and
two faults (restart, lost answer, failed build). It has three beginnings (`ThreeStarts`),
of which the first two have one fault used up: one connection has two blocks to find while
ann's payout is due, or one block while both payouts are due, or two connections race for
one block. So templates carry payouts, a block may be refused as stale, payouts need two
coins, leave change, compete for a coin and find too few coins; the reward 6 less 1 is odd,
so that rounding happens: 400,000 states, a minute and a half. The processor instance has genesis and two branches, of
one and of two blocks, and starts from an empty database, so that every other block is
an orphan at first; the pool holds two orphans and there are as many rounds, the boundary
at which the rounds just suffice; two ticks of the clock pass all three timeouts.
`MaxQueue` bounds the queue, which has no bound in the code: a peer then waits.
The explorer instance has two chains of three blocks that share a transaction, spend
across blocks, pay one or two recipients and leave change; it starts with no database or
one of an older version that had reached height one (`OldHeight`), where one chain names
an address (`carl`) that the other never does; one reorganization and one fault: 466,000
states, two to three minutes. The peers instance has five connections: one that is dialled and one that is accepted
under the same id, another accepted from the same address, and two from two more addresses
of the subnet, at limits of one connection per address and two addresses per subnet, so
that every limit can be hit and, by unseen connections, exceeded: 2.2 million states, about
two minutes. `CHECK_DEADLOCK FALSE`: each connection lives once. The sync instance has a chain of up
to four blocks, three headers to an answer and three hashes to a locator, so that one
answer does not reach the end, and stall, ban, cooldown and refresh times of two rounds;
the other peer joins twice. The registry instance has three nodes, one of which
runs all the time (`Steady`), a list of two, one
dialled node and two faults: a stop, a crash, a lost, skipped or slow request, a failed
probe, a refused connection.

**Symmetry** is used for the handler tasks of the mempool and for the two neighbours in
`peers`, which differ in nothing but the names of their addresses, in runs without liveness properties.

**Fairness.** `ledger_two` assumes that the steps of a reorganization go on: it runs in
one thread that holds the mutex and waits for nobody. `pool` assumes that the
payout loop goes on: a task that sleeps a fixed interval. `processor` assumes that
the task and the submit handler go on (every lock they wait for is released by a thread
that waits for nobody) and that some peer answers a request; the answer needs strong
fairness only because `MaxQueue` may hold it up. `explorer` assumes that the task of the
passes goes on. `sync` assumes that the loop goes on, a task that sleeps one second, and
that honest peers, which is what the word means, answer and deliver; nothing is assumed
of the others. `registry` assumes that the timers of server and nodes fire, that a
request that is not lost arrives and that a crashed server is started again. No fairness
is assumed of blocks, transactions, shares or faults. `peers` checks safety only. These
assumptions presuppose that the deadlock of `peers_deadlock` does not happen.

## 4. What the passing runs show

- After any sequence of insertions and reorganizations the stored chain is complete
  from genesis (`TipChainStored`), the height index is exactly that chain
  (`IndexIsChain`), the UTXO set is its unspent outputs (`UtxoMatchesTip`, and
  `UtxoExact` where no block spends what it creates), and no block on the tip whose body
  fits its branch is refused for a missing input (`SoundChildAccepted`).
- On a chain whose bodies pass the checks, the coins in the database are worth no more
  than its blocks issued: reward, what a block takes twice with two transactions, and the
  outputs that it creates and spends (`SupplyBounded`). The last two are what the code
  issues beyond the rewards (section 5); no sequence of reorganizations adds to them.
- The height of the tip never drops, not even by a crash and recovery
  (`HeightNeverDrops`; this presupposes that a block's index is above its ancestors',
  which the code does not check), and a change of tip abandons at most `max_reorg_depth`
  blocks (`ReorgDepthBounded`).
- Where branches fork once and share no transaction, the node ends on the best stored
  chain it may switch to (`BestChainWins`), in bounded time (`ReorgTerminates`), and can
  leave that chain again (`ChainReversible`).
- A caller who holds the lock sees the abstract ledger (`ImplementsAbstract`).
- Whatever the interleaving, and whatever `seen_tx` has forgotten, of two pending
  transactions that spend the same coin one was pushed by `POST /tx/relay`, which looks for
  no conflicts (`NoConflicts`).
- `on_tx` leaves at most `MAX_MEMPOOL_SIZE` transactions and evicts the worst first
  (`P2pBoundsPool`, `EvictsWorst`).
- A transaction that was not evicted is broadcast again only when `seen_tx` may have
  forgotten it (`RelayedOnce`).
- The orphan pool stays within `MAX_ORPHAN_BLOCKS` (`PoolBounded`), `max_iterations`
  rounds connect all that can be connected (`NothingLeftToConnect`), and the parent of
  an orphan turns up unless it is a block mined here (`BackwardSearch`).
- The credits of all miners never exceed the rewards of the pool's blocks
  (`CreditsBacked`), a block's credits miss its reward by dust only (`OnlyDustKept`),
  and an eligible miner gets a payout queued unless the pool's coins do not cover it
  (`EligibleQueued`), although found blocks and stale answers clear the queue and payouts
  of others take coins.
- However connections overlap, `peers` and `peer_ips` keep nothing of an id that has no
  connection left (`NoGhosts`), and the limits per address and subnet hold for all
  inbound connections but the unseen ones (`AdmissionLimits`): a race of admissions or a
  removal by id exceeds a limit by no more than the connections it hides.
- The node catches up with every honest peer, whatever another one claims, unless it is
  stranded on a block of its own (`CatchesUp`); it always leaves the synchronizing state
  again (`SyncEnds`); and it bans only a peer that has delivered nothing for the stall
  time (`BansOnlyIdle`).
- Once faults cease, the list of the DNS server is the set of running nodes
  (`ListSettles`) and no node stays alone (`FindsPeers`).
- The explorer's coins are those of a prefix of the chain (`UtxoExact`) and its counters
  those of its keys (`CountersExact`), whatever pass is cut short and repeated; the
  records of followed addresses that a pass wrote last are fresh (`RecordsFresh`); the index
  catches up (`CatchesUp`). `RecordsFresh` excludes three histories. A request may write
  what it computed before the pass. A pass may be cut short after its batch of coins,
  before a reorganization of the node: the records that it did not write belong to blocks
  that no later pass reads again. And the record of an older version goes stale when the
  node gives up, before the first pass, the only branch that named its address.

## 5. Disagreements between code and comments

With a run that shows them (details under "findings" in `PROJECT.json`):

1. `ledger_restart`: `recover_tip` moves the tip, not the tables behind it.
2. `peers_deadlock`: a handshake keeps the mutex `peers` while its locator takes `bc`
   (`manager.rs:1054`, `service.rs:108`); a GetData keeps `bc` while it sends, which
   takes `peers` (`service.rs:720`, `manager.rs:1425`). The comments at `service.rs:90`
   and `:229` speak of preventing deadlock.

Met while modelling, visible in the definitions, without a run of their own:

- `CommitRollback` deletes transactions that the other branch contains too
  (`core/src/blockchain/mod.rs:1378`); the way back then fails in `RollbackBlock` and the
  better chain is not adopted, against the comment at `:1211`.
- `TryOrphan` books an orphan that a second copy had stored through the fork path, and
  `Book` may come after `BookSubmit` of a higher block: the advertised height goes back
  (`service.rs:789`, against the comment at `:294`).
- `DrainQueue` and `ZeroBalances` treat the queue as if the found block contained it
  (`astram-stratum/src/main.rs:636`, against the comment at `:633`); the queue may have
  been replaced since the template was built.
- `InsertUtxo`: an output created and spent in one block stays in `u:`
  (`core/src/blockchain/mod.rs:534`), hence the slack in `UtxoMatchesTip`.
- `CommitRollback` deletes blocks on which stored fork blocks may rest, so that their
  chain has no common ancestor any more.
- Two transactions of one block may spend the same coin: `used_utxos` is created for each
  transaction and the database is read as it was before the batch
  (`core/src/blockchain/mod.rs:523`, `:538`), so `InputsFound` allows it and `Respent` counts
  what it issues. A template with two payouts of the pool runs into it: each is built from the
  front of the same list.
- `SubmitBlock` compares no index with the parent's, not even on the tip (`:405` to `:434`), and
  `MoreWork` goes by the claimed index, against the comment "longer chain always wins" at `:1156`.
  No repeated txid is refused. `SoundTree` assumes neither happens out of order (section 6).
- An insertion stores the recipient in lower case (`:514`, `:582`), rollback and replay as it
  is written (`:1406`, `:1449`), and balances compare exactly (`:819`, `:953`,
  `node/src/server/mod.rs:912`): after a reorganization the coins of an address in mixed case
  may be missing from its balance. The models have the keys of the coins only.
- `StaleTip`: the recovery inside `reorganize_if_needed` leaves the UTXO set behind.
- `Restart` may adopt a fork that the depth limit had refused, because it is highest.
- `ExpectedBits` reads the main chain's headers for a block of another branch.
- `ReceiveForkBlock` stores transactions unchecked and `ReplayBlock` applies them: `SoundTree`
  and, for the supply, `BodyOK` are the assumptions this calls for.
- `Limited`: expired transactions stay in `seen_tx`, against the comment in
  `node/src/lib.rs:134`; the early return ignores real sizes. `HttpCommit` enforces no
  limit. `CleanSeen` forgets transactions that are still pending.
- A transaction that a full pool evicts on arrival is removed from `seen_tx` and
  broadcast all the same (`P2pCommit`), so each further copy is broadcast again.
  `P2pCommit` and `HttpCommit` may push a transaction after the block that confirms it
  was pruned, and `SwitchBranch` prunes nothing.
- `StoreFork` tries no orphan, and `TryOrphan` keeps one that is on a fork: a branch that
  arrived children first is not adopted until its blocks are sent again.
- `Receive` ignores a block mined here also after a rollback deleted it, until
  `BookSubmit` of a later block removes the entry: the node does not return to that branch.
- `ZeroBalances` removes the credit of the very block together with what was paid;
  `Restart` of the pool brings back balances that were paid since the last sync. A
  miner may so be paid too little or twice.
- `RemovePeer` and `RemoveIp` go by the id: the late clean-up of an old connection
  removes a newer one under the same id from the tables, although it goes on: it has lost its
  sender, its charge and its height. A reader that outlives its connection may put its id back into
  `peer_heights`; `get_best_sync_peer` skips such entries.
- `Accept` decides before it registers: connections that arrive together may exceed the
  limits (hence `unseen`).
- `TipLocator`: the loop asks with its tip alone. On a block that no peer knows, answers
  start at genesis, and a fork higher than one answer (200 headers) leaves the node
  stranded until a new connection brings the handshake's locator of ten hashes or a
  broadcast starts the search backwards.
- `quiet` is global: a block from anyone excuses a target that delivers nothing, although
  the text at `sync_blockchain` speaks of per-peer timeouts. When all peers ahead are
  banned the loop reports "Fully synced". The branch for "No eligible sync peer" cannot
  be reached. The handshake reports the index of the tip, headers one more.
- `CheckEnd` removes a node that registered anew after its probe; it stays away, and
  loses `first_seen`, until it registers again. `Receive` answers "and is reachable"
  although nothing is probed. `FetchFails` uses no fallback after the first time.
  `BestNodes` cuts the list before the node removes itself from it.
- The explorer writes no records for recipients of a transaction with several of them,
  may save an older record last (`QueryAddress`), may undercount addresses, goes on after
  a failed write of coins, and handles no reorganization: blocks at heights it has are
  never read again.

## 6. Proofs

`LedgerProofs` proves for every tree of blocks, every depth limit and every arrival
order, from the assumptions `ConstantsTyped` and `Ancestry` on the constants:

    ASSUME SoundTree  PROVE  Spec /\ []NeverStale => []P

for P the type invariant, `TipChainStored`, `TipStored`, `UtxoMatchesTip`,
`IndexIsChain`, `SoundChildAccepted` and `SupplyBounded`, and likewise the action property
`ReorgDepthBounded` and the refinement `ImplementsAbstract`.

*Assumptions.* `SoundTree`: a block with an acceptable header carries an index above its
ancestors' (not necessarily the next one), takes from outside itself only what is unspent
on its own branch, creates no outpoint a second time, and spends an output of its own
after creating it and once. This is assumed of the blocks that are sent. The code compares
no indexes (`mod.rs:405` to `:434`), refuses no repeated txid, and on the fork path looks
at no body at all; on the tip it does look up every input. Nothing keeps two transactions of a
sound block from taking the same coin, and bodies may fail the checks of fees and reward.
`NeverStale`:
the recovery inside `reorganize_if_needed` does not trigger; the property is false
otherwise (section 5). Crashes are not part of `Spec`: most of these properties do not
survive them. `UtxoIsExact` adds that no block spends its own outputs
(`NoneChained`), and then the slack in `UtxoMatchesTip` is gone.

*Supply.* `SupplyKept` is `SupplyBounded`, which speaks of every chain whose blocks pass
`BodyOK`, that their transactions pay their fees and leave the coinbase within reward and
fees; `validate_and_insert_block` checks this of a block, the fork path does not, and the
property says nothing of a chain with such a fork block on it. Coins spent twice within a
block and chained outputs are not assumed away: they are in the bound (`Issue`). `SupplyStep` adds one
block to its parent's coins, `ChainBacked` goes from genesis to the tip, and the slack of
`UtxoMatchesTip`, outputs that a block creates and spends, is paid for by `Issue`.

*Best chain.* `BestChainWins` is false of some trees, because a rollback deletes blocks
and transactions that other branches need (section 5). Two theorems say when it holds.
`BestWhileConnected`: for every sound tree, as long as every stored block has its
ancestors and the transactions it spends from in the database (`Connected`); so what a
rollback takes from other branches is the only way to end on a worse chain. The
invariant `BestInv` says that no stored block is higher than the tip and forks from it
within the limits, during a reorganization that its goal is best; `ForkFound` shows that
`find_common_ancestor` finds the highest common block, `GoalBest` that a switch to a better
branch makes no third branch better than both. `BestCorrect`: if no branch forks again and
no transaction is in two blocks (`SeparateBranches`, which the instance of `ledger_two`
satisfies), then stored blocks are always connected. `CommitStores` is the step that needs
it: a block that stays and rests on a deleted one would be a branch of a branch, or
above the old tip and so better than it. On the same trees `Reversible` proves
`ChainReversible` from the same invariant: no rollback takes a transaction of the chain that
the node ends on.

*Inductive invariant.* `UtxoMatchesTip` says nothing while a reorganization is under
way, so it is not inductive. `IInv` adds what holds then: during rollback, `staged` is
the UTXO set of the block the cursor `at` has reached, which lies between the tip and
the common ancestor (`RollbackInv`); during replay, the tables are those of `at`, which
lies between the ancestor and the goal (`ReplayInv`); the goal is a stored block above
the tip and its branch is stored (`GoalInv`); at rest, the tables are those of the tip
(`TipInv`). The heart of the proof are three lemmas on the coins of one block
(`InsertStep`, `RollbackStep`, `ReplayStep`): each batch turns a set that matches the
coins of a block into one that matches those of its child or parent. There is one
lemma per action, and `StepImplements` maps each to a step of `AbstractLedger` or to
none.

`ProcessorProofs` proves, from `Parameters` alone and so for every set of blocks and every
capacity, `TypeOK`, `PoolBounded` and the action property `NothingLeftToConnect`. The
last needs the inductive invariant `IInv`: every round that goes on has paid with an
orphan (`RoundsPaid`), and in a round that has connected nothing, what was tried cannot be
connected (`TriedInVain`). So the loop ends either with a round in vain or with an empty
pool, because `MaxRounds` is not below `MaxOrphans`: in the code both are 100, and neither
constant refers to the other. `RoomMade` shows that eviction leaves room for one block.

With crashes `LedgerProofs` proves, from `SoundTree`,

    CrashSpec => []TipStored        CrashSpec => HeightNeverDrops

so with a crash between any two batches, restarts and the stale-tip recovery: `NeverStale`
is not assumed. That an insertion does not lower the height is the assumption of rising
indexes; the theorem is about the rest, reorganizations, crashes within them and
`recover_tip`. The invariant `CrashInv` says what a crash finds: stored blocks are
finitely many, lead back to genesis and are never all deleted, and a block at least as
high as the stored tip is stored even while the tip's own block is deleted, because the
target of a reorganization is higher and not on the branch that is rolled back.
`HighestFound` shows that the scan of `recover_tip`, a CHOOSE in the model, has a result
on every finite set of blocks, by the well-foundedness of strict inclusion.

`MempoolProofs` proves everything the run checks, for any number of handlers,
transactions and limits: `TypeOK`, `NoConflicts`, `P2pBoundsPool`, `EvictsWorst` and
`RelayedOnce`. The last is not inductive; `IInv` adds that an entry of `seen_tx` is either
from the time of the broadcast or gone because it was old. The others rest on what
`Limited` does to an arbitrary list. `Arrangement` is a CHOOSE of an order-preserving
bijection; the lemmas on it show that one exists for every strict total order on a finite
set, hence that retaining and sorting yield a list of entries of the old one, each at most
as often as before, and that the sort is by rate. `EvictCount` is a CHOOSE too; that dropping so
many entries suffices, and that all that is dropped ranks below all that is kept, follow.
`NoConflicts` is then inductive together with the types (`PInv`): `on_tx` and `POST /tx` look
again at the list they are about to extend, and a transaction leaves `viaRelay` only when
one of these pushes it anew.

`PoolProofs` proves `TypeOK`, `CreditsBacked` and `OnlyDustKept` for any finite set of
miners and any reward, fee, window and threshold. `CreditsBacked` is not inductive: the
set `found_blocks` that keeps a block from being credited twice is lost in a restart.
`Backed` says why that is harmless: some set of mined jobs has been distributed, it
contains those in `found`, and a job in it that is still the job of a template in
anybody's hands is in `found` still; a restart drops all templates along with the set.
`OnlyDustKept` is arithmetic: the miners' numbers of shares add up to the length of the
window (`SumCounts`), and a division of each part that rounds down loses less than one
unit per miner (`SumRounded`). `IsFiniteSet(Miner)` holds of every set of addresses seen so
far, and the coins the pool starts with (`Earlier`) are finitely many.

`PeersProofs` proves `TypeOK`, `NoGhosts` and `AdmissionLimits` for any finite set of
connections and any ids, addresses, subnets and limits; ids need not be unique. `Senders` and
`Charges` together with the types are inductive: an id is charged only while some connection
under it has its removal still before it. For the limits `LInv` adds that an id is listed
in `peer_ips` at least as often as there are inbound connections under it that are tracked
and not unseen (`Listed`, about the set `Paid`), and that the limits hold for all inbound
connections inside but the unseen ones, admitted but not yet charged ones included (`Limited`).
An admission sees those of its address and subnet that are settled, because each has its
entry (`SettledCounted`); those under way near it become unseen; and a removal, which drops every entry of its id, makes the other
connections of that id unseen.

`ExplorerProofs` proves `TypeOK`, `CountersExact`, `UtxoExact` and `RecordsFresh` for
every set of valid chains, every database of an older version and any number of faults,
restarts and reorganizations. The counters are sums over the keys; `CInv` adds what they
miss in the middle of a pass: a counter that a task has read stays behind the number of
records it counts (`AddrsOK`), the height stored last is the greatest (`LastOK`), and a
pass works on a section of the chain that starts where the pass before ended
(`SectionOK`). For the coins `UInv` relates the index to the pass: it is at some height of
which the pass begins no later than just above and ends no earlier (`IndexInv`), so that
the pass's batch, however many of its blocks have been applied before, brings it to the
pass's end. That applying a batch twice is harmless is the heart of the proof: no
transaction of a chain spends an output that a later block creates, and none is in two
blocks (`ChainsValid`, an assumption on the node's chains: it looks up inputs, but it does not refuse
a transaction id that is repeated).
`RecordsFresh` speaks of the time between passes; `FInv` follows a record through a pass
and through its repetition. What a pass has computed is right when it is written
(`TaskInv`), the addresses of the transactions it has gone through are noted (`NotedInv`),
and a record that its batch has made stale is still to be written (`PendingInv`). After a
pass that was cut short without a reorganization, a stale record is of an address that
some block above the last synced height names, which the next pass reads again
(`AgainInv`, with `TopInv` and `GenesisInv` for the two ends of the chain); without a
fault none is stale when a pass begins (`RightInv`). Looking for this invariant showed
that an earlier form of `RecordsFresh`, which covered the records of older versions after
a reorganization, was false; the instance now contains that history.

`SumLemmas` states what these proofs need of `MapThenSumSet`, a fold that chooses its
elements in an unknown order: that it is well defined, that any element may be taken out
first, and how it behaves under union, families of disjoint sets, changes of one value,
common factors and bounds. Induction over a finite set is a choice of a smallest
counterexample, by the well-foundedness of strict inclusion (`SmallestSubset`); with the
claim given as a set of sets it becomes `SetInduction`, which any prover can instantiate.
`HighestFound`, `ChainInduction` and the existence of an arrangement use it too.

*Assumptions on constants.* Every `ASSUME` is evaluated by TLC on the instances. Those
that only the proofs need say that what the code holds is finite: the ancestors, inputs
and outputs of a block (`Ledger`), the miners and the pool's first coins (`Pool`), the connections (`Peers`), the
transactions of the node's chains (`Explorer`); and that amounts and rewards are natural
numbers, as the code's unsigned integers are.

`SyncProofs` proves `BansOnlyIdle` for any number of peers, chains and time limits. The
loop does not know how long its target has been idle; `IInv` relates what it knows: the
idleness is at least the age of the stall clock or at least that of the last block, and
a ban needs both of them to have reached the limit.

*Only model-checked.* Liveness, which is out of reach of the prover together with
ENABLED: `ReorgTerminates`, `EligibleQueued`, `BackwardSearch`, `SyncEnds`, `ListSettles`,
`FindsPeers` and both `CatchesUp`; `ListSettles` and `FindsPeers` are all that is checked
of the registry. Every safety property of a passing run is a theorem.

## 7. Not modelled

Hash functions, signatures and the GPU miner (numeric code without state to explore);
DWG3's arithmetic (the parameter `Retarget`) and the halving (`Reward`); Stratum's wire
protocol and variable difficulty; the miner's loop, which shares nothing but a stop flag;
reading endpoints of the HTTP server and of the explorer; the file of saved peers and the
message codec; configuration; the wallets, which do one thing at a time. Sums of 256-bit
amounts are unbounded numbers here. Reorganizations of the node are not seen by the
pool's model. `Ledger` keeps the keys of the tables and not what stands under an outpoint, and
the verdict on a header (`HeaderOK`) is one per block, although the median time is taken of
stored ancestors and of fewer where one is missing. `Sync` leaves out the orphan pool's gap
check and eviction, which are in `Processor`. It also leaves out that `check_block_exists` gives up when the lock is taken
and a block is then asked for twice, and `broadcast_inv`, which nothing calls. `Explorer`
leaves out an old database that holds genesis alone, whose block counter is never put right.

## 8. Plan

1. DWG3 and rewards as operators, checked against a reference; a ledger tree with
   varying difficulty.
2. Proofs: that the list of `Registry` holds only nodes that have registered.
