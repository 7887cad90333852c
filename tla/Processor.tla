----------------------------- MODULE Processor -----------------------------
(***************************************************************************)
(* The block processor of a node: the task of node/src/p2p/service.rs that *)
(* takes blocks from the queue the P2P connections fill, its orphan pool,  *)
(* and POST /mining/submit of node/src/server/mod.rs, which inserts blocks *)
(* beside it.                                                              *)
(*                                                                         *)
(* The chain database appears with the outcome of its calls, which run     *)
(* under the bc mutex: module Ledger looks inside them.  The processor     *)
(* gives up bc between its calls, and that is where its steps are cut;     *)
(* process_orphan_blocks keeps bc and the chain mutex from its first to    *)
(* its last step.  The pending transactions a block removes are the        *)
(* business of module Mempool.                                             *)
(***************************************************************************)
EXTENDS Integers, Sequences, FiniteSets, Functions

CONSTANTS
  Block,          \* the blocks peers and miners may send
  NoBlock,        \* no hash
  Genesis,        \* the block of height 0
  Prev,           \* header.previous_hash
  Index,          \* header.index
  Anc,            \* a block and its ancestors along Prev
  Mined,          \* the blocks that POST /mining/submit may carry
  MaxReorgDepth,  \* max_reorg_depth, 100
  MaxOrphans,     \* MAX_ORPHAN_BLOCKS, 100
  MaxGap,         \* max_orphan_height_gap, 1000
  MaxRounds,      \* max_iterations, 100
  MaxMemory,      \* MAX_MEMORY_BLOCKS, 500
  RecentTtl,      \* life of an entry of recently_mined_blocks, 300 s
  OrphanTimeout,  \* ORPHAN_TIMEOUT, 1800 s
  OneHour,        \* one_hour, 3600 s
  MaxQueue,       \* bound of the model on the queue, which has none
  MaxTime         \* bound of the model on the clock

ASSUME Parameters ==
  /\ NoBlock \notin Block /\ Genesis \in Block /\ Mined \subseteq Block
  /\ Index \in [Block -> Nat]
  /\ Prev \in [Block -> Block \cup {NoBlock}]
  /\ \A b \in Block : Index[b] > 0 => Prev[b] \in Block
  /\ MaxOrphans \in Nat \ {0}
  /\ MaxRounds \in Nat \ {0} /\ MaxRounds >= MaxOrphans
  /\ {MaxMemory, MaxGap, MaxReorgDepth, MaxQueue, MaxTime} \subseteq Nat
  /\ {RecentTtl, OrphanTimeout, OneHour} \subseteq Nat

VARIABLES
  blocks,      \* keys b: present in the database
  chain_tip,   \* Blockchain.chain_tip
  queue,       \* block_tx / block_rx
  pc,          \* where the processor stands; "receive" while it waits
  cur,         \* the block it is working on
  height,      \* current_height, read for cur before bc was released
  orphans,     \* orphan_blocks: hash -> time of arrival
  todo,        \* orphans_to_try of the current round that are not tried yet
  rounds,      \* iterations
  progress,    \* processed_any
  memory,      \* ChainState.blockchain
  recent,      \* recently_mined_blocks: hash -> time
  my_height,   \* PeerManager.my_height, sent to peers in Version
  submitted,   \* block a submit handler has inserted but not booked yet
  wanted,      \* blocks asked from the peers and not answered yet
  now          \* chrono::Utc::now

ledger == <<blocks, chain_tip>>
retry == <<todo, rounds, progress>>
vars == <<blocks, chain_tip, queue, pc, cur, height, orphans, todo, rounds,
          progress, memory, recent, my_height, submitted, wanted, now>>

-----------------------------------------------------------------------------
(* What the calls on the chain database return *)

\* "previous header not found"
ParentMissing(b) == Index[b] > 0 /\ Prev[b] \notin blocks

\* Neither of the errors: the block is a duplicate or extends the tip.
Accepted(b) ==
  \/ b \in blocks
  \/ ~ ParentMissing(b) /\ (Index[b] = 0 \/ Prev[b] = chain_tip)

\* "fork detected"
OnFork(b) == b \notin blocks /\ ~ ParentMissing(b) /\ ~ Accepted(b)

\* The tip after validate_and_insert_block has returned Ok for b.
TipWith(b) == IF b \in blocks THEN chain_tip ELSE b

\* The blocks of branch b that are not on the chain of t.
Branch(t, b) == Anc[b] \ Anc[t]

\* reorganize_if_needed may leave the chain of t for b: more work, a branch
\* stored down to the common ancestor, and not too deep.
CanSwitch(B, t, b) ==
  /\ t # NoBlock
  /\ Index[b] > Index[t]
  /\ Branch(t, b) \subseteq B
  /\ Cardinality(Branch(b, t)) <= MaxReorgDepth

\* What <<blocks, chain_tip>> can be after reorganize_if_needed(b).  A rollback
\* deletes the blocks it takes off; one that misses a transaction does nothing.
Reorganized(B, t, b) ==
  {<<B, t>>} \cup
  (IF CanSwitch(B, t, b) THEN {<<B \ Branch(b, t), b>>} ELSE {})

LedgerIs(after) == blocks' = after[1] /\ chain_tip' = after[2]

\* ChainState.blockchain after a push and enforce_memory_limit.
Push(s, b) ==
  LET all == Append(s, b)
  IN  IF Len(all) > MaxMemory
      THEN SubSeq(all, Len(all) - MaxMemory + 1, Len(all)) ELSE all

-----------------------------------------------------------------------------
(* The network and the clock *)

Enqueue(b) == Len(queue) < MaxQueue /\ queue' = Append(queue, b)

\* A peer sends a block: an announcement, a sync batch, a copy of an old one.
Deliver(b) ==
  /\ Enqueue(b)
  /\ UNCHANGED <<ledger, pc, cur, height, orphans, retry, memory, recent,
                 my_height, submitted, wanted, now>>

\* A peer answers the GetData of request_block_by_hash.
Answer(b) ==
  /\ b \in wanted
  /\ Enqueue(b)
  /\ wanted' = wanted \ {b}
  /\ UNCHANGED <<ledger, pc, cur, height, orphans, retry, memory, recent,
                 my_height, submitted, now>>

Tick ==
  /\ now < MaxTime
  /\ now' = now + 1
  /\ UNCHANGED <<ledger, queue, pc, cur, height, orphans, retry, memory, recent,
                 my_height, submitted, wanted>>

-----------------------------------------------------------------------------
(* The processor *)

\* A block this node mined is dropped, anything else goes to the insertion.
Receive ==
  /\ pc = "receive"
  /\ queue # <<>>
  /\ queue' = Tail(queue)
  /\ IF Head(queue) \in DOMAIN recent THEN UNCHANGED <<pc, cur>>
     ELSE pc' = "insert" /\ cur' = Head(queue)
  /\ UNCHANGED <<ledger, height, orphans, retry, memory, recent, my_height,
                 submitted, wanted, now>>

\* Mutant: the block is not let go.
Finish_Keep == pc' = "receive" /\ UNCHANGED cur

\* Back to block_rx.recv().
Finish == pc' = "receive" /\ cur' = NoBlock

\* The early duplicate check.
SkipKnown ==
  /\ pc = "insert"
  /\ cur \in blocks
  /\ Finish
  /\ UNCHANGED <<ledger, queue, height, orphans, retry, memory, recent,
                 my_height, submitted, wanted, now>>

\* validate_and_insert_block returns Ok; bc is released.
Insert ==
  /\ pc = "insert"
  /\ cur \notin blocks /\ Accepted(cur)
  /\ blocks' = blocks \cup {cur}
  /\ chain_tip' = cur
  /\ pc' = "added"
  /\ UNCHANGED <<queue, cur, height, orphans, retry, memory, recent, my_height,
                 submitted, wanted, now>>

\* "fork detected": validate_fork_block and reorganize_if_needed under one lock.
\* Only a switch is followed up; no orphan is tried.
StoreFork ==
  /\ pc = "insert"
  /\ OnFork(cur)
  /\ \E after \in Reorganized(blocks \cup {cur}, chain_tip, cur) :
       /\ LedgerIs(after)
       /\ IF after[2] = cur THEN pc' = "switched" /\ UNCHANGED cur ELSE Finish
  /\ UNCHANGED <<queue, height, orphans, retry, memory, recent, my_height,
                 submitted, wanted, now>>

\* "previous header not found": current_height is read and bc released.
TipHeight == IF chain_tip = NoBlock THEN 0 ELSE Index[chain_tip] + 1
FindOrphan ==
  /\ pc = "insert"
  /\ cur \notin blocks /\ ParentMissing(cur)
  /\ IF Index[cur] > TipHeight + MaxGap THEN Finish /\ UNCHANGED height
     ELSE pc' = "orphan" /\ height' = TipHeight /\ UNCHANGED cur
  /\ UNCHANGED <<ledger, queue, orphans, retry, memory, recent, my_height,
                 submitted, wanted, now>>

\* The new block is booked in memory, then bc is taken again.
Book ==
  /\ pc \in {"added", "switched"}
  /\ memory' = Push(memory, cur)
  /\ my_height' = Index[cur]
  /\ IF pc = "added" THEN pc' = "recheck" /\ UNCHANGED cur ELSE Finish
  /\ UNCHANGED <<ledger, queue, height, orphans, retry, recent, submitted,
                 wanted, now>>

\* Mutant: a pool of MaxOrphans blocks still has room.
MakeRoom_OneMore(S, kept) ==
  IF Cardinality(S) <= MaxOrphans THEN kept = S
  ELSE kept \subseteq S /\ Cardinality(S \ kept) = 1

\* A full pool loses a quarter of its capacity, the highest blocks first; the
\* order among blocks of one height is that of the hash map.
RemoveCount == IF MaxOrphans \div 4 > 1 THEN MaxOrphans \div 4 ELSE 1
MakeRoom(S, kept) ==
  IF Cardinality(S) < MaxOrphans THEN kept = S
  ELSE /\ kept \subseteq S
       /\ Cardinality(S \ kept) = RemoveCount
       /\ \A x \in S \ kept, y \in kept : Index[x] >= Index[y]

\* The pool drops what is too high, makes room, drops what is too old and takes
\* the block.
StoreOrphan ==
  /\ pc = "orphan"
  /\ LET near == {b \in DOMAIN orphans : Index[b] <= height + MaxGap}
     IN  \E kept \in SUBSET near :
           /\ MakeRoom(near, kept)
           /\ LET young == {b \in kept : now - orphans[b] < OrphanTimeout}
              IN  orphans' = [b \in young \cup {cur} |->
                                IF b = cur THEN now ELSE orphans[b]]
  /\ height' = 0
  /\ pc' = "retry"
  /\ UNCHANGED <<ledger, queue, cur, retry, memory, recent, my_height,
                 submitted, wanted, now>>

StartRound(S) == todo' = S /\ progress' = FALSE

\* reorganize_if_needed for an inserted block, and process_orphan_blocks begins.
Recheck ==
  /\ pc = "recheck"
  /\ \E after \in Reorganized(blocks, chain_tip, cur) : LedgerIs(after)
  /\ StartRound(DOMAIN orphans)
  /\ rounds' = 1
  /\ pc' = "connect"
  /\ UNCHANGED <<queue, cur, height, orphans, memory, recent, my_height,
                 submitted, wanted, now>>

\* The same for an orphan that was stored.
Retry ==
  /\ pc = "retry"
  /\ StartRound(DOMAIN orphans)
  /\ rounds' = 1
  /\ pc' = "connect_orphan"
  /\ UNCHANGED <<ledger, queue, cur, height, orphans, memory, recent, my_height,
                 submitted, wanted, now>>

\* process_orphan_blocks runs: bc and the chain mutex are taken.
Connecting == pc \in {"connect", "connect_orphan"}

\* An orphan whose parent is stored and that is accepted, also as a duplicate.
Connectable(b) == ~ ParentMissing(b) /\ Accepted(b)

\* One orphan is tried; one that is not accepted stays.
TryOrphan(b) ==
  /\ Connecting
  /\ b \in todo
  /\ todo' = todo \ {b}
  /\ IF Connectable(b)
     THEN /\ \E after \in Reorganized(blocks \cup {b}, TipWith(b), b) : LedgerIs(after)
          /\ orphans' = Restrict(orphans, DOMAIN orphans \ {b})
          /\ progress' = TRUE
          /\ memory' = Push(memory, b)
          /\ my_height' = Index[b]
     ELSE UNCHANGED <<ledger, orphans, progress, memory, my_height>>
  /\ UNCHANGED <<queue, pc, cur, height, rounds, recent, submitted, wanted, now>>

\* Mutant: one round only.
LastRound_First == TRUE

\* The loop ends: nothing was connected, or max_iterations.
LastRound == ~ progress \/ rounds = MaxRounds

\* A round that connected something is followed by another.
NextRound ==
  /\ Connecting
  /\ todo = {}
  /\ ~ LastRound
  /\ StartRound(DOMAIN orphans)
  /\ rounds' = rounds + 1
  /\ UNCHANGED <<ledger, queue, pc, cur, height, orphans, memory, recent,
                 my_height, submitted, wanted, now>>

\* The last round: what is older than an hour goes, and the locks are released.
EndConnect ==
  /\ Connecting
  /\ todo = {}
  /\ LastRound
  /\ orphans' = RestrictValues(orphans, LAMBDA t : now - t <= OneHour)
  /\ rounds' = 0 /\ progress' = FALSE
  /\ IF pc = "connect_orphan" THEN pc' = "request" /\ UNCHANGED cur ELSE Finish
  /\ UNCHANGED <<ledger, queue, height, todo, memory, recent, my_height,
                 submitted, wanted, now>>

\* Mutant: only the first orphan of the pool is followed up.
RequestParent_Once ==
  /\ pc = "request"
  /\ wanted' = IF Cardinality(DOMAIN orphans) > 1 THEN wanted
               ELSE wanted \cup {Prev[cur]}
  /\ Finish
  /\ UNCHANGED <<ledger, queue, height, orphans, retry, memory, recent,
                 my_height, submitted, now>>

\* request_block_by_hash for the parent.
RequestParent ==
  /\ pc = "request"
  /\ wanted' = wanted \cup {Prev[cur]}
  /\ Finish
  /\ UNCHANGED <<ledger, queue, height, orphans, retry, memory, recent,
                 my_height, submitted, now>>

-----------------------------------------------------------------------------
(* POST /mining/submit *)

\* validate_and_insert_block; a rejection changes nothing, a duplicate is Ok.
Submit(b) ==
  /\ submitted = NoBlock
  /\ ~ Connecting
  /\ Accepted(b)
  /\ blocks' = blocks \cup {b}
  /\ chain_tip' = TipWith(b)
  /\ submitted' = b
  /\ UNCHANGED <<queue, pc, cur, height, orphans, retry, memory, recent,
                 my_height, wanted, now>>

\* The handler goes on with the chain mutex and the advertised height.
BookSubmit ==
  /\ submitted # NoBlock
  /\ ~ Connecting
  /\ memory' = Push(memory, submitted)
  /\ LET all == [b \in DOMAIN recent \cup {submitted} |->
                   IF b = submitted THEN now ELSE recent[b]]
     IN  recent' = RestrictValues(all, LAMBDA t : now - t < RecentTtl)
  /\ my_height' = Index[submitted]
  /\ submitted' = NoBlock
  /\ UNCHANGED <<ledger, queue, pc, cur, height, orphans, retry, wanted, now>>

-----------------------------------------------------------------------------
(* Specification *)

Init ==
  /\ blocks = {} /\ chain_tip = NoBlock
  /\ queue = <<>>
  /\ pc = "receive" /\ cur = NoBlock /\ height = 0
  /\ orphans = [b \in {} |-> 0] /\ todo = {} /\ rounds = 0 /\ progress = FALSE
  /\ memory = <<>> /\ recent = [b \in {} |-> 0]
  /\ my_height = 0
  /\ submitted = NoBlock
  /\ wanted = {}
  /\ now = 0

Process ==
  \/ Receive \/ SkipKnown \/ Insert \/ StoreFork \/ FindOrphan \/ Book
  \/ StoreOrphan \/ Recheck \/ Retry \/ NextRound \/ EndConnect \/ RequestParent
  \/ \E b \in Block : TryOrphan(b)

Next ==
  \/ Process
  \/ \E b \in Block : Deliver(b) \/ Answer(b)
  \/ \E b \in Mined : Submit(b)
  \/ BookSubmit
  \/ Tick

Spec == Init /\ [][Next]_vars

\* The task and the handler keep running, and some peer answers a request (the
\* bound on the queue, which is the model's, may interrupt it).
FairSpec ==
  /\ Spec
  /\ WF_vars(Process)
  /\ WF_vars(BookSubmit)
  /\ \A b \in Block : SF_vars(Answer(b))

-----------------------------------------------------------------------------
(* Properties *)

\* The processor's state is typed, and no task waits for a block it has lost.
TypeOK ==
  /\ blocks \subseteq Block
  /\ chain_tip \in Block \cup {NoBlock}
  /\ queue \in Seq(Block)
  /\ pc \in {"receive", "insert", "added", "switched", "recheck", "orphan",
             "retry", "connect", "connect_orphan", "request"}
  /\ cur \in Block \cup {NoBlock} /\ (cur = NoBlock <=> pc = "receive")
  /\ height \in Nat
  /\ DOMAIN orphans \subseteq Block /\ \A b \in DOMAIN orphans : orphans[b] \in Nat
  /\ todo \subseteq DOMAIN orphans
  /\ rounds \in 0..MaxRounds /\ progress \in BOOLEAN
  /\ memory \in Seq(Block)
  /\ DOMAIN recent \subseteq Block /\ \A b \in DOMAIN recent : recent[b] \in Nat
  /\ my_height \in Nat
  /\ submitted \in Block \cup {NoBlock}
  /\ wanted \subseteq Block
  /\ now \in Nat

\* The orphan pool never holds more than MAX_ORPHAN_BLOCKS blocks, whatever was
\* evicted, timed out or connected before (service.rs, the orphan branch).
PoolBounded == Cardinality(DOMAIN orphans) <= MaxOrphans

\* When process_orphan_blocks gives back its locks no orphan is left that could
\* be connected: max_iterations rounds are enough for a full pool, in whatever
\* order the hash map yields the orphans.
NothingLeftToConnect ==
  [][Connecting /\ ~ Connecting' =>
       \A b \in DOMAIN orphans' : ~ Connectable(b)']_vars

\* The backward search goes on: the parent of an orphan is found, is an orphan
\* in its turn, or is a block mined here, which the processor ignores.
BackwardSearch ==
  \A b \in Block :
    b \in DOMAIN orphans ~> Prev[b] \in blocks \cup DOMAIN orphans \cup DOMAIN recent
=============================================================================
