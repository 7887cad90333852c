-------------------------------- MODULE Sync --------------------------------
(***************************************************************************)
(* Header synchronization: the loop of start_block_sync (p2p/service.rs)   *)
(* that picks a peer, asks it for headers, waits for progress and bans it  *)
(* when it stalls, with the handlers of the messages it depends on         *)
(* (p2p/manager.rs) and the wait of the start-up (main.rs).                *)
(*                                                                         *)
(* The peers share one chain, of which each has a prefix; its blocks are   *)
(* numbered by their index.  This node may have mined a block of its own   *)
(* instead, which no peer takes over, and leaves it for a longer chain.    *)
(* Time is counted in iterations of the loop, one second each, and a time  *)
(* that the code remembers is the age it has reached, up to the age that   *)
(* matters.  How a block is processed is detailed in Processor.            *)
(***************************************************************************)
EXTENDS Integers, FiniteSets, FiniteSetsExt

CONSTANTS
  Peer,
  Honest,       \* peers that stay, report their height and answer
  NoPeer,       \* sync_peer is None
  StartHeight,  \* length of each peer's chain at first
  MaxHeight,    \* bound on the length of the chain
  MaxJoins,     \* bound on the connections of the other peers
  Claims,       \* heights that the other peers report
  Batch,        \* headers of an answer, 200
  LocatorDepth, \* hashes of the handshake's locator, 10
  StallAfter,   \* PEER_STALL_SECS
  BanFor,       \* BAN_DURATION
  Cooldown,     \* GETHEADERS_COOLDOWN
  Refresh       \* HEIGHT_REFRESH_INTERVAL

ASSUME ConstantsTyped ==
  /\ Honest \subseteq Peer /\ NoPeer \notin Peer
  /\ {MaxHeight, Batch, LocatorDepth, StallAfter, BanFor, Cooldown,
      Refresh} \subseteq Nat \ {0}
  /\ StartHeight \in [Peer -> 1 .. MaxHeight] /\ MaxJoins \in Nat /\ Claims \subseteq 0 .. MaxHeight

VARIABLES
  have,        \* how many blocks of the peers' chain are stored
  forkAt,      \* index of this node's own block, 0 when there is none
  orphans,     \* ChainState.orphan_blocks
  chain,       \* how many blocks a peer has
  linked,      \* peers of the table peers
  heights,     \* peer_heights; 0 where there is no entry
  asked,       \* locators of the GetHeaders a peer has not answered
  sending,     \* blocks that were asked of a peer
  syncing,     \* is_syncing, and last_syncing_state of the loop
  target,      \* sync_peer
  progress,    \* last_progress_height
  stall,       \* age of last_progress_time
  quiet,       \* age of last_block_received_at
  lastAsk,     \* age of last_getheaders_sent
  lastRefresh, \* age of last_height_refresh
  ban,         \* sync_blacklist, as the time that is left
  joins,       \* connections of other peers so far
  idle         \* how long the target has delivered nothing

ledger == <<have, forkAt, orphans>>
network == <<chain, linked, heights, asked, sending, joins>>
loop == <<target, progress, stall, lastAsk, lastRefresh, ban, syncing>>
vars == <<have, forkAt, orphans, chain, linked, heights, asked, sending, syncing,
          target, progress, stall, quiet, lastAsk, lastRefresh, ban, joins, idle>>

Block == 0 .. MaxHeight - 1
Other == Peer \ Honest

\* The tip is the block that came first among the highest ones.
OnFork == forkAt > 0 /\ have <= forkAt + 1
MyHeight == IF OnFork THEN forkAt + 1 ELSE have

\* The genesis block is there and the honest peers have shaken hands.
Init ==
  /\ have = 1 /\ forkAt = 0 /\ orphans = {}
  /\ chain = StartHeight
  /\ linked = Honest
  /\ heights = [p \in Peer |-> IF p \in Honest THEN StartHeight[p] - 1 ELSE 0]
  /\ asked = [p \in Peer |-> IF p \in Honest THEN {{0}} ELSE {}]
  /\ sending = [p \in Peer |-> {}]
  /\ syncing = TRUE
  /\ target = NoPeer /\ progress = 0 /\ stall = 0
  /\ quiet = StallAfter
  /\ lastAsk = Cooldown /\ lastRefresh = 0
  /\ ban = [p \in Peer |-> 0]
  /\ joins = 0
  /\ idle = 0

-----------------------------------------------------------------------------
(* Connections *)

\* The locator of the loop: the tip alone, which on a fork no peer knows.
TipLocator == IF OnFork THEN {} ELSE {have - 1}

\* The locator of the handshake, from the tip backwards.
DeepLocator ==
  IF OnFork THEN {n \in Block : forkAt - LocatorDepth < n /\ n < forkAt}
  ELSE {n \in Block : have - LocatorDepth <= n /\ n < have}

\* A peer connects, reports a height, which should be the index of its tip, and
\* is asked for headers.
Join(p) ==
  /\ p \notin linked /\ joins < MaxJoins
  /\ \E h \in Claims : heights' = [heights EXCEPT ![p] = h]
  /\ joins' = joins + 1
  /\ linked' = linked \cup {p}
  /\ asked' = [asked EXCEPT ![p] = {DeepLocator}]
  /\ UNCHANGED <<ledger, chain, sending, loop, quiet, idle>>

\* Its ban, if any, is kept.
Leave(p) ==
  /\ p \in linked /\ p \in Other
  /\ linked' = linked \ {p}
  /\ heights' = [heights EXCEPT ![p] = 0]
  /\ asked' = [asked EXCEPT ![p] = {}]
  /\ sending' = [sending EXCEPT ![p] = {}]
  /\ UNCHANGED <<ledger, chain, joins, loop, quiet, idle>>

-----------------------------------------------------------------------------
(* Messages *)

\* on_getheaders: from behind the first block of the locator that p knows.
\* The tip comes first, so that is the highest one.
StartIndex(p, locator) ==
  LET known == {n \in locator : n < chain[p]}
  IN  IF known = {} THEN 0 ELSE Max(known) + 1

HeadersOf(p, locator) ==
  LET start == StartIndex(p, locator)
  IN  {n \in Block : start <= n /\ n < start + Batch /\ n < chain[p]}

\* Blocks that p has queued for this node on a GetData.
Served(p, wanted) == sending[p] \cup {n \in wanted : n < chain[p]}

\* check_block_exists: a block of the database is not asked for again.
Missing(headers) == {n \in headers : n >= have}

\* p answers a GetHeaders and the Headers handler asks it for the blocks.
Answer(p, locator) ==
  LET headers == HeadersOf(p, locator)
  IN  /\ locator \in asked[p]
      /\ asked' = [asked EXCEPT ![p] = @ \ {locator}]
      /\ heights' = [heights EXCEPT ![p] =
           IF headers # {} /\ Max(headers) + 1 > @ THEN Max(headers) + 1 ELSE @]
      /\ sending' = [sending EXCEPT ![p] = Served(p, Missing(headers))]
      /\ UNCHANGED <<ledger, chain, linked, joins, loop, quiet, idle>>

\* process_orphan_blocks: stored blocks whose parent is the tip are inserted.
Connected(h, orph) ==
  CHOOSE k \in h .. MaxHeight : k \notin orph /\ \A j \in h .. k - 1 : j \in orph

\* The block is appended, stored as a fork block, which tries no orphan, or
\* kept as an orphan, whose parent is asked of every peer.  That a block far above
\* the tip is dropped, and that the pool is limited, is left to Processor: the
\* heights of the run stay below both limits.
Process(n, sent) ==
  \/ /\ n < have
     /\ sending' = sent
     /\ UNCHANGED <<have, orphans>>
  \/ /\ n = have /\ ~ OnFork
     /\ have' = Connected(n + 1, orphans)
     /\ orphans' = {m \in orphans : m >= have'}
     /\ sending' = sent
  \/ /\ n = have /\ OnFork
     /\ have' = n + 1
     /\ sending' = sent
     /\ UNCHANGED orphans
  \/ /\ n > have
     /\ LET h == IF OnFork THEN have ELSE Connected(have, orphans)
        IN  /\ have' = h
            /\ orphans' = {m \in orphans \cup {n} : m >= h}
     /\ sending' = [p \in Peer |->
          IF p \in linked /\ n - 1 < chain[p] THEN sent[p] \cup {n - 1} ELSE sent[p]]

\* A block of p arrives.
Arrives(p, n, sent) ==
  /\ Process(n, sent)
  /\ quiet' = 0
  /\ idle' = IF p = target THEN 0 ELSE idle
  /\ UNCHANGED <<forkAt, linked, heights, asked, joins, loop>>

\* p delivers the blocks that were asked of it, in order.
Deliver(p) ==
  /\ sending[p] # {}
  /\ LET n == Min(sending[p])
     IN  Arrives(p, n, [sending EXCEPT ![p] = @ \ {n}])
  /\ UNCHANGED chain

\* An honest peer mines or takes over a block and broadcasts it.
Broadcast(p) ==
  /\ p \in Honest /\ chain[p] < MaxHeight
  /\ chain' = [chain EXCEPT ![p] = @ + 1]
  /\ Arrives(p, chain[p], sending)

\* This node mines a block on its tip, once and below the bound.
MineOwn ==
  /\ forkAt = 0 /\ have + 1 < MaxHeight
  /\ forkAt' = have
  /\ UNCHANGED <<have, orphans, network, loop, quiet, idle>>

-----------------------------------------------------------------------------
(* The loop *)

\* Mutant: a ban is forgotten.
Eligible_Banned == linked

\* get_best_sync_peer; of equally high peers the map's order decides.
Eligible == {p \in linked : ban[p] = 0}

Best == {p \in Eligible : \A q \in Eligible : heights[q] <= heights[p]}

\* should_sync; sync_blockchain, for which the start-up waits, polls it too.
Behind == \E p \in Eligible : heights[p] > MyHeight

\* The current target is kept while it is connected, not banned and ahead.
StillValid == target \in Eligible /\ heights[target] > MyHeight

\* Mutant: a new target inherits the clock of the old one.
StallOf_Inherited == stall

\* The stall tracker starts anew with a new target.
StallOf == IF StillValid THEN stall ELSE 0

ProgressOf == IF StillValid THEN progress ELSE MyHeight

Later(age, limit) == IF age < limit THEN age + 1 ELSE limit

\* sync_peer is None; what the tracker holds is not read until a peer is
\* targeted, which overwrites it.
Untargeted == target' = NoPeer /\ progress' = 0 /\ stall' = 0 /\ idle' = 0

\* One second passes.
Sleep ==
  /\ quiet' = Later(quiet, StallAfter)
  /\ ban' = [p \in Peer |-> IF ban[p] > 0 THEN ban[p] - 1 ELSE 0]

\* No progress and no block, from whomever, for StallAfter.
Stalled ==
  MyHeight <= ProgressOf /\ StallOf >= StallAfter /\ quiet >= StallAfter

\* The loop follows p and asks it for headers now and then.
Follow(p) ==
  /\ Behind /\ ~ Stalled
  /\ p \in (IF StillValid THEN {target} ELSE Best)
  /\ syncing' = TRUE
  /\ target' = p
  /\ progress' = IF MyHeight > ProgressOf THEN MyHeight ELSE ProgressOf
  /\ stall' = IF MyHeight > ProgressOf \/ StallOf >= StallAfter THEN 1
              ELSE Later(StallOf, StallAfter)
  /\ \/ /\ lastAsk >= Cooldown
        /\ asked' = [asked EXCEPT ![p] = @ \cup {TipLocator}]
        /\ lastAsk' = Later(0, Cooldown)
     \/ /\ lastAsk < Cooldown
        /\ lastAsk' = lastAsk + 1
        /\ UNCHANGED asked
  /\ lastRefresh' = 0
  /\ idle' = IF p = target THEN Later(idle, StallAfter) ELSE 1
  /\ Sleep
  /\ UNCHANGED <<ledger, chain, linked, heights, sending, joins>>

\* The target is banned; the next iteration follows at once.
BanTarget ==
  /\ Behind /\ Stalled
  /\ \E p \in (IF StillValid THEN {target} ELSE Best) :
       ban' = [ban EXCEPT ![p] = BanFor]
  /\ syncing' = TRUE
  /\ Untargeted
  /\ UNCHANGED <<ledger, network, quiet, lastAsk, lastRefresh>>

\* Mutant: heights are not refreshed.
RefreshDue_Never == FALSE

RefreshDue == syncing \/ lastRefresh >= Refresh

\* No peer that may be asked is ahead: caught up, or all of those are banned.
Synced ==
  /\ ~ Behind
  /\ syncing' = FALSE
  /\ Untargeted
  /\ \/ /\ RefreshDue
        /\ asked' = [p \in Peer |->
             IF p \in linked THEN asked[p] \cup {TipLocator} ELSE asked[p]]
        /\ lastRefresh' = Later(0, Refresh)
     \/ /\ ~ RefreshDue
        /\ lastRefresh' = Later(lastRefresh, Refresh)
        /\ UNCHANGED asked
  /\ lastAsk' = Later(lastAsk, Cooldown)
  /\ Sleep
  /\ UNCHANGED <<ledger, chain, linked, heights, sending, joins>>

Iterate == (\E p \in Peer : Follow(p)) \/ BanTarget \/ Synced

-----------------------------------------------------------------------------
Answers(p) == \E locator \in asked[p] : Answer(p, locator)

Next ==
  \/ \E p \in Peer : Join(p) \/ Leave(p) \/ Answers(p) \/ Deliver(p) \/ Broadcast(p)
  \/ MineOwn \/ Iterate

Spec == Init /\ [][Next]_vars

\* The loop's sleep ends; honest peers answer and deliver.
FairSpec ==
  /\ Spec
  /\ WF_vars(Iterate)
  /\ \A p \in Honest :
       WF_vars(Answers(p)) /\ WF_vars(Deliver(p))

-----------------------------------------------------------------------------
(* Properties *)

\* Type invariant.
TypeOK ==
  /\ have \in 1 .. MaxHeight /\ forkAt \in 0 .. MaxHeight /\ orphans \subseteq Block
  /\ chain \in [Peer -> 1 .. MaxHeight]
  /\ linked \subseteq Peer
  /\ heights \in [Peer -> 0 .. MaxHeight]
  /\ asked \in [Peer -> SUBSET SUBSET Block]
  /\ sending \in [Peer -> SUBSET Block]
  /\ syncing \in BOOLEAN
  /\ target \in Peer \cup {NoPeer}
  /\ progress \in 0 .. MaxHeight + 1
  /\ {stall, quiet, idle} \subseteq 0 .. StallAfter
  /\ lastAsk \in 0 .. Cooldown /\ lastRefresh \in 0 .. Refresh
  /\ ban \in [Peer -> 0 .. BanFor]
  /\ joins \in 0 .. MaxJoins

\* This node's own block lies so far up that the headers of an answer to a
\* locator nobody knows, which begin at genesis, do not get past it.
Stranded == OnFork /\ forkAt + 2 > Batch

\* This node catches up with every honest peer, whatever other peers claim,
\* however often they stall, leave and come back, unless it is stranded on a
\* block of its own.
CatchesUp == \A p \in Honest : []<>(MyHeight >= chain[p] \/ Stranded)

\* Synchronization, during which announcements are ignored and the start-up
\* waits, does not go on for ever, although a peer may claim a height that it
\* never delivers.
SyncEnds == []<>(~ syncing)

\* Only the peer that the loop follows is banned, and only if it has been
\* followed for StallAfter without delivering a block, even when the loop has
\* changed its mind in between.
BansOnlyIdle ==
  [][\A p \in Peer : ban'[p] > ban[p] => p = target /\ idle >= StallAfter]_vars
=============================================================================
