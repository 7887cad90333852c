------------------------------ MODULE SyncProofs ------------------------------
(***************************************************************************)
(* The synchronization loop bans nobody unjustly, for any number of peers, *)
(* any chain and any timeouts.  The code never looks at what the target    *)
(* itself has delivered: it looks at the stall clock, which it restarts    *)
(* for several reasons, and at the time since the last block of anyone.    *)
(* The argument is that one of the two is always a lower bound of how long *)
(* the target has been idle.                                               *)
(***************************************************************************)
EXTENDS Sync, TLAPS

Clock == 0 .. StallAfter

\* The target's idleness is at least the age of the stall clock or the age of
\* the last block.
IInv ==
  /\ stall \in Clock /\ quiet \in Clock /\ idle \in Clock
  /\ ban \in [Peer -> Nat]
  /\ idle >= stall \/ idle >= quiet

\* A clock that runs up to its limit stays within it, never goes back, keeps
\* the order of two clocks and is no longer 0 after a second.
LEMMA LaterFacts ==
  ASSUME NEW a \in Clock, NEW b \in Clock
  PROVE  /\ Later(a, StallAfter) \in Clock
         /\ Later(a, StallAfter) >= 1
         /\ a >= b => Later(a, StallAfter) >= Later(b, StallAfter)
         /\ Later(0, StallAfter) = 1
<1>1. StallAfter \in Nat /\ StallAfter # 0
  BY ConstantsTyped
<1> QED
  BY <1>1 DEF Later, Clock

\* A second of sleep keeps the types and lengthens no ban.
LEMMA SleepFacts ==
  ASSUME IInv, Sleep
  PROVE  /\ quiet' = Later(quiet, StallAfter)
         /\ ban' \in [Peer -> Nat]
         /\ \A p \in Peer : ~ (ban'[p] > ban[p])
BY DEF IInv, Sleep

\* While the loop follows a peer, the clock of a target that is replaced starts
\* at the same time as its idleness.
LEMMA FollowKeeps ==
  ASSUME IInv, NEW p \in Peer, Follow(p)
  PROVE  IInv'
<1>1. quiet' = Later(quiet, StallAfter) /\ ban' \in [Peer -> Nat]
  BY SleepFacts DEF Follow
<1>2. /\ Later(quiet, StallAfter) \in Clock /\ Later(idle, StallAfter) \in Clock
      /\ Later(idle, StallAfter) >= 1 /\ Later(0, StallAfter) = 1
      /\ Later(stall, StallAfter) \in Clock
      /\ idle >= stall => Later(idle, StallAfter) >= Later(stall, StallAfter)
      /\ idle >= quiet => Later(idle, StallAfter) >= Later(quiet, StallAfter)
  BY LaterFacts DEF IInv
<1>3. StallAfter \in Nat \ {0}
  BY ConstantsTyped
<1>4. /\ idle' = IF p = target THEN Later(idle, StallAfter) ELSE 1
      /\ stall' = IF MyHeight > ProgressOf \/ StallOf >= StallAfter THEN 1
                  ELSE Later(StallOf, StallAfter)
      /\ p \in (IF StillValid THEN {target} ELSE Best)
  BY DEF Follow
<1>5. CASE StillValid
  <2>1. p = target /\ StallOf = stall
    BY <1>4, <1>5 DEF StallOf
  <2>2. stall' = 1 \/ stall' = Later(stall, StallAfter)
    BY <1>4, <2>1
  <2>3. idle' = Later(idle, StallAfter)
    BY <1>4, <2>1
  <2> QED
    BY <1>1, <1>2, <1>3, <2>2, <2>3 DEF IInv, Clock
<1>6. CASE ~ StillValid
  <2>1. StallOf = 0
    BY <1>6 DEF StallOf
  <2>2. stall' = 1
    BY <1>2, <1>4, <2>1
  <2>3. idle' \in Clock /\ idle' >= 1
    BY <1>2, <1>3, <1>4 DEF Clock
  <2> QED
    BY <1>1, <1>2, <1>3, <2>2, <2>3 DEF IInv, Clock
<1> QED
  BY <1>5, <1>6

\* A block that arrives resets the quiet time.
LEMMA ArrivalKeeps ==
  ASSUME IInv, NEW p, NEW n, NEW sent, Arrives(p, n, sent)
  PROVE  IInv' /\ ban' = ban
<1>1. quiet' = 0 /\ stall' = stall /\ ban' = ban
  BY DEF Arrives, loop
<1>2. idle' = IF p = target THEN 0 ELSE idle
  BY DEF Arrives
<1> QED
  BY <1>1, <1>2, ConstantsTyped DEF IInv, Clock

\* The target is forgotten together with its clocks.
LEMMA UntargetedFacts ==
  ASSUME Untargeted
  PROVE  stall' = 0 /\ idle' = 0 /\ target' = NoPeer
BY DEF Untargeted

\* Of the steps only a ban writes a larger entry.
LEMMA BanKeeps ==
  ASSUME IInv, BanTarget
  PROVE  IInv'
<1>1. PICK p \in (IF StillValid THEN {target} ELSE Best) :
        ban' = [ban EXCEPT ![p] = BanFor]
  BY DEF BanTarget
<1>2. ban' \in [Peer -> Nat]
  BY <1>1, ConstantsTyped DEF IInv
<1>3. stall' = 0 /\ idle' = 0 /\ quiet' = quiet
  BY UntargetedFacts DEF BanTarget
<1> QED
  BY <1>2, <1>3, ConstantsTyped DEF IInv, Clock

\* The steps that leave the clocks alone.
LEMMA OthersKeep ==
  ASSUME IInv, UNCHANGED <<stall, quiet, idle, ban>>
  PROVE  IInv'
BY DEF IInv, Clock

\* A round that finds nobody ahead clears stall clock and idleness together.
LEMMA SyncedKeeps ==
  ASSUME IInv, Synced
  PROVE  IInv'
<1>1. quiet' = Later(quiet, StallAfter) /\ ban' \in [Peer -> Nat]
  BY SleepFacts DEF Synced
<1>2. stall' = 0 /\ idle' = 0
  BY UntargetedFacts DEF Synced
<1>3. Later(quiet, StallAfter) \in Clock
  BY LaterFacts DEF IInv
<1> QED
  BY <1>1, <1>2, <1>3, ConstantsTyped DEF IInv, Clock

\* IInv is inductive.
LEMMA IInvInductive ==
  IInv /\ [Next]_vars => IInv'
<1> SUFFICES ASSUME IInv, [Next]_vars PROVE IInv'
  OBVIOUS
<1>1. ASSUME NEW p \in Peer, Join(p) PROVE IInv'
  BY <1>1, OthersKeep DEF Join, loop
<1>2. ASSUME NEW p \in Peer, Leave(p) PROVE IInv'
  BY <1>2, OthersKeep DEF Leave, loop
<1>3. ASSUME NEW p \in Peer, Answers(p) PROVE IInv'
  BY <1>3, OthersKeep DEF Answers, Answer, loop
<1>4. ASSUME NEW p \in Peer, Deliver(p) PROVE IInv'
  BY <1>4, ArrivalKeeps DEF Deliver
<1>5. ASSUME NEW p \in Peer, Broadcast(p) PROVE IInv'
  BY <1>5, ArrivalKeeps DEF Broadcast
<1>6. CASE MineOwn
  BY <1>6, OthersKeep DEF MineOwn, loop
<1>7. CASE Iterate
  BY <1>7, FollowKeeps, BanKeeps, SyncedKeeps DEF Iterate
<1>8. CASE UNCHANGED vars
  BY <1>8, OthersKeep DEF vars
<1> QED
  BY <1>1, <1>2, <1>3, <1>4, <1>5, <1>6, <1>7, <1>8 DEF Next

\* What a ban says of the target.
LEMMA BanJustified ==
  ASSUME IInv, BanTarget, NEW p \in Peer, ban'[p] > ban[p]
  PROVE  p = target /\ idle >= StallAfter
<1>1. Stalled
  BY DEF BanTarget
<1>2. StallAfter \in Nat \ {0}
  BY ConstantsTyped
<1>3. StillValid /\ StallOf = stall
  BY <1>1, <1>2 DEF Stalled, StallOf
<1>4. ban' = [ban EXCEPT ![target] = BanFor]
  BY <1>3 DEF BanTarget
<1>5. p = target
  <2> SUFFICES ASSUME p # target PROVE FALSE
    OBVIOUS
  <2>1. ban'[p] = ban[p]
    BY <1>4 DEF IInv
  <2>2. ban[p] \in Nat
    BY DEF IInv
  <2> QED
    BY <2>1, <2>2
<1>6. stall >= StallAfter /\ quiet >= StallAfter
  BY <1>1, <1>3 DEF Stalled
<1> QED
  BY <1>2, <1>5, <1>6 DEF IInv, Clock

\* A step that keeps the bans bans nobody.
LEMMA NobodyBanned ==
  ASSUME IInv, ban' = ban
  PROVE  \A p \in Peer : ~ (ban'[p] > ban[p])
BY DEF IInv

\* The step condition of BansOnlyIdle.
BanStep == \A p \in Peer : ban'[p] > ban[p] => p = target /\ idle >= StallAfter

\* Every step satisfies it.
LEMMA StepBansOnlyIdle ==
  IInv /\ [Next]_vars => BanStep
<1> SUFFICES ASSUME IInv, [Next]_vars PROVE BanStep
  OBVIOUS
<1>1. ASSUME NEW p \in Peer, Join(p) \/ Leave(p) \/ Answers(p) PROVE ban' = ban
  BY <1>1 DEF Join, Leave, Answers, Answer, loop
<1>2. ASSUME NEW p \in Peer, Deliver(p) \/ Broadcast(p) PROVE ban' = ban
  BY <1>2, ArrivalKeeps DEF Deliver, Broadcast
<1>3. CASE MineOwn \/ UNCHANGED vars
  <2>1. ban' = ban
    BY <1>3 DEF MineOwn, loop, vars
  <2> QED
    BY <2>1, NobodyBanned DEF BanStep
<1>4. CASE \E p \in Peer : Follow(p)
  BY <1>4, SleepFacts DEF Follow, BanStep
<1>5. CASE Synced
  BY <1>5, SleepFacts DEF Synced, BanStep
<1>6. CASE BanTarget
  BY <1>6, BanJustified DEF BanStep
<1>7. CASE \E p \in Peer : Join(p) \/ Leave(p) \/ Answers(p) \/ Deliver(p) \/ Broadcast(p)
  <2>1. ban' = ban
    BY <1>1, <1>2, <1>7
  <2> QED
    BY <2>1, NobodyBanned DEF BanStep
<1> QED
  BY <1>3, <1>4, <1>5, <1>6, <1>7 DEF Next, Iterate

\* A block from anyone and the two clocks are all that the code looks at, and
\* it is enough: only the target is banned, and only when it has delivered
\* nothing for PEER_STALL_SECS.
THEOREM OnlyIdleBanned == Spec => BansOnlyIdle
<1>1. Init => IInv
  BY ConstantsTyped DEF Init, IInv, Clock
<1>2. BansOnlyIdle <=> [][BanStep]_vars
  BY DEF BansOnlyIdle, BanStep
<1>3. IInv /\ [Next]_vars => [BanStep]_vars
  BY StepBansOnlyIdle
<1> QED
  BY <1>1, <1>2, <1>3, IInvInductive, PTL DEF Spec
=============================================================================
