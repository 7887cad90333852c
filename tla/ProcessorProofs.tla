-------------------------- MODULE ProcessorProofs --------------------------
(***************************************************************************)
(* Safety of Processor for every set of blocks, every capacity of the      *)
(* orphan pool and every number of rounds that is not below it.            *)
(***************************************************************************)
EXTENDS Processor, TLAPS, FiniteSetTheorems

-----------------------------------------------------------------------------
(* The inductive invariant *)

\* Only an orphan's handling leads to "request", and an orphan has a parent.
OrphanAtHand ==
  pc \in {"orphan", "retry", "connect_orphan", "request"} => Index[cur] > 0

\* Nothing is left to try once the locks are released.
TodoEmpty == Connecting \/ todo = {}

\* The pool is finite and bounded.
PoolFinite == IsFiniteSet(DOMAIN orphans) /\ PoolBounded

\* Every finished round has taken an orphan out of the pool.
RoundsPaid ==
  Connecting =>
    /\ rounds >= 1
    /\ Cardinality(DOMAIN orphans) + rounds + (IF progress THEN 1 ELSE 0)
         <= MaxOrphans + 1

\* As long as a round has connected nothing, what it tried cannot be connected.
TriedInVain ==
  Connecting /\ ~ progress =>
    \A b \in DOMAIN orphans \ todo : ~ Connectable(b)

IInv ==
  /\ TypeOK /\ OrphanAtHand /\ TodoEmpty
  /\ PoolFinite /\ RoundsPaid /\ TriedInVain

-----------------------------------------------------------------------------
(* The operators *)

\* A reorganization, whatever its outcome, leaves stored blocks and a tip that
\* are blocks.
LEMMA ReorganizedType ==
  ASSUME NEW B \in SUBSET Block, NEW t \in Block \cup {NoBlock}, NEW b \in Block,
         NEW after \in Reorganized(B, t, b)
  PROVE  after[1] \subseteq Block /\ after[2] \in Block \cup {NoBlock}
BY DEF Reorganized

\* enforce_memory_limit keeps a list of blocks.
LEMMA PushType ==
  ASSUME NEW s \in Seq(Block), NEW b \in Block
  PROVE  Push(s, b) \in Seq(Block)
<1> DEFINE all == Append(s, b)
<1>1. all \in Seq(Block) /\ Len(all) \in Nat /\ Len(all) >= 1
  OBVIOUS
<1>2. MaxMemory \in Nat
  BY Parameters
<1>3. CASE Len(all) > MaxMemory
  <2>1. \A q \in Seq(Block) : \A m \in 1..(Len(q) + 1) : SubSeq(q, m, Len(q)) \in Seq(Block)
    OBVIOUS
  <2>2. SubSeq(all, Len(all) - MaxMemory + 1, Len(all)) \in Seq(Block)
    <3>1. Len(all) - MaxMemory + 1 \in 1..(Len(all) + 1)
      BY <1>1, <1>2, <1>3
    <3>2. all \in Seq(Block)
      BY <1>1
    <3> HIDE DEF all
    <3> QED BY <2>1, <3>1, <3>2
  <2> QED BY <1>3, <2>2 DEF Push
<1>4. CASE ~ (Len(all) > MaxMemory)
  BY <1>1, <1>4 DEF Push
<1> QED BY <1>3, <1>4

\* A pool within its bound has room for one more block after MakeRoom.
LEMMA RoomMade ==
  ASSUME NEW S, NEW kept, kept \subseteq S, IsFiniteSet(S),
         Cardinality(S) <= MaxOrphans, MakeRoom(S, kept)
  PROVE  IsFiniteSet(kept) /\ Cardinality(kept) < MaxOrphans
<1>1. Cardinality(S) \in Nat
  BY FS_CardinalityType
<1>2. IsFiniteSet(kept) /\ Cardinality(kept) \in Nat
  BY FS_Subset, FS_CardinalityType
<1>3. MaxOrphans \in Nat
  BY Parameters
<1>4. CASE Cardinality(S) < MaxOrphans
  BY <1>2, <1>4 DEF MakeRoom
<1>5. CASE ~ (Cardinality(S) < MaxOrphans)
  <2>1. Cardinality(S \ kept) = RemoveCount
    BY <1>5 DEF MakeRoom
  <2>2. RemoveCount >= 1 /\ RemoveCount \in Nat
    BY <1>3 DEF RemoveCount
  <2>3. S \cap kept = kept
    OBVIOUS
  <2>4. Cardinality(S \ kept) = Cardinality(S) - Cardinality(kept)
    BY <2>3, FS_Difference
  <2> QED BY <1>1, <1>2, <1>3, <2>1, <2>2, <2>4
<1> QED BY <1>4, <1>5

-----------------------------------------------------------------------------
(* Typing *)

\* The variables start typed.
LEMMA InitTyped == Init => TypeOK /\ OrphanAtHand /\ TodoEmpty
<1> SUFFICES ASSUME Init PROVE TypeOK /\ OrphanAtHand /\ TodoEmpty
  OBVIOUS
<1>1. progress \in BOOLEAN
  BY Zenon DEF Init
<1>2. queue \in Seq(Block) /\ memory \in Seq(Block) /\ rounds \in 0..MaxRounds
  BY Parameters DEF Init
<1>3. DOMAIN orphans = {} /\ DOMAIN recent = {}
  BY DEF Init
<1> QED BY <1>1, <1>2, <1>3 DEF Init, TypeOK, OrphanAtHand, TodoEmpty, Connecting

\* Every step of the processor, the network and the handler keeps them typed.
LEMMA TypePreserved ==
  ASSUME TypeOK, OrphanAtHand, TodoEmpty, [Next]_vars
  PROVE  TypeOK' /\ OrphanAtHand' /\ TodoEmpty'
<1> USE Parameters DEF TypeOK, OrphanAtHand, TodoEmpty, Connecting
<1>1. CASE UNCHANGED vars
  BY <1>1 DEF vars
<1>2. ASSUME NEW b \in Block, Deliver(b) PROVE TypeOK' /\ OrphanAtHand' /\ TodoEmpty'
  <2>1. queue' \in Seq(Block)
    BY <1>2 DEF Deliver, Enqueue
  <2> QED BY <1>2, <2>1 DEF Deliver, ledger, retry
<1>3. ASSUME NEW b \in Block, Answer(b) PROVE TypeOK' /\ OrphanAtHand' /\ TodoEmpty'
  <2>1. queue' \in Seq(Block)
    BY <1>3 DEF Answer, Enqueue
  <2> QED BY <1>3, <2>1 DEF Answer, ledger, retry
<1>4. CASE Tick
  BY <1>4, SMTT(40) DEF Tick, ledger, retry
<1>5. CASE Receive
  <2>1. Head(queue) \in Block /\ queue' \in Seq(Block)
    BY <1>5 DEF Receive
  <2> QED BY <1>5, <2>1 DEF Receive, ledger, retry
<1>6. CASE SkipKnown
  BY <1>6 DEF SkipKnown, Finish, ledger, retry
<1>7. CASE Insert
  BY <1>7 DEF Insert, retry
<1>8. CASE StoreFork
  <2>1. PICK after \in Reorganized(blocks \cup {cur}, chain_tip, cur) :
          /\ LedgerIs(after)
          /\ IF after[2] = cur THEN pc' = "switched" /\ UNCHANGED cur ELSE Finish
    BY <1>8 DEF StoreFork
  <2>2. cur \in Block
    BY <1>8 DEF StoreFork
  <2>3. blocks' \subseteq Block /\ chain_tip' \in Block \cup {NoBlock}
    BY <2>1, <2>2, ReorganizedType DEF LedgerIs
  <2> QED BY <1>8, <2>1, <2>2, <2>3 DEF StoreFork, Finish, retry
<1>9. CASE FindOrphan
  <2>1. TipHeight \in Nat
    BY DEF TipHeight
  <2> QED BY <1>9, <2>1, SMTT(40) DEF FindOrphan, Finish, ParentMissing, ledger, retry
<1>10. CASE Book
  <2>1. cur \in Block
    BY <1>10 DEF Book
  <2>2. memory' \in Seq(Block) /\ my_height' \in Nat
    BY <1>10, <2>1, PushType DEF Book
  <2> QED BY <1>10, <2>1, <2>2 DEF Book, Finish, ledger, retry
<1>11. CASE StoreOrphan
  <2>1. PICK kept \in SUBSET DOMAIN orphans :
          LET young == {b \in kept : now - orphans[b] < OrphanTimeout}
          IN  orphans' = [b \in young \cup {cur} |-> IF b = cur THEN now ELSE orphans[b]]
    BY <1>11 DEF StoreOrphan
  <2>2. cur \in Block /\ todo = {}
    BY <1>11 DEF StoreOrphan
  <2>3. DOMAIN orphans' \subseteq Block /\ \A b \in DOMAIN orphans' : orphans'[b] \in Nat
    BY <2>1, <2>2
  <2> QED BY <1>11, <2>2, <2>3 DEF StoreOrphan, ledger, retry
<1>12. CASE Recheck
  <2>1. cur \in Block
    BY <1>12 DEF Recheck
  <2>2. PICK after \in Reorganized(blocks, chain_tip, cur) : LedgerIs(after)
    BY <1>12 DEF Recheck
  <2>3. blocks' \subseteq Block /\ chain_tip' \in Block \cup {NoBlock}
    BY <2>1, <2>2, ReorganizedType DEF LedgerIs
  <2>4. progress' \in BOOLEAN
    BY <1>12, Zenon DEF Recheck, StartRound
  <2> QED BY <1>12, <2>1, <2>3, <2>4, SMTT(40) DEF Recheck, StartRound
<1>13. CASE Retry
  <2>1. progress' \in BOOLEAN
    BY <1>13, Zenon DEF Retry, StartRound
  <2> QED BY <1>13, <2>1, SMTT(40) DEF Retry, StartRound, ledger
<1>14. CASE NextRound
  <2>1. rounds # MaxRounds
    BY <1>14 DEF NextRound, LastRound
  <2>2. progress' = FALSE /\ todo' = DOMAIN orphans /\ rounds' = rounds + 1
        /\ UNCHANGED <<blocks, chain_tip, queue, pc, cur, height, orphans, memory,
                       recent, my_height, submitted, wanted, now>> /\ Connecting
    BY <1>14, Zenon DEF NextRound, StartRound, ledger
  <2>3. rounds + 1 \in 0..MaxRounds
    BY <2>1
  <2>4. progress' \in BOOLEAN
    BY <2>2, Zenon
  <2> QED BY <2>2, <2>3, <2>4
<1>15. CASE EndConnect
  <2>1. DOMAIN orphans' \subseteq DOMAIN orphans
        /\ \A b \in DOMAIN orphans' : orphans'[b] = orphans[b]
    BY <1>15 DEF EndConnect, RestrictValues, Restrict
  <2>2. /\ Connecting /\ todo' = {} /\ rounds' = 0 /\ progress' = FALSE
        /\ IF pc = "connect_orphan" THEN pc' = "request" /\ cur' = cur
           ELSE pc' = "receive" /\ cur' = NoBlock
        /\ UNCHANGED <<blocks, chain_tip, queue, height, memory, recent,
                       my_height, submitted, wanted, now>>
    BY <1>15, Zenon DEF EndConnect, Finish, ledger
  <2>3. progress' \in BOOLEAN
    BY <2>2, Zenon
  <2> QED BY <2>1, <2>2, <2>3, SMTT(40)
<1>16. CASE RequestParent
  BY <1>16 DEF RequestParent, Finish, ledger, retry
<1>17. ASSUME NEW b \in Block, TryOrphan(b) PROVE TypeOK' /\ OrphanAtHand' /\ TodoEmpty'
  <2>1. CASE Connectable(b)
    <3>1. TipWith(b) \in Block \cup {NoBlock}
      BY DEF TipWith
    <3>2. PICK after \in Reorganized(blocks \cup {b}, TipWith(b), b) : LedgerIs(after)
      BY <1>17, <2>1 DEF TryOrphan
    <3>3. blocks' \subseteq Block /\ chain_tip' \in Block \cup {NoBlock}
      BY <3>1, <3>2, ReorganizedType DEF LedgerIs
    <3>4. memory' \in Seq(Block) /\ my_height' \in Nat
      BY <1>17, <2>1, PushType DEF TryOrphan
    <3>5. DOMAIN orphans' = DOMAIN orphans \ {b}
          /\ \A c \in DOMAIN orphans' : orphans'[c] = orphans[c]
      BY <1>17, <2>1 DEF TryOrphan, Restrict
    <3>6. progress' = TRUE /\ todo' = todo \ {b}
      BY <1>17, <2>1 DEF TryOrphan
    <3> QED BY <1>17, <3>3, <3>4, <3>5, <3>6 DEF TryOrphan
  <2>2. CASE ~ Connectable(b)
    BY <1>17, <2>2 DEF TryOrphan, ledger
  <2> QED BY <2>1, <2>2
<1>18. ASSUME NEW b \in Mined, Submit(b) PROVE TypeOK' /\ OrphanAtHand' /\ TodoEmpty'
  <2>1. TipWith(b) \in Block \cup {NoBlock}
    BY DEF TipWith
  <2> QED BY <1>18, <2>1 DEF Submit, retry
<1>19. CASE BookSubmit
  <2>1. submitted \in Block
    BY <1>19 DEF BookSubmit
  <2>2. memory' \in Seq(Block) /\ my_height' \in Nat
    BY <1>19, <2>1, PushType DEF BookSubmit
  <2>3. DOMAIN recent' \subseteq Block /\ \A b \in DOMAIN recent' : recent'[b] \in Nat
    BY <1>19, <2>1 DEF BookSubmit, RestrictValues, Restrict
  <2> QED BY <1>19, <2>2, <2>3 DEF BookSubmit, ledger, retry
<1> QED
  BY <1>1, <1>2, <1>3, <1>4, <1>5, <1>6, <1>7, <1>8, <1>9, <1>10, <1>11, <1>12,
     <1>13, <1>14, <1>15, <1>16, <1>17, <1>18, <1>19 DEF Next, Process

\* The state of the processor is typed: it never loses the block at hand, and
\* every block it asks for, stores or connects is one.
THEOREM TypeCorrect == Spec => []TypeOK
<1> DEFINE T == TypeOK /\ OrphanAtHand /\ TodoEmpty
<1>1. Init => T
  BY InitTyped
<1>2. T /\ [Next]_vars => T'
  BY TypePreserved
<1> QED BY <1>1, <1>2, PTL DEF Spec

-----------------------------------------------------------------------------
(* The pool and the rounds *)

\* The invariant holds at the start.
LEMMA InitInv == Init => IInv
<1> SUFFICES ASSUME Init PROVE IInv
  OBVIOUS
<1>1. DOMAIN orphans = {}
  BY DEF Init
<1>2. PoolFinite
  BY <1>1, FS_EmptySet, Parameters DEF PoolFinite, PoolBounded
<1>3. ~ Connecting
  BY DEF Init, Connecting
<1> QED BY <1>2, <1>3, InitTyped DEF IInv, RoundsPaid, TriedInVain

\* A round begins with every orphan still to try.
LEMMA RoundStarts ==
  ASSUME IInv, TypeOK', StartRound(DOMAIN orphans), UNCHANGED orphans,
         rounds' \in Nat, rounds' >= 1,
         Cardinality(DOMAIN orphans) + rounds' <= MaxOrphans + 1
  PROVE  PoolFinite' /\ RoundsPaid' /\ TriedInVain'
<1>1. PoolFinite'
  BY DEF IInv, PoolFinite, PoolBounded
<1>2. ~ progress'
  BY Zenon DEF StartRound
<1>3. todo' = DOMAIN orphans'
  BY DEF StartRound
<1>4. Cardinality(DOMAIN orphans) \in Nat /\ MaxOrphans \in Nat
  BY Parameters, FS_CardinalityType DEF IInv, PoolFinite
<1>5. RoundsPaid'
  BY <1>2, <1>4 DEF RoundsPaid
<1>6. TriedInVain'
  BY <1>3 DEF TriedInVain
<1> QED BY <1>1, <1>5, <1>6

\* A step that leaves the pool, the chain and the rounds alone, or happens
\* outside the rounds, keeps the invariant.
LEMMA PoolUntouched ==
  ASSUME IInv, UNCHANGED <<orphans, todo, rounds, progress>>,
         ~ Connecting' \/ (Connecting /\ UNCHANGED <<blocks, chain_tip>>)
  PROVE  PoolFinite' /\ RoundsPaid' /\ TriedInVain'
BY DEF IInv, PoolFinite, PoolBounded, RoundsPaid, TriedInVain, Connectable,
       ParentMissing, Accepted

\* The block at hand enters a pool that has room for it.
LEMMA OrphanStored ==
  ASSUME IInv, StoreOrphan
  PROVE  PoolFinite' /\ ~ Connecting'
<1> DEFINE near == {b \in DOMAIN orphans : Index[b] <= height + MaxGap}
<1>1. PICK kept \in SUBSET near :
        /\ MakeRoom(near, kept)
        /\ DOMAIN orphans' =
             {b \in kept : now - orphans[b] < OrphanTimeout} \cup {cur}
  BY DEF StoreOrphan
<1>2. IsFiniteSet(near) /\ Cardinality(near) <= MaxOrphans
  <2>1. IsFiniteSet(DOMAIN orphans) /\ Cardinality(DOMAIN orphans) <= MaxOrphans
    BY DEF IInv, PoolFinite, PoolBounded
  <2>2. near \in SUBSET DOMAIN orphans
    OBVIOUS
  <2>3. IsFiniteSet(near) /\ Cardinality(near) <= Cardinality(DOMAIN orphans)
    BY <2>1, <2>2, FS_Subset
  <2>4. Cardinality(near) \in Nat /\ Cardinality(DOMAIN orphans) \in Nat
    BY <2>1, <2>3, FS_CardinalityType
  <2> QED BY <2>1, <2>3, <2>4, Parameters
<1>3. IsFiniteSet(kept) /\ Cardinality(kept) < MaxOrphans
  BY <1>1, <1>2, RoomMade
<1> DEFINE young == {b \in kept : now - orphans[b] < OrphanTimeout}
<1>4. IsFiniteSet(young) /\ Cardinality(young) <= Cardinality(kept)
  <2>1. young \in SUBSET kept
    OBVIOUS
  <2> QED BY <1>3, <2>1, FS_Subset
<1>5. Cardinality(young) \in Nat /\ Cardinality(kept) \in Nat
  BY <1>3, <1>4, FS_CardinalityType
<1>6. IsFiniteSet(young \cup {cur}) /\ Cardinality(young \cup {cur}) <= Cardinality(young) + 1
  BY <1>4, <1>5, FS_AddElement
<1>7. Cardinality(young \cup {cur}) <= MaxOrphans
  <2>1. Cardinality(young \cup {cur}) \in Nat
    BY <1>6, FS_CardinalityType
  <2> QED BY <1>3, <1>4, <1>5, <1>6, <2>1, Parameters
<1>8. DOMAIN orphans' = young \cup {cur}
  BY <1>1
<1>9. ~ Connecting'
  BY DEF StoreOrphan, Connecting
<1> QED BY <1>6, <1>7, <1>8, <1>9 DEF PoolFinite, PoolBounded

\* An orphan that is connected pays for its round.
LEMMA OrphanTried ==
  ASSUME IInv, NEW b \in Block, TryOrphan(b)
  PROVE  PoolFinite' /\ RoundsPaid' /\ TriedInVain'
<1>1. b \in DOMAIN orphans /\ Connecting /\ Connecting'
  BY DEF IInv, TypeOK, TryOrphan, Connecting
<1>2. IsFiniteSet(DOMAIN orphans) /\ Cardinality(DOMAIN orphans) \in Nat
  BY FS_CardinalityType DEF IInv, PoolFinite
<1>3. CASE Connectable(b)
  <2>1. DOMAIN orphans' = DOMAIN orphans \ {b} /\ rounds' = rounds
    BY <1>3 DEF TryOrphan, Restrict
  <2>2. progress'
    BY <1>3, Zenon DEF TryOrphan
  <2>3. IsFiniteSet(DOMAIN orphans')
        /\ Cardinality(DOMAIN orphans') = Cardinality(DOMAIN orphans) - 1
    BY <1>1, <1>2, <2>1, FS_RemoveElement
  <2>4. Cardinality(DOMAIN orphans) + rounds <= MaxOrphans + 1 /\ rounds >= 1
        /\ rounds \in Nat /\ MaxOrphans \in Nat
    <3>1. rounds \in Nat /\ MaxOrphans \in Nat
      BY Parameters DEF IInv, TypeOK
    <3> QED BY <1>1, <1>2, <3>1 DEF IInv, RoundsPaid
  <2>5. PoolFinite'
    BY <1>2, <2>3, <2>4 DEF IInv, PoolFinite, PoolBounded
  <2>6. RoundsPaid'
    BY <1>2, <2>1, <2>2, <2>3, <2>4 DEF RoundsPaid
  <2> QED BY <2>2, <2>5, <2>6 DEF TriedInVain
<1>4. CASE ~ Connectable(b)
  <2>1. UNCHANGED <<blocks, chain_tip, orphans, rounds, progress>> /\ todo' = todo \ {b}
    BY <1>4 DEF TryOrphan, ledger
  <2>2. PoolFinite' /\ RoundsPaid'
    BY <1>1, <2>1 DEF IInv, PoolFinite, PoolBounded, RoundsPaid
  <2>3. \A c \in Block : Connectable(c)' <=> Connectable(c)
    BY <2>1 DEF Connectable, ParentMissing, Accepted
  <2>4. TriedInVain'
    <3>1. SUFFICES ASSUME ~ progress, NEW c \in DOMAIN orphans', c \notin todo'
                   PROVE  ~ Connectable(c)'
      BY <2>1 DEF TriedInVain
    <3>2. c \in Block /\ c \in DOMAIN orphans
      BY <2>1, <3>1 DEF IInv, TypeOK
    <3>3. CASE c = b
      BY <1>4, <2>3, <3>2, <3>3
    <3>4. CASE c # b
      <4>1. c \notin todo
        BY <2>1, <3>1, <3>4
      <4>2. ~ Connectable(c)
        BY <1>1, <3>1, <3>2, <4>1 DEF IInv, TriedInVain
      <4> QED BY <2>3, <3>2, <4>2
    <3> QED BY <3>3, <3>4
  <2> QED BY <2>2, <2>4
<1> QED BY <1>3, <1>4

\* Every step keeps the invariant.
LEMMA InvPreserved == IInv /\ [Next]_vars => IInv'
<1> SUFFICES ASSUME IInv, [Next]_vars PROVE IInv'
  OBVIOUS
<1>1. TypeOK' /\ OrphanAtHand' /\ TodoEmpty'
  BY TypePreserved DEF IInv
<1> SUFFICES PoolFinite' /\ RoundsPaid' /\ TriedInVain'
  BY <1>1 DEF IInv
<1>2. CASE UNCHANGED vars
  BY <1>2, PoolUntouched DEF vars, Connecting
<1>3. ASSUME NEW b \in Block, Deliver(b) \/ Answer(b)
      PROVE  PoolFinite' /\ RoundsPaid' /\ TriedInVain'
  BY <1>3, PoolUntouched DEF Deliver, Answer, ledger, retry, Connecting
<1>4. CASE Tick
  BY <1>4, PoolUntouched DEF Tick, ledger, retry, Connecting
<1>5. CASE Receive \/ SkipKnown \/ Insert \/ FindOrphan \/ Book \/ RequestParent
  <2>1. ~ Connecting' /\ UNCHANGED <<orphans, todo, rounds, progress>>
    BY <1>5 DEF Receive, SkipKnown, Insert, FindOrphan, Book, RequestParent, Finish,
                retry, Connecting
  <2> QED BY <2>1, PoolUntouched
<1>6. CASE StoreFork
  <2>1. ~ Connecting' /\ UNCHANGED <<orphans, todo, rounds, progress>>
    BY <1>6 DEF StoreFork, Finish, retry, Connecting
  <2> QED BY <2>1, PoolUntouched
<1>7. ASSUME NEW b \in Mined, Submit(b)
      PROVE  PoolFinite' /\ RoundsPaid' /\ TriedInVain'
  BY <1>7, PoolUntouched DEF Submit, retry, Connecting
<1>8. CASE BookSubmit
  <2>1. ~ Connecting' /\ UNCHANGED <<orphans, todo, rounds, progress>>
    BY <1>8, Zenon DEF BookSubmit, retry, Connecting
  <2> QED BY <2>1, PoolUntouched
<1>9. CASE StoreOrphan
  BY <1>9, OrphanStored DEF RoundsPaid, TriedInVain
<1>10. CASE Recheck \/ Retry
  <2>1. StartRound(DOMAIN orphans) /\ UNCHANGED orphans /\ rounds' = 1
    BY <1>10 DEF Recheck, Retry
  <2>2. Cardinality(DOMAIN orphans) + 1 <= MaxOrphans + 1
    <3>1. Cardinality(DOMAIN orphans) \in Nat /\ MaxOrphans \in Nat
      BY Parameters, FS_CardinalityType DEF IInv, PoolFinite
    <3> QED BY <3>1 DEF IInv, PoolFinite, PoolBounded
  <2> QED BY <1>1, <2>1, <2>2, RoundStarts
<1>11. CASE NextRound
  <2>1. StartRound(DOMAIN orphans) /\ UNCHANGED orphans /\ rounds' = rounds + 1
        /\ Connecting
    BY <1>11 DEF NextRound
  <2>2. progress
    BY <1>11, Zenon DEF NextRound, LastRound
  <2>3. rounds \in Nat /\ rounds >= 1
    BY <2>1, Parameters DEF IInv, TypeOK, RoundsPaid
  <2>4. Cardinality(DOMAIN orphans) + rounds + 1 <= MaxOrphans + 1
    BY <2>1, <2>2 DEF IInv, RoundsPaid
  <2>5. Cardinality(DOMAIN orphans) \in Nat
    BY FS_CardinalityType DEF IInv, PoolFinite
  <2> QED BY <1>1, <2>1, <2>3, <2>4, <2>5, RoundStarts
<1>12. CASE EndConnect
  <2>1. DOMAIN orphans' \in SUBSET DOMAIN orphans
    BY <1>12 DEF EndConnect, RestrictValues, Restrict
  <2>2. ~ Connecting'
    BY <1>12 DEF EndConnect, Finish, Connecting
  <2>3. IsFiniteSet(DOMAIN orphans) /\ Cardinality(DOMAIN orphans) <= MaxOrphans
    BY DEF IInv, PoolFinite, PoolBounded
  <2>4. IsFiniteSet(DOMAIN orphans')
        /\ Cardinality(DOMAIN orphans') <= Cardinality(DOMAIN orphans)
    BY <2>1, <2>3, FS_Subset
  <2>5. Cardinality(DOMAIN orphans) \in Nat /\ Cardinality(DOMAIN orphans') \in Nat
    BY <2>3, <2>4, FS_CardinalityType
  <2>6. PoolFinite'
    BY <2>3, <2>4, <2>5, Parameters DEF PoolFinite, PoolBounded
  <2> QED BY <2>2, <2>6 DEF RoundsPaid, TriedInVain
<1>13. ASSUME NEW b \in Block, TryOrphan(b)
       PROVE  PoolFinite' /\ RoundsPaid' /\ TriedInVain'
  BY <1>13, OrphanTried
<1> QED
  BY <1>2, <1>3, <1>4, <1>5, <1>6, <1>7, <1>8, <1>9, <1>10, <1>11, <1>12, <1>13
  DEF Next, Process

\* The orphan pool of the processor never exceeds MAX_ORPHAN_BLOCKS, for every
\* capacity and every sequence of arrivals, evictions and timeouts.
THEOREM PoolNeverOverflows == Spec => []PoolBounded
<1>1. IInv => PoolBounded
  BY DEF IInv, PoolFinite
<1> QED BY <1>1, InitInv, InvPreserved, PTL DEF Spec

\* The rounds end with nothing left to connect: either the last one tried every
\* orphan in vain, or there were as many as the pool had orphans.
LEMMA RoundsSuffice ==
  ASSUME IInv, Connecting, todo = {}, LastRound, NEW b \in DOMAIN orphans
  PROVE  ~ Connectable(b)
<1>1. CASE ~ progress
  BY <1>1 DEF IInv, TriedInVain
<1>2. CASE progress
  <2>1. rounds = MaxRounds
    BY <1>2, Zenon DEF LastRound
  <2>2. Cardinality(DOMAIN orphans) + rounds + 1 <= MaxOrphans + 1
    BY <1>2 DEF IInv, RoundsPaid
  <2>3. Cardinality(DOMAIN orphans) \in Nat /\ IsFiniteSet(DOMAIN orphans)
    BY FS_CardinalityType DEF IInv, PoolFinite
  <2>4. Cardinality(DOMAIN orphans) = 0
    BY <2>1, <2>2, <2>3, Parameters
  <2>5. DOMAIN orphans = {}
    BY <2>3, <2>4, FS_EmptySet
  <2> QED BY <2>5
<1> QED BY <1>1, <1>2

\* process_orphan_blocks never stops early: whatever the order of the hash map,
\* max_iterations rounds connect every orphan that can be connected.
THEOREM AllConnected == Spec => NothingLeftToConnect
<1>1. ASSUME IInv, [Next]_vars
      PROVE  [Connecting /\ ~ Connecting' =>
                \A b \in DOMAIN orphans' : ~ Connectable(b)']_vars
  <2>1. SUFFICES ASSUME Connecting, ~ Connecting', NEW b \in DOMAIN orphans'
                 PROVE  ~ Connectable(b)'
    OBVIOUS
  <2>2. pc' # pc
    BY <2>1 DEF Connecting
  <2>3. EndConnect
    <3>1. ~ UNCHANGED vars
      BY <2>2 DEF vars
    <3>2. ~ (Receive \/ SkipKnown \/ Insert \/ FindOrphan \/ Book \/ RequestParent
             \/ StoreFork \/ StoreOrphan \/ Recheck \/ Retry \/ NextRound \/ Tick)
      BY <2>1, <2>2 DEF Receive, SkipKnown, Insert, FindOrphan, Book, RequestParent,
           StoreFork, StoreOrphan, Recheck, Retry, NextRound, Tick, Connecting
    <3>3. ~ BookSubmit /\ \A c \in Mined : ~ Submit(c)
      BY <2>1, Zenon DEF BookSubmit, Submit, Connecting
    <3>4. \A c \in Block : ~ Deliver(c) /\ ~ Answer(c) /\ ~ TryOrphan(c)
      BY <2>2 DEF Deliver, Answer, TryOrphan
    <3> QED BY <1>1, <3>1, <3>2, <3>3, <3>4 DEF Next, Process
  <2>4. todo = {} /\ LastRound /\ UNCHANGED <<blocks, chain_tip>>
    BY <2>3, Zenon DEF EndConnect, ledger
  <2>5. b \in DOMAIN orphans
    BY <2>1, <2>3 DEF EndConnect, RestrictValues, Restrict
  <2>6. ~ Connectable(b)
    BY <1>1, <2>1, <2>4, <2>5, RoundsSuffice
  <2> QED BY <2>4, <2>6 DEF Connectable, ParentMissing, Accepted
<1>2. Spec => []IInv
  BY InitInv, InvPreserved, PTL DEF Spec
<1> QED BY <1>1, <1>2, PTL DEF Spec, NothingLeftToConnect
=============================================================================
