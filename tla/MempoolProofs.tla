---------------------------- MODULE MempoolProofs ----------------------------
(***************************************************************************)
(* The broadcasts, the conflicts and the limits of Mempool, for every set  *)
(* of transactions, every number of concurrent handlers and every limit of *)
(* the pool.                                                               *)
(***************************************************************************)
EXTENDS Mempool, SumLemmas

-----------------------------------------------------------------------------
(* The inductive invariant *)

\* The maps and the clock have their types; what pending holds does not matter.
Typed ==
  /\ seen \in [Tx -> Time \cup {Never}]
  /\ worker \in [Worker -> Job]
  /\ relayed \in [Tx -> Time \cup {Never}]
  /\ now \in Time

\* seen_tx still knows a broadcast from the time of that broadcast, or it has
\* forgotten it because it is old.
Remembered(t) ==
  relayed[t] # Never =>
    \/ seen[t] = relayed[t]
    \/ seen[t] = Never /\ now - relayed[t] >= SeenTtl

IInv == Typed /\ \A t \in Tx : Remembered(t)

-----------------------------------------------------------------------------
(* Every step preserves it *)

\* enforce_mempool_limit leaves an entry of seen_tx as it is or removes it.
LEMMA LimitedSeen ==
  ASSUME NEW p, NEW s \in [Tx -> Time \cup {Never}]
  PROVE  /\ Limited(p, s).seen \in [Tx -> Time \cup {Never}]
         /\ \A t \in Tx : Limited(p, s).seen[t] \in {s[t], Never}
<1> DEFINE live == Retained(p, {t \in Tx : now - Stamp[t] <= Expiry})
           q == ByRate(live)
           n == EvictCount(q)
           evicted == ToSet(SubSeq(q, 1, n))
           fewer == [t \in Tx |-> IF t \in evicted THEN Never ELSE s[t]]
<1>1. Limited(p, s).seen = s \/ Limited(p, s).seen = fewer
  <2> HIDE DEF live, q, n, evicted
  <2>1. Limited(p, s) = IF Len(live) <= MaxSize /\ Len(live) <= MaxBytes \div EstimatedSize
                        THEN [pending |-> live, seen |-> s]
                        ELSE [pending |-> Drop(q, n), seen |-> fewer]
    BY DEF Limited, live, q, n, evicted
  <2> QED BY <2>1
<1>2. fewer \in [Tx -> Time \cup {Never}] /\ \A t \in Tx : fewer[t] \in {s[t], Never}
  <2> HIDE DEF evicted
  <2> QED OBVIOUS
<1> QED
  <2> HIDE DEF fewer
  <2> QED BY <1>1, <1>2

\* A handler that has a transaction holds one of Tx.
LEMMA JobTx ==
  ASSUME NEW j \in Job, j.entry \in EntryPoint
  PROVE  j.tx \in Tx
BY DEF Job, Free, EntryPoint

\* Times are numbers, and Never is none of them.
LEMMA Times == Time \subseteq Int /\ Never \notin Time /\ Never \in Int /\ SeenTtl \in Int
BY ConstantsTyped DEF Time, Never

\* on_tx under the lock.
LEMMA P2pStep ==
  ASSUME IInv, NEW w \in Worker, P2pCommit(w)
  PROVE  IInv'
<1> DEFINE t == worker[w].tx
           known == [seen EXCEPT ![t] = now]
           new == Limited(Append(pending, t), known)
<1>1. t \in Tx
  BY JobTx DEF P2pCommit, IInv, Typed, EntryPoint
<1>2. worker' \in [Worker -> Job] /\ now' = now
  BY DEF P2pCommit, IInv, Typed, Job
<1>3. CASE UNCHANGED <<pending, seen, relayed, viaRelay>>
  BY <1>2, <1>3 DEF IInv, Typed, Remembered
<1>4. CASE /\ seen' = new.seen
           /\ relayed' = [s \in Tx |-> IF new.seen[s] # known[s] THEN Never
                                       ELSE IF s = t THEN now ELSE relayed[s]]
  <2>1. /\ new.seen \in [Tx -> Time \cup {Never}]
        /\ \A s \in Tx : new.seen[s] \in {known[s], Never}
    <3>1. known \in [Tx -> Time \cup {Never}]
      BY <1>1 DEF IInv, Typed
    <3> HIDE DEF known
    <3> QED BY <3>1, LimitedSeen
  <2>5. \A s \in Tx : known[s] = IF s = t THEN now ELSE seen[s]
    BY <1>1 DEF IInv, Typed
  <2> HIDE DEF new, known, t
  <2>2. \A s \in Tx : relayed'[s] = IF seen'[s] # known[s] THEN Never
                                    ELSE IF s = t THEN now ELSE relayed[s]
    BY <1>4
  <2>3. relayed' \in [Tx -> Time \cup {Never}]
    BY <1>4 DEF IInv, Typed
  <2>4. ASSUME NEW s \in Tx PROVE Remembered(s)'
    <3>1. CASE s = t
      BY <1>1, <1>2, <1>4, <2>1, <2>2, <2>5, <3>1 DEF Remembered, IInv, Typed
    <3>2. CASE s # t
      BY <1>1, <1>2, <1>4, <2>1, <2>2, <2>5, <3>2 DEF Remembered, IInv, Typed
    <3> QED BY <3>1, <3>2
  <2> QED BY <1>2, <1>4, <2>1, <2>3, <2>4 DEF IInv, Typed
<1> QED BY <1>3, <1>4 DEF P2pCommit

\* POST /tx and POST /tx/relay under the lock.
LEMMA HttpStep ==
  ASSUME IInv, NEW w \in Worker, HttpCommit(w)
  PROVE  IInv'
<1> DEFINE t == worker[w].tx
<1>1. t \in Tx
  BY JobTx DEF HttpCommit, IInv, Typed, EntryPoint
<1>2. worker' \in [Worker -> Job] /\ now' = now
  BY DEF HttpCommit, IInv, Typed, Job
<1>3. CASE UNCHANGED <<pending, seen, relayed, viaRelay>>
  BY <1>2, <1>3 DEF IInv, Typed, Remembered
<1>4. CASE /\ seen' = [seen EXCEPT ![t] = now]
           /\ relayed' = [relayed EXCEPT ![t] =
                IF worker[w].entry = "post" THEN now ELSE Never]
  BY <1>1, <1>2, <1>4 DEF IInv, Typed, Remembered
<1> QED BY <1>3, <1>4 DEF HttpCommit

\* The cleanup of seen_tx forgets what is old enough.
LEMMA CleanStep ==
  ASSUME IInv, CleanSeen
  PROVE  IInv'
<1>1. UNCHANGED <<worker, relayed, now>>
  BY DEF CleanSeen
<1>2. seen' = [t \in Tx |-> IF now - seen[t] < SeenTtl THEN seen[t] ELSE Never]
  BY DEF CleanSeen
<1>3. ASSUME NEW t \in Tx PROVE Remembered(t)'
  <2>1. relayed[t] # Never => relayed[t] \in Int
    BY Times DEF IInv, Typed
  <2>2. now \in Int
    BY Times DEF IInv, Typed
  <2> QED BY <1>1, <1>2, <2>1, <2>2, Times DEF IInv, Typed, Remembered
<1> QED BY <1>1, <1>2, <1>3 DEF IInv, Typed

\* Every step preserves the invariant.
LEMMA NextStep ==
  ASSUME IInv, [Next]_vars
  PROVE  IInv'
<1>1. ASSUME NEW w \in Worker, NEW t \in Tx, P2pCheck(w, t) \/ HttpCheck(w, t) PROVE IInv'
  <2>1. UNCHANGED <<seen, relayed, now>>
    BY <1>1 DEF P2pCheck, HttpCheck
  <2>2. worker' \in [Worker -> Job]
    <3>1. Entry[t] \subseteq EntryPoint /\ "p2p" \in EntryPoint
      BY ConstantsTyped DEF EntryPoint
    <3>2. PICK e \in EntryPoint : worker' = [worker EXCEPT ![w] = [entry |-> e, tx |-> t]]
      BY <1>1, <3>1 DEF P2pCheck, HttpCheck
    <3>3. [entry |-> e, tx |-> t] \in Job
      BY DEF Job
    <3> QED BY <3>2, <3>3 DEF IInv, Typed
  <2> QED BY <2>1, <2>2 DEF IInv, Typed, Remembered
<1>2. ASSUME (\E C \in SUBSET Tx : InsertBlock(C) \/ SwitchBranch(C)) \/ Prune
             \/ UNCHANGED vars
      PROVE IInv'
  <2>1. UNCHANGED <<seen, worker, relayed, now>>
    BY <1>2 DEF InsertBlock, SwitchBranch, Prune, vars
  <2> QED BY <2>1 DEF IInv, Typed, Remembered
<1>3. ASSUME Tick PROVE IInv'
  <2>1. UNCHANGED <<seen, worker, relayed>> /\ now' = now + 1 /\ now' \in Time
    BY <1>3, ConstantsTyped DEF Tick, IInv, Typed, Time
  <2>2. now \in Int /\ \A t \in Tx : relayed[t] \in Int
    BY Times DEF IInv, Typed
  <2> QED BY <2>1, <2>2, Times DEF IInv, Typed, Remembered
<1> QED BY <1>1, <1>2, <1>3, P2pStep, HttpStep, CleanStep DEF Next

\* A fresh node satisfies it.
LEMMA InitInv == Init => IInv
BY ConstantsTyped DEF Init, IInv, Typed, Remembered, Job, Time

-----------------------------------------------------------------------------
(* Sorting and retaining *)

\* B is a strict total order on I.
Orders(B, I) ==
  /\ \A i, j \in I : i # j => <<i, j>> \in B \/ <<j, i>> \in B
  /\ \A i \in I : <<i, i>> \notin B
  /\ \A i, j, k \in I : <<i, j>> \in B /\ <<j, k>> \in B => <<i, k>> \in B

\* A nonempty part of a finite ordered set has a last element.
LEMMA LastExists ==
  ASSUME NEW I, IsFiniteSet(I), NEW B, Orders(B, I)
  PROVE  \A T \in SUBSET I : T # {} => \E m \in T : \A i \in T : i # m => <<i, m>> \in B
<1> DEFINE IsLast(m, T) == \A i \in T : i # m => <<i, m>> \in B
           G == {T \in SUBSET I : T # {} => \E m \in T : IsLast(m, T)}
<1>1. {} \in G
  OBVIOUS
<1>2. ASSUME NEW T \in SUBSET I, NEW x \in I \ T, T \in G PROVE T \cup {x} \in G
  <2>1. CASE T = {}
    <3>1. IsLast(x, T \cup {x})
      BY <2>1
    <3> QED BY <3>1
  <2>2. CASE T # {}
    <3>1. PICK m \in T : IsLast(m, T)
      BY <1>2, <2>2
    <3>2. CASE <<m, x>> \in B
      <4>1. IsLast(x, T \cup {x})
        BY <3>1, <3>2 DEF Orders
      <4> HIDE DEF IsLast
      <4> QED BY <4>1
    <3>3. CASE <<x, m>> \in B
      <4>1. IsLast(m, T \cup {x})
        BY <3>1, <3>3
      <4> HIDE DEF IsLast
      <4> QED BY <4>1
    <3> QED BY <3>2, <3>3 DEF Orders
  <2> QED BY <2>1, <2>2
<1>3. SUBSET I \subseteq G
  <2> HIDE DEF G
  <2> QED BY <1>1, <1>2, SetInduction
<1> QED BY <1>3

\* A finite ordered set can be arranged.
LEMMA ArrangementExists ==
  ASSUME NEW I, IsFiniteSet(I), NEW B, Orders(B, I)
  PROVE  \E f \in [1..Cardinality(I) -> I] :
           \A i, j \in DOMAIN f : i < j => <<f[i], f[j]>> \in B
<1> DEFINE Fits(f) == \A i, j \in DOMAIN f : i < j => <<f[i], f[j]>> \in B
           Bad == {T \in SUBSET I : ~ \E f \in [1..Cardinality(T) -> T] : Fits(f)}
<1> SUFFICES ASSUME Bad # {} PROVE FALSE
  OBVIOUS
<1>1. PICK T \in Bad : \A U \in Bad : U \subseteq T => U = T
  <2>1. Bad \in SUBSET (SUBSET I)
    OBVIOUS
  <2> HIDE DEF Bad
  <2> QED BY <2>1, SmallestSubset
<1>2. T \in SUBSET I /\ IsFiniteSet(T) /\ Cardinality(T) \in Nat
  BY FS_Subset, FS_CardinalityType
<1>3. T # {}
  <2> SUFFICES ASSUME T = {} PROVE FALSE
    OBVIOUS
  <2>1. 1..Cardinality(T) = {}
    BY FS_EmptySet
  <2> DEFINE f == [i \in 1..Cardinality(T) |-> i]
  <2>2. f \in [1..Cardinality(T) -> T]
    BY <2>1
  <2>3. Fits(f)
    BY <2>1
  <2> QED BY <2>2, <2>3
<1>4. PICK m \in T : \A i \in T : i # m => <<i, m>> \in B
  BY <1>2, <1>3, LastExists
<1> DEFINE U == T \ {m}
           n == Cardinality(U)
<1>5. n \in Nat /\ Cardinality(T) = n + 1
  <2>1. IsFiniteSet(U) /\ Cardinality(U) = Cardinality(T) - 1
    BY <1>2, FS_RemoveElement
  <2>2. Cardinality(U) \in Nat
    BY <2>1, FS_CardinalityType
  <2> QED BY <1>2, <2>1, <2>2
<1>6. \E f \in [1..Cardinality(U) -> U] : Fits(f)
  <2>1. U \subseteq T /\ U # T /\ U \in SUBSET I
    BY <1>2, <1>4
  <2> HIDE DEF U, Fits
  <2> QED BY <1>1, <2>1
<1>7. PICK f \in [1..n -> U] : Fits(f)
  BY <1>6
<1> DEFINE g == [i \in 1..(n + 1) |-> IF i = n + 1 THEN m ELSE f[i]]
<1> HIDE DEF n, Bad
<1>8. \A i \in 1..(n + 1) : i # n + 1 => i \in 1..n
  BY <1>5
<1>9. g \in [1..(n + 1) -> T]
  BY <1>4, <1>8
<1>10. Fits(g)
  <2> SUFFICES ASSUME NEW i \in 1..(n + 1), NEW j \in 1..(n + 1), i < j
               PROVE  <<g[i], g[j]>> \in B
    OBVIOUS
  <2>1. i \in 1..n /\ i # n + 1
    BY <1>5
  <2>2. CASE j = n + 1
    BY <1>4, <2>1, <2>2
  <2>3. CASE j # n + 1
    BY <1>7, <1>8, <2>1, <2>3
  <2> QED BY <2>2, <2>3
<1>11. \E h \in [1..Cardinality(T) -> T] : Fits(h)
  <2> HIDE DEF g, Fits
  <2> QED BY <1>5, <1>9, <1>10
<1>12. ~ \E h \in [1..Cardinality(T) -> T] : Fits(h)
  <2> HIDE DEF Fits
  <2> QED BY DEF Bad
<1> QED BY <1>11, <1>12

\* An arrangement lists every element once, in order.
LEMMA Arranges ==
  ASSUME NEW I, IsFiniteSet(I), NEW B, Orders(B, I)
  PROVE  LET f == Arrangement(I, B)
         IN  /\ f \in [1..Cardinality(I) -> I]
             /\ \A i, j \in 1..Cardinality(I) : i < j => <<f[i], f[j]>> \in B
             /\ \A i, j \in 1..Cardinality(I) : i # j => f[i] # f[j]
             /\ \A x \in I : \E i \in 1..Cardinality(I) : f[i] = x
<1> DEFINE f == Arrangement(I, B)
           D == 1..Cardinality(I)
<1>1. Cardinality(I) \in Nat
  BY FS_CardinalityType
<1>2. f \in [D -> I] /\ \A i, j \in DOMAIN f : i < j => <<f[i], f[j]>> \in B
  BY ArrangementExists DEF Arrangement
<1> HIDE DEF f
<1>3. \A i, j \in D : i < j => <<f[i], f[j]>> \in B
  BY <1>2
<1>4. ASSUME NEW i \in D, NEW j \in D, i # j PROVE f[i] # f[j]
  <2>1. i < j \/ j < i
    BY <1>1, <1>4
  <2> QED BY <1>2, <1>3, <2>1 DEF Orders
<1>5. \A x \in I : \E i \in D : f[i] = x
  <2>1. f \in Injection(D, I)
    BY <1>2, <1>4 DEF Injection, IsInjective
  <2>2. IsFiniteSet(D) /\ Cardinality(D) = Cardinality(I)
    BY <1>1, FS_Interval
  <2>3. f \in Surjection(D, I)
    BY <2>1, <2>2, FS_Injection
  <2> QED BY <2>3 DEF Surjection
<1> QED BY <1>2, <1>3, <1>4, <1>5 DEF f

\* q has entries of p, each index of p at most once.
Picks(q, p, f) ==
  /\ f \in [1..Len(q) -> DOMAIN p]
  /\ \A k \in 1..Len(q) : q[k] = p[f[k]]
  /\ \A k, l \in 1..Len(q) : k # l => f[k] # f[l]

\* What Arranged returns: the entries at the indices I, in the order of B.
LEMMA ArrangedIs ==
  ASSUME NEW p \in Seq(Tx), NEW I \in SUBSET (DOMAIN p), NEW B, Orders(B, I)
  PROVE  LET q == Arranged(p, I, B)
         IN  /\ q \in Seq(Tx) /\ Len(q) = Cardinality(I)
             /\ \E f \in [1..Len(q) -> I] :
                  /\ Picks(q, p, f)
                  /\ \A k, l \in 1..Len(q) : k < l => <<f[k], f[l]>> \in B
                  /\ \A i \in I : \E k \in 1..Len(q) : f[k] = i
<1> DEFINE q == Arranged(p, I, B)
           f == Arrangement(I, B)
           n == Cardinality(I)
<1>1. IsFiniteSet(I) /\ n \in Nat
  <2>1. DOMAIN p = 1..Len(p) /\ Len(p) \in Nat
    OBVIOUS
  <2>2. IsFiniteSet(DOMAIN p)
    BY <2>1, FS_Interval
  <2> QED BY <2>2, FS_Subset, FS_CardinalityType
<1>2. /\ f \in [1..n -> I]
      /\ \A i, j \in 1..n : i < j => <<f[i], f[j]>> \in B
      /\ \A i, j \in 1..n : i # j => f[i] # f[j]
      /\ \A x \in I : \E i \in 1..n : f[i] = x
  BY <1>1, Arranges
<1>3. q = [k \in 1..n |-> p[f[k]]]
  BY DEF Arranged
<1> HIDE DEF q, f, n
<1>4. \A k \in 1..n : p[f[k]] \in Tx
  BY <1>2
<1>5. q \in [1..n -> Tx]
  BY <1>3, <1>4
<1>6. q \in Seq(Tx) /\ Len(q) = n
  BY <1>1, <1>5
<1>7. Picks(q, p, f)
  BY <1>2, <1>3, <1>6 DEF Picks
<1>8. \E h \in [1..Len(q) -> I] :
        /\ Picks(q, p, h)
        /\ \A k, l \in 1..Len(q) : k < l => <<h[k], h[l]>> \in B
        /\ \A i \in I : \E k \in 1..Len(q) : h[k] = i
  BY <1>2, <1>6, <1>7
<1> QED BY <1>6, <1>8 DEF q, n

\* q has the entries of p that are in S, all of them and no other.
Keeps(q, p, S) ==
  /\ q \in Seq(Tx)
  /\ \A k \in 1..Len(q) : q[k] \in S
  /\ \E f : Picks(q, p, f)
  /\ \A i \in DOMAIN p : p[i] \in S => \E k \in 1..Len(q) : q[k] = p[i]

\* What retain returns.
LEMMA RetainedIs ==
  ASSUME NEW p \in Seq(Tx), NEW S
  PROVE  Keeps(Retained(p, S), p, S)
<1> DEFINE I == {i \in DOMAIN p : p[i] \in S}
           B == {b \in I \X I : b[1] < b[2]}
           q == Arranged(p, I, B)
<1>1. Retained(p, S) = q
  BY DEF Retained
<1>2. I \in SUBSET (DOMAIN p) /\ \A i \in I : i \in Int /\ p[i] \in S
  OBVIOUS
<1>3. Orders(B, I)
  <2> HIDE DEF I
  <2>1. \A i, j \in I : <<i, j>> \in B <=> i < j
    OBVIOUS
  <2> HIDE DEF B
  <2> QED BY <1>2, <2>1 DEF Orders
<1>4. /\ q \in Seq(Tx)
      /\ \E f \in [1..Len(q) -> I] :
           Picks(q, p, f) /\ \A i \in I : \E k \in 1..Len(q) : f[k] = i
  <2> HIDE DEF I, B
  <2>1. /\ q \in Seq(Tx)
        /\ \E f \in [1..Len(q) -> I] :
             /\ Picks(q, p, f)
             /\ \A k, l \in 1..Len(q) : k < l => <<f[k], f[l]>> \in B
             /\ \A i \in I : \E k \in 1..Len(q) : f[k] = i
    BY <1>2, <1>3, ArrangedIs
  <2> HIDE DEF q
  <2> QED BY <2>1
<1> HIDE DEF q
<1>5. PICK f \in [1..Len(q) -> I] :
        Picks(q, p, f) /\ \A i \in I : \E k \in 1..Len(q) : f[k] = i
  BY <1>4
<1>6. \A k \in 1..Len(q) : q[k] \in S
  BY <1>5 DEF Picks
<1>7. \A i \in DOMAIN p : p[i] \in S => \E k \in 1..Len(q) : q[k] = p[i]
  <2> SUFFICES ASSUME NEW i \in DOMAIN p, p[i] \in S
               PROVE  \E k \in 1..Len(q) : q[k] = p[i]
    OBVIOUS
  <2>1. PICK k \in 1..Len(q) : f[k] = i
    BY <1>5
  <2> QED BY <1>5, <2>1 DEF Picks
<1> QED BY <1>1, <1>4, <1>5, <1>6, <1>7 DEF Keeps

\* What the sort returns: all entries, by ascending rate.
LEMMA ByRateIs ==
  ASSUME NEW p \in Seq(Tx)
  PROVE  LET q == ByRate(p)
         IN  /\ q \in Seq(Tx) /\ Len(q) = Len(p)
             /\ \E f : Picks(q, p, f)
             /\ \A i \in DOMAIN p : \E k \in 1..Len(q) : q[k] = p[i]
             /\ \A k, l \in 1..Len(q) : k < l => Rate[q[k]] <= Rate[q[l]]
<1> DEFINE I == DOMAIN p
           B == {b \in I \X I : \/ Rate[p[b[1]]] < Rate[p[b[2]]]
                                \/ Rate[p[b[1]]] = Rate[p[b[2]]] /\ b[1] < b[2]}
           q == Arranged(p, I, B)
<1>1. ByRate(p) = q
  BY DEF ByRate
<1>2. I = 1..Len(p) /\ Len(p) \in Nat /\ \A i \in I : i \in Int /\ Rate[p[i]] \in Int
  BY ConstantsTyped, SMTT(30)
<1>3. \A i, j \in I : <<i, j>> \in B <=> \/ Rate[p[i]] < Rate[p[j]]
                                         \/ Rate[p[i]] = Rate[p[j]] /\ i < j
  <2> HIDE DEF I
  <2> QED OBVIOUS
<1> HIDE DEF B
<1>4. Orders(B, I)
  <2> DEFINE r == [i \in I |-> Rate[p[i]]]
  <2>1. \A i \in I : r[i] \in Int /\ i \in Int
    BY <1>2
  <2>2. \A i, j \in I : <<i, j>> \in B <=> r[i] < r[j] \/ (r[i] = r[j] /\ i < j)
    BY <1>3
  <2> HIDE DEF r, I
  <2>3. \A i, j \in I : i # j => <<i, j>> \in B \/ <<j, i>> \in B
    BY <2>1, <2>2
  <2>4. \A i \in I : <<i, i>> \notin B
    BY <2>1, <2>2
  <2>5. \A i, j, k \in I : <<i, j>> \in B /\ <<j, k>> \in B => <<i, k>> \in B
    <3> SUFFICES ASSUME NEW i \in I, NEW j \in I, NEW k \in I,
                        <<i, j>> \in B, <<j, k>> \in B
                 PROVE  <<i, k>> \in B
      OBVIOUS
    <3>1. /\ r[i] < r[j] \/ (r[i] = r[j] /\ i < j)
          /\ r[j] < r[k] \/ (r[j] = r[k] /\ j < k)
      BY <2>2
    <3>2. {i, j, k, r[i], r[j], r[k]} \subseteq Int
      BY <1>2, <2>1
    <3>3. r[i] < r[k] \/ (r[i] = r[k] /\ i < k)
      BY <3>1, <3>2
    <3> QED BY <2>2, <3>3
  <2> QED BY <2>3, <2>4, <2>5 DEF Orders
<1>5. /\ q \in Seq(Tx) /\ Len(q) = Cardinality(I)
      /\ \E f \in [1..Len(q) -> I] :
           /\ Picks(q, p, f)
           /\ \A k, l \in 1..Len(q) : k < l => <<f[k], f[l]>> \in B
           /\ \A i \in I : \E k \in 1..Len(q) : f[k] = i
  BY <1>4, ArrangedIs
<1> HIDE DEF q
<1>6. Len(q) = Len(p)
  <2>1. Cardinality(1..Len(p)) = Len(p)
    <3>1. 1 \in Int /\ Len(p) \in Int
      BY <1>2
    <3>2. Cardinality(1..Len(p)) = IF 1 > Len(p) THEN 0 ELSE Len(p) - 1 + 1
      BY <3>1, FS_Interval
    <3> QED BY <1>2, <3>2
  <2>2. Len(q) = Cardinality(I) /\ I = 1..Len(p)
    BY <1>2, <1>5
  <2> QED BY <2>1, <2>2
<1>7. PICK f \in [1..Len(q) -> I] :
           /\ Picks(q, p, f)
           /\ \A k, l \in 1..Len(q) : k < l => <<f[k], f[l]>> \in B
           /\ \A i \in I : \E k \in 1..Len(q) : f[k] = i
  BY <1>5
<1>8. \A k, l \in 1..Len(q) : k < l => Rate[q[k]] <= Rate[q[l]]
  <2> SUFFICES ASSUME NEW k \in 1..Len(q), NEW l \in 1..Len(q), k < l
               PROVE  Rate[q[k]] <= Rate[q[l]]
    OBVIOUS
  <2>1. q[k] = p[f[k]] /\ q[l] = p[f[l]] /\ f[k] \in I /\ f[l] \in I
    BY <1>7 DEF Picks
  <2>2. \/ Rate[p[f[k]]] < Rate[p[f[l]]]
        \/ Rate[p[f[k]]] = Rate[p[f[l]]]
    BY <1>3, <1>7, <2>1
  <2>3. Rate[p[f[k]]] \in Int /\ Rate[p[f[l]]] \in Int
    BY <1>2, <2>1
  <2> QED BY <2>1, <2>2, <2>3
<1>9. \A i \in DOMAIN p : \E k \in 1..Len(q) : q[k] = p[i]
  BY <1>7 DEF Picks
<1> QED BY <1>1, <1>5, <1>6, <1>7, <1>8, <1>9

-----------------------------------------------------------------------------
(* enforce_mempool_limit *)

\* A nonempty set of numbers up to a bound has a least one.
LEMMA MinIn ==
  ASSUME NEW n \in Nat, NEW S \in SUBSET (0..n), S # {}
  PROVE  Min(S) \in S
<1> DEFINE Least(m, T) == \A i \in T : m <= i
           G == {T \in SUBSET S : T # {} => \E m \in T : Least(m, T)}
<1>1. IsFiniteSet(S) /\ \A i \in S : i \in Int
  <2>1. IsFiniteSet(0..n)
    BY FS_Interval
  <2>2. IsFiniteSet(S)
    BY <2>1, FS_Subset
  <2>3. \A i \in S : i \in Int
    OBVIOUS
  <2> QED BY <2>2, <2>3
<1>2. {} \in G
  OBVIOUS
<1>3. ASSUME NEW T \in SUBSET S, NEW x \in S \ T, T \in G PROVE T \cup {x} \in G
  <2>1. CASE T = {}
    <3>1. Least(x, T \cup {x})
      BY <1>1, <2>1
    <3> QED BY <3>1
  <2>2. CASE T # {}
    <3>1. PICK m \in T : Least(m, T)
      BY <1>3, <2>2
    <3>2. CASE x <= m
      <4>1. Least(x, T \cup {x})
        BY <1>1, <3>1, <3>2
      <4> HIDE DEF Least
      <4> QED BY <4>1
    <3>3. CASE m <= x
      <4>1. Least(m, T \cup {x})
        BY <3>1, <3>3
      <4> HIDE DEF Least
      <4> QED BY <4>1
    <3> QED BY <1>1, <3>2, <3>3
  <2> QED BY <2>1, <2>2
<1>4. SUBSET S \subseteq G
  <2> HIDE DEF G
  <2> QED BY <1>1, <1>2, <1>3, SetInduction
<1> QED BY <1>4 DEF Min

\* Nothing has no bytes.
LEMMA BytesNone ==
  ASSUME NEW p, DOMAIN p = {}
  PROVE  Bytes(p) = 0
<1> DEFINE sizes == [i \in DOMAIN p |-> Size[p[i]]]
<1>1. Bytes(p) = SumOf(sizes, DOMAIN p)
  BY DEF Bytes, SumOf
<1> HIDE DEF sizes
<1> QED BY <1>1, SumEmpty

\* The number of evictions exists and brings the pool within its limits.
LEMMA EvictCountIs ==
  ASSUME NEW p \in Seq(Tx)
  PROVE  /\ EvictCount(p) \in 0..Len(p)
         /\ Len(p) - EvictCount(p) <= MaxSize
<1> DEFINE S == {n \in 0..Len(p) : Len(p) - n <= MaxSize /\ Bytes(Drop(p, n)) <= MaxBytes}
<1>1. Len(p) \in Nat /\ MaxSize \in Nat /\ MaxBytes \in Nat
  BY ConstantsTyped
<1>2. DOMAIN Drop(p, Len(p)) = {}
  BY <1>1 DEF Drop
<1>3. Bytes(Drop(p, Len(p))) = 0
  BY <1>2, BytesNone
<1>4. Len(p) \in S
  BY <1>1, <1>3
<1>5. Min(S) \in S
  <2>1. S \in SUBSET (0..Len(p)) /\ S # {}
    BY <1>4
  <2> HIDE DEF S
  <2> QED BY <1>1, <2>1, MinIn
<1> QED BY <1>5 DEF EvictCount

\* The entries behind the first n.
LEMMA DropIs ==
  ASSUME NEW q \in Seq(Tx), NEW n \in 0..Len(q)
  PROVE  /\ Drop(q, n) \in Seq(Tx)
         /\ Len(Drop(q, n)) = Len(q) - n
         /\ \A k \in 1..(Len(q) - n) : Drop(q, n)[k] = q[k + n]
<1>1. Len(q) \in Nat /\ n + 1 \in 1..(Len(q) + 1)
  OBVIOUS
<1> QED BY <1>1 DEF Drop

\* Picking twice is picking.
LEMMA PicksTrans ==
  ASSUME NEW p \in Seq(Tx), NEW q \in Seq(Tx), NEW r \in Seq(Tx), NEW f, NEW g,
         Picks(q, p, f), Picks(r, q, g)
  PROVE  \E h : Picks(r, p, h)
<1> DEFINE h == [k \in 1..Len(r) |-> f[g[k]]]
<1>1. DOMAIN q = 1..Len(q)
  OBVIOUS
<1>2. Picks(r, p, h)
  BY <1>1 DEF Picks
<1> HIDE DEF h
<1> QED BY <1>2

\* What enforce_mempool_limit leaves: some of the entries, no more than the
\* limit allows, and of those that have not expired none that it dropped has
\* a better rate or is remembered.
LEMMA LimitedIs ==
  ASSUME NEW p \in Seq(Tx), NEW s \in [Tx -> Time \cup {Never}]
  PROVE  LET r == Limited(p, s)
         IN  /\ r.pending \in Seq(Tx) /\ Len(r.pending) <= MaxSize
             /\ \E f : Picks(r.pending, p, f)
             /\ \A i \in DOMAIN p :
                  now - Stamp[p[i]] <= Expiry =>
                    \/ \E k \in 1..Len(r.pending) : r.pending[k] = p[i]
                    \/ /\ r.seen[p[i]] = Never
                       /\ \A k \in 1..Len(r.pending) : Rate[p[i]] <= Rate[r.pending[k]]
<1> DEFINE Fresh == {t \in Tx : now - Stamp[t] <= Expiry}
           live == Retained(p, Fresh)
           q == ByRate(live)
           n == EvictCount(q)
           evicted == ToSet(SubSeq(q, 1, n))
           kept == Drop(q, n)
           fewer == [t \in Tx |-> IF t \in evicted THEN Never ELSE s[t]]
           r == Limited(p, s)
<1>1. r = IF Len(live) <= MaxSize /\ Len(live) <= MaxBytes \div EstimatedSize
          THEN [pending |-> live, seen |-> s]
          ELSE [pending |-> kept, seen |-> fewer]
  BY DEF Limited
<1>2. /\ live \in Seq(Tx)
      /\ \E f : Picks(live, p, f)
      /\ \A i \in DOMAIN p : p[i] \in Fresh => \E k \in 1..Len(live) : live[k] = p[i]
  <2> HIDE DEF Fresh
  <2>1. Keeps(live, p, Fresh)
    BY RetainedIs
  <2> HIDE DEF live
  <2> QED BY <2>1 DEF Keeps
<1>3. \A i \in DOMAIN p : now - Stamp[p[i]] <= Expiry => p[i] \in Fresh
  OBVIOUS
<1> HIDE DEF live, Fresh, r
<1>4. CASE Len(live) <= MaxSize /\ Len(live) <= MaxBytes \div EstimatedSize
  <2>1. r.pending = live
    BY <1>1, <1>4
  <2> QED BY <1>2, <1>3, <1>4, <2>1 DEF r
<1>5. CASE ~ (Len(live) <= MaxSize /\ Len(live) <= MaxBytes \div EstimatedSize)
  <2>1. r.pending = kept /\ r.seen = fewer
    BY <1>1, <1>5
  <2>2. /\ q \in Seq(Tx) /\ Len(q) = Len(live)
        /\ \E f : Picks(q, live, f)
        /\ \A i \in DOMAIN live : \E k \in 1..Len(q) : q[k] = live[i]
        /\ \A k, l \in 1..Len(q) : k < l => Rate[q[k]] <= Rate[q[l]]
    BY <1>2, ByRateIs
  <2> HIDE DEF q
  <2>3. n \in 0..Len(q) /\ Len(q) - n <= MaxSize
    BY <2>2, EvictCountIs
  <2> HIDE DEF n
  <2>4. /\ kept \in Seq(Tx) /\ Len(kept) = Len(q) - n
        /\ \A k \in 1..(Len(q) - n) : kept[k] = q[k + n]
    BY <2>2, <2>3, DropIs
  <2> HIDE DEF kept, fewer
  <2>5. Len(q) \in Nat /\ n \in Nat /\ n <= Len(q)
    BY <2>2, <2>3
  <2>6. \E f : Picks(kept, p, f)
    <3> DEFINE g == [k \in 1..(Len(q) - n) |-> k + n]
    <3>1. Picks(kept, q, g)
      <4>1. DOMAIN q = 1..Len(q)
        BY <2>2
      <4> QED BY <2>4, <2>5, <4>1 DEF Picks
    <3> HIDE DEF g
    <3>2. PICK f : Picks(q, live, f)
      BY <2>2
    <3>3. PICK h : Picks(live, p, h)
      BY <1>2
    <3>4. PICK e : Picks(kept, live, e)
      BY <1>2, <2>2, <2>4, <3>1, <3>2, PicksTrans
    <3> QED BY <1>2, <2>4, <3>3, <3>4, PicksTrans
  <2>7. ASSUME NEW i \in DOMAIN p, now - Stamp[p[i]] <= Expiry
        PROVE  \/ \E k \in 1..Len(kept) : kept[k] = p[i]
               \/ /\ fewer[p[i]] = Never
                  /\ \A k \in 1..Len(kept) : Rate[p[i]] <= Rate[kept[k]]
    <3>1. PICK j \in 1..Len(live) : live[j] = p[i]
      BY <1>2, <1>3, <2>7
    <3>2. PICK l \in 1..Len(q) : q[l] = p[i]
      BY <1>2, <2>2, <3>1
    <3>3. CASE l > n
      <4>1. l - n \in 1..(Len(q) - n) /\ (l - n) + n = l
        BY <2>5, <3>3
      <4> QED BY <2>4, <3>2, <4>1
    <3>4. CASE l <= n
      <4>1. l \in 1..n
        BY <2>5, <3>4
      <4>2. SubSeq(q, 1, n)[l] = q[l] /\ l \in DOMAIN SubSeq(q, 1, n)
        BY <2>2, <2>5, <4>1
      <4>3. q[l] \in evicted
        BY <4>2 DEF ToSet
      <4>4. fewer[p[i]] = Never
        BY <3>2, <4>3 DEF fewer
      <4>5. ASSUME NEW k \in 1..Len(kept) PROVE Rate[p[i]] <= Rate[kept[k]]
        <5>1. k + n \in 1..Len(q) /\ l < k + n /\ kept[k] = q[k + n]
          BY <2>4, <2>5, <4>1
        <5> QED BY <2>2, <3>2, <5>1
      <4> QED BY <4>4, <4>5
    <3> QED BY <2>5, <3>3, <3>4
  <2> QED BY <2>1, <2>3, <2>4, <2>6, <2>7 DEF r
<1> QED BY <1>4, <1>5

-----------------------------------------------------------------------------
(* Conflicts: the invariant with pending *)

PInv ==
  /\ IInv
  /\ pending \in Seq(Tx) /\ confirmed \subseteq Tx /\ unpruned \subseteq Tx
  /\ viaRelay \subseteq Tx
  /\ NoConflicts

\* Dropping entries brings no two entries into conflict.
LEMMA FewerApart ==
  ASSUME PInv, NEW f, Picks(pending', pending, f), pending' \in Seq(Tx),
         viaRelay' = viaRelay
  PROVE  NoConflicts'
<1> SUFFICES ASSUME NEW i \in DOMAIN pending', NEW j \in DOMAIN pending', i # j,
                    Inputs[pending'[i]] \cap Inputs[pending'[j]] # {}
             PROVE  {pending'[i], pending'[j]} \cap viaRelay' # {}
  BY DEF NoConflicts
<1>1. i \in 1..Len(pending') /\ j \in 1..Len(pending')
  OBVIOUS
<1>2. /\ f[i] \in DOMAIN pending /\ f[j] \in DOMAIN pending /\ f[i] # f[j]
      /\ pending'[i] = pending[f[i]] /\ pending'[j] = pending[f[j]]
  BY <1>1 DEF Picks
<1>3. pending[f[i]] \in Tx /\ pending[f[j]] \in Tx
  BY <1>2 DEF PInv
<1>4. {pending[f[i]], pending[f[j]]} \cap viaRelay # {}
  BY <1>2 DEF PInv, NoConflicts
<1> QED BY <1>2, <1>3, <1>4

\* Neither does a push, if the newcomer conflicts with nothing or comes by relay.
LEMMA PushApart ==
  ASSUME PInv, NEW t \in Tx, NEW f, Picks(pending', Append(pending, t), f),
         pending' \in Seq(Tx),
         viaRelay \ {t} \subseteq viaRelay',
         ~ Conflict(t) \/ t \in viaRelay'
  PROVE  NoConflicts'
<1> SUFFICES ASSUME NEW i \in DOMAIN pending', NEW j \in DOMAIN pending', i # j,
                    Inputs[pending'[i]] \cap Inputs[pending'[j]] # {}
             PROVE  {pending'[i], pending'[j]} \cap viaRelay' # {}
  BY DEF NoConflicts
<1> DEFINE p == Append(pending, t)
           a == f[i]
           b == f[j]
<1>1. i \in 1..Len(pending') /\ j \in 1..Len(pending')
  OBVIOUS
<1>2. /\ a \in DOMAIN p /\ b \in DOMAIN p /\ a # b
      /\ pending'[i] = p[a] /\ pending'[j] = p[b]
  BY <1>1 DEF Picks
<1>3. /\ Len(pending) \in Nat /\ DOMAIN pending = 1..Len(pending)
      /\ DOMAIN p = 1..(Len(pending) + 1)
      /\ p[Len(pending) + 1] = t
      /\ \A k \in DOMAIN pending : p[k] = pending[k] /\ pending[k] \in Tx
  BY DEF PInv
<1> HIDE DEF p, a, b
<1>4. CASE t \in viaRelay'
  <2>1. CASE p[a] = t \/ p[b] = t
    BY <1>2, <1>4, <2>1
  <2>2. CASE p[a] # t /\ p[b] # t
    <3>1. a \in DOMAIN pending /\ b \in DOMAIN pending
      BY <1>2, <1>3, <2>2
    <3>2. {p[a], p[b]} \cap viaRelay # {}
      BY <1>2, <1>3, <3>1 DEF PInv, NoConflicts
    <3> QED BY <1>2, <1>3, <2>2, <3>1, <3>2
  <2> QED BY <2>1, <2>2
<1>5. CASE ~ Conflict(t)
  <2>1. \A k \in DOMAIN pending : Inputs[pending[k]] \cap Inputs[t] = {}
    BY <1>5 DEF Conflict
  <2>2. \A k \in DOMAIN pending : pending[k] # t
    <3>1. Inputs[t] # {}
      BY ConstantsTyped
    <3> QED BY <2>1, <3>1
  <2>3. a \in DOMAIN pending /\ b \in DOMAIN pending
    <3>1. CASE a = Len(pending) + 1
      <4>1. b \in DOMAIN pending
        BY <1>2, <1>3, <3>1
      <4> QED BY <1>2, <1>3, <2>1, <3>1, <4>1
    <3>2. CASE b = Len(pending) + 1
      <4>1. a \in DOMAIN pending
        BY <1>2, <1>3, <3>2
      <4> QED BY <1>2, <1>3, <2>1, <3>2, <4>1
    <3> QED BY <1>2, <1>3, <3>1, <3>2
  <2>4. {p[a], p[b]} \cap viaRelay # {}
    BY <1>2, <1>3, <2>3 DEF PInv, NoConflicts
  <2> QED BY <1>2, <1>3, <2>2, <2>3, <2>4
<1> QED BY <1>4, <1>5

\* The list itself picks all of its entries.
LEMMA PicksSelf ==
  ASSUME NEW p \in Seq(Tx)
  PROVE  \E f : Picks(p, p, f)
<1> DEFINE f == [k \in DOMAIN p |-> k]
<1>1. DOMAIN p = 1..Len(p)
  OBVIOUS
<1>2. Picks(p, p, f)
  BY <1>1 DEF Picks
<1> HIDE DEF f
<1> QED BY <1>2

\* on_tx repeats the check under the lock under which it pushes.
LEMMA P2pApart ==
  ASSUME PInv, NEW w \in Worker, P2pCommit(w)
  PROVE  PInv'
<1> DEFINE t == worker[w].tx
           s == [seen EXCEPT ![t] = now]
           p == Append(pending, t)
           new == Limited(p, s)
<1>1. IInv' /\ UNCHANGED <<confirmed, unpruned>>
  BY P2pStep DEF PInv, P2pCommit
<1>2. t \in Tx
  BY JobTx DEF P2pCommit, PInv, IInv, Typed, EntryPoint
<1>3. CASE UNCHANGED <<pending, seen, relayed, viaRelay>>
  BY <1>1, <1>3 DEF PInv, NoConflicts
<1>4. CASE /\ ~ Conflict(t) /\ pending' = new.pending
           /\ viaRelay' = viaRelay \ {t}
  <2>1. s \in [Tx -> Time \cup {Never}] /\ p \in Seq(Tx)
    BY <1>2 DEF PInv, IInv, Typed
  <2> HIDE DEF s, p, t
  <2>2. new.pending \in Seq(Tx) /\ \E f : Picks(new.pending, p, f)
    BY <2>1, LimitedIs
  <2>3. viaRelay \ {t} \subseteq viaRelay' /\ viaRelay' \subseteq Tx
    BY <1>4 DEF PInv
  <2> HIDE DEF new
  <2>4. NoConflicts'
    BY <1>2, <1>4, <2>2, <2>3, PushApart DEF p
  <2> QED BY <1>1, <1>4, <2>2, <2>3, <2>4 DEF PInv
<1> QED BY <1>3, <1>4 DEF P2pCommit

\* So does POST /tx; what POST /tx/relay pushes is in viaRelay.
LEMMA HttpApart ==
  ASSUME PInv, NEW w \in Worker, HttpCommit(w)
  PROVE  PInv'
<1> DEFINE t == worker[w].tx
           p == Append(pending, t)
<1>1. IInv' /\ UNCHANGED <<confirmed, unpruned>>
  BY HttpStep DEF PInv, HttpCommit
<1>2. t \in Tx
  BY JobTx DEF HttpCommit, PInv, IInv, Typed, EntryPoint
<1>3. CASE UNCHANGED <<pending, seen, relayed, viaRelay>>
  BY <1>1, <1>3 DEF PInv, NoConflicts
<1>4. CASE /\ ~ (worker[w].entry = "post" /\ Conflict(t)) /\ pending' = p
           /\ viaRelay' = IF worker[w].entry = "post" THEN viaRelay \ {t}
                          ELSE viaRelay \cup {t}
  <2>1. p \in Seq(Tx)
    BY <1>2 DEF PInv
  <2> HIDE DEF t
  <2>3. viaRelay \ {t} \subseteq viaRelay' /\ viaRelay' \subseteq Tx
    BY <1>2, <1>4 DEF PInv
  <2>4. ~ Conflict(t) \/ t \in viaRelay'
    BY <1>4 DEF HttpCommit
  <2>5. PICK f : Picks(p, p, f)
    BY <2>1, PicksSelf
  <2>6. NoConflicts'
    BY <1>2, <1>4, <2>1, <2>3, <2>4, <2>5, PushApart
  <2> QED BY <1>1, <1>4, <2>1, <2>3, <2>6 DEF PInv
<1> QED BY <1>3, <1>4 DEF HttpCommit

\* Every step preserves the invariant.
LEMMA PoolStep ==
  ASSUME PInv, [Next]_vars
  PROVE  PInv'
<1>1. IInv'
  BY NextStep DEF PInv
<1>2. ASSUME NEW w \in Worker, NEW t \in Tx, P2pCheck(w, t) \/ HttpCheck(w, t) PROVE PInv'
  BY <1>1, <1>2 DEF P2pCheck, HttpCheck, PInv, NoConflicts
<1>3. ASSUME NEW C \in SUBSET Tx, InsertBlock(C) \/ SwitchBranch(C) PROVE PInv'
  BY <1>1, <1>3 DEF InsertBlock, SwitchBranch, PInv, NoConflicts
<1>4. ASSUME Prune PROVE PInv'
  <2>1. pending' = Retained(pending, Tx \ unpruned) /\ UNCHANGED <<viaRelay, confirmed>> /\ unpruned' = {}
    BY <1>4 DEF Prune
  <2>2. pending' \in Seq(Tx) /\ \E f : Picks(pending', pending, f)
    BY <2>1, RetainedIs DEF PInv, Keeps
  <2>3. NoConflicts'
    BY <2>1, <2>2, FewerApart
  <2> QED BY <1>1, <2>1, <2>2, <2>3 DEF PInv
<1>5. ASSUME CleanSeen \/ Tick \/ UNCHANGED vars PROVE PInv'
  BY <1>1, <1>5 DEF CleanSeen, Tick, vars, PInv, NoConflicts
<1> QED BY <1>2, <1>3, <1>4, <1>5, P2pApart, HttpApart DEF Next

\* A fresh node satisfies it.
LEMMA PoolInit == Init => PInv
<1> SUFFICES ASSUME Init PROVE PInv
  OBVIOUS
<1>1. pending \in Seq(Tx) /\ DOMAIN pending = {}
  BY DEF Init
<1>2. NoConflicts
  BY <1>1 DEF NoConflicts
<1> QED BY <1>1, <1>2, InitInv DEF Init, PInv

-----------------------------------------------------------------------------
(* The properties *)

\* A transaction that was not evicted is broadcast again only when it is old
\* enough for the cleanup to have forgotten it, whatever handlers run at the same
\* time and however often peers and clients send it.
THEOREM NoRelayLoop == Spec => RelayedOnce
<1>1. IInv /\ [Next]_vars => IInv'
  BY NextStep
<1>2. IInv => \A w \in Worker :
                LET t == worker[w].tx IN
                worker[w].entry \in {"p2p", "post"} /\ worker'[w] = Free
                  /\ relayed[t] # Never /\ seen[t] = Never /\ ~ Conflict(t)
                  => now - relayed[t] >= SeenTtl
  <2> SUFFICES ASSUME IInv, NEW w \in Worker, worker[w].entry \in {"p2p", "post"},
                      relayed[worker[w].tx] # Never, seen[worker[w].tx] = Never
               PROVE  now - relayed[worker[w].tx] >= SeenTtl
    OBVIOUS
  <2>1. worker[w].tx \in Tx
    BY JobTx DEF IInv, Typed, EntryPoint
  <2> QED BY <2>1 DEF IInv, Remembered
<1> QED BY <1>1, <1>2, InitInv, PTL DEF Spec, RelayedOnce

\* The pool, its handlers and the chain's confirmations keep their types.
THEOREM TypeCorrect == Spec => []TypeOK
<1>1. PInv => TypeOK
  BY DEF PInv, IInv, Typed, TypeOK
<1> QED BY <1>1, PoolInit, PoolStep, PTL DEF Spec

\* Of two pending transactions that spend the same output one was pushed by
\* POST /tx/relay, however the two looks of any number of handlers interleave
\* with blocks, branch switches, expiry, eviction and cleanup.
THEOREM ConflictsKeptOut == Spec => []NoConflicts
<1>1. PInv => NoConflicts
  BY DEF PInv
<1> QED BY <1>1, PoolInit, PoolStep, PTL DEF Spec

\* A step in which an on_tx task ends is its commit, pushing what LimitedIs describes.
LEMMA P2pEnds ==
  ASSUME PInv, [Next]_vars, NEW w \in Worker, worker[w].entry = "p2p", worker'[w] = Free,
         pending' # pending
  PROVE  LET p == Append(pending, worker[w].tx)
             s == [seen EXCEPT ![worker[w].tx] = now]
         IN  /\ p \in Seq(Tx) /\ s \in [Tx -> Time \cup {Never}]
             /\ pending' = Limited(p, s).pending /\ seen' = Limited(p, s).seen
<1> DEFINE t == worker[w].tx
           p == Append(pending, t)
           s == [seen EXCEPT ![t] = now]
<1>1. t \in Tx
  BY JobTx DEF PInv, IInv, Typed, EntryPoint
<1>2. worker[w] # Free
  BY DEF Free
<1>3. p \in Seq(Tx) /\ s \in [Tx -> Time \cup {Never}]
  BY <1>1 DEF PInv, IInv, Typed
<1>4. P2pCommit(w)
  <2>1. worker'[w] # worker[w]
    BY <1>2
  <2>2. worker \in [Worker -> Job]
    BY DEF PInv, IInv, Typed
  <2>3. \A v \in Worker : P2pCommit(v) \/ HttpCommit(v) => worker' = [worker EXCEPT ![v] = Free]
    BY DEF P2pCommit, HttpCommit
  <2>4. \A v \in Worker : P2pCommit(v) \/ HttpCommit(v) => v = w
    BY <2>1, <2>2, <2>3
  <2>5. ~ HttpCommit(w)
    BY DEF HttpCommit
  <2>6. \A v \in Worker, u \in Tx : ~ (P2pCheck(v, u) \/ HttpCheck(v, u))
    BY DEF P2pCheck, HttpCheck
  <2>7. \A C \in SUBSET Tx : ~ (InsertBlock(C) \/ SwitchBranch(C))
    BY DEF InsertBlock, SwitchBranch
  <2>8. ~ Prune /\ ~ CleanSeen /\ ~ Tick /\ ~ UNCHANGED vars
    BY <2>1 DEF Prune, CleanSeen, Tick, vars
  <2> QED BY <2>4, <2>5, <2>6, <2>7, <2>8 DEF Next
<1>5. pending' = Limited(p, s).pending /\ seen' = Limited(p, s).seen
  BY <1>4 DEF P2pCommit
<1> QED BY <1>3, <1>5

\* on_tx leaves the pool within its count limit, whatever POST /tx and
\* POST /tx/relay had pushed before without looking at the limit.
THEOREM P2pBounds == Spec => P2pBoundsPool
<1>1. PInv /\ [Next]_vars =>
        \A w \in Worker :
          worker[w].entry = "p2p" /\ worker'[w] = Free /\ pending' # pending
            => Len(pending') <= MaxSize
  <2> SUFFICES ASSUME PInv, [Next]_vars, NEW w \in Worker, worker[w].entry = "p2p",
                      worker'[w] = Free, pending' # pending
               PROVE  Len(pending') <= MaxSize
    OBVIOUS
  <2> QED BY P2pEnds, LimitedIs
<1> QED BY <1>1, PoolInit, PoolStep, PTL DEF Spec, P2pBoundsPool

\* What on_tx evicts has no better rate than anything it keeps, and seen_tx lets it
\* come back: the sort, the count of evictions and the drain agree on which end of
\* the list is the worst.
THEOREM WorstEvicted == Spec => EvictsWorst
<1>1. PInv /\ [Next]_vars =>
        \A w \in Worker :
          worker[w].entry = "p2p" /\ worker'[w] = Free =>
            \A t \in ToSet(Append(pending, worker[w].tx)) \ ToSet(pending') :
              now - Stamp[t] <= Expiry /\ pending' # pending =>
                /\ seen'[t] = Never
                /\ \A s \in ToSet(pending') : Rate[t] <= Rate[s]
  <2> SUFFICES ASSUME PInv, [Next]_vars, NEW w \in Worker, worker[w].entry = "p2p",
                      worker'[w] = Free, pending' # pending,
                      NEW t \in ToSet(Append(pending, worker[w].tx)) \ ToSet(pending'),
                      now - Stamp[t] <= Expiry
               PROVE  seen'[t] = Never /\ \A s \in ToSet(pending') : Rate[t] <= Rate[s]
    OBVIOUS
  <2> DEFINE p == Append(pending, worker[w].tx)
             s == [seen EXCEPT ![worker[w].tx] = now]
             r == Limited(p, s)
  <2>1. /\ p \in Seq(Tx) /\ s \in [Tx -> Time \cup {Never}]
        /\ pending' = r.pending /\ seen' = r.seen
    BY P2pEnds
  <2>2. t \in ToSet(p) \ ToSet(pending')
    OBVIOUS
  <2> HIDE DEF p, s
  <2>3. /\ r.pending \in Seq(Tx)
        /\ \A i \in DOMAIN p :
             now - Stamp[p[i]] <= Expiry =>
               \/ \E k \in 1..Len(r.pending) : r.pending[k] = p[i]
               \/ /\ r.seen[p[i]] = Never
                  /\ \A k \in 1..Len(r.pending) : Rate[p[i]] <= Rate[r.pending[k]]
    BY <2>1, LimitedIs
  <2> HIDE DEF r
  <2>4. PICK i \in DOMAIN p : p[i] = t
    BY <2>2 DEF ToSet
  <2>5. DOMAIN pending' = 1..Len(pending')
    BY <2>1, <2>3
  <2>6. ~ \E k \in 1..Len(pending') : pending'[k] = t
    BY <2>2, <2>5 DEF ToSet
  <2>7. seen'[t] = Never /\ \A k \in 1..Len(pending') : Rate[t] <= Rate[pending'[k]]
    BY <2>1, <2>3, <2>4, <2>6
  <2> QED BY <2>5, <2>7 DEF ToSet
<1> QED BY <1>1, PoolInit, PoolStep, PTL DEF Spec, EvictsWorst
=============================================================================
