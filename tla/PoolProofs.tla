----------------------------- MODULE PoolProofs -----------------------------
(***************************************************************************)
(* Proofs about Pool: its types, that the credits of the miners never      *)
(* exceed what the pool's blocks have earned, and that a distribution      *)
(* keeps back less than one unit for every miner.                          *)
(***************************************************************************)
EXTENDS Pool, SumLemmas, SequenceTheorems

-----------------------------------------------------------------------------
(* The inductive invariant *)

\* A payout spends finitely many coins.
Funded == {p \in Payout : IsFiniteSet(p.ins)}

\* At most one payout, or candidate, for a miner.
OneEach(P) == \A p, q \in P : p.miner = q.miner => p = q

\* The templates built so far.
Built ==
  {t \in Template : t.job <= jobs /\ OneEach(t.payouts) /\ t.payouts \subseteq Funded}

Submitting == [step : {"sent", "ok", "stale", "credited"}, tmpl : Built]
Paying == [step : {"paid"}, tmpl : Built, paid : SUBSET Funded]

\* The templates that a connection may still submit, or be credited for.
Live == building \cup store \cup sent \cup {conn[c].tmpl : c \in {d \in Conn : conn[d] \notin {Idle, Closed}}}
LiveJobs == {t.job : t \in Live}

SharesTyped == recent \in Seq(Miner) /\ Len(recent) <= WindowSize

BalancesTyped ==
  /\ balances \in [Miner -> Nat] /\ saved \in [Miner -> Nat] /\ credited \in [Miner -> Nat]

\* A miner waits for its payout to be built or has one, and has at most one.
PayoutsTyped ==
  /\ queue \in SUBSET Funded /\ OneEach(queue)
  /\ paying \in [active : BOOLEAN, todo : SUBSET [miner : Miner, amount : Nat],
                 built : SUBSET Funded]
  /\ OneEach(paying.todo) /\ OneEach(paying.built)
  /\ \A k \in paying.todo, p \in paying.built : k.miner # p.miner

TemplatesTyped ==
  /\ jobs \in 0..MaxJobs
  /\ building \in SUBSET Built /\ store \in SUBSET Built /\ sent \in SUBSET Built
  /\ conn \in [Conn -> {Idle, Closed} \cup Submitting \cup Paying]

\* The node has finitely many coins of the pool.
NodeTyped ==
  /\ height \in 0..MaxHeight /\ mined \in SUBSET (1..jobs)
  /\ coins \in SUBSET Coin /\ IsFiniteSet(coins)
  /\ \A c \in Conn : conn[c].step = "ok" => conn[c].tmpl.job \in mined

\* The jobs D have been distributed.  A restart forgets which, but of the
\* templates that can still be credited it forgets none: it drops them all.
Backed ==
  \E D \in SUBSET mined :
    /\ found \subseteq D /\ D \cap LiveJobs \subseteq found
    /\ Sum(credited) <= Cardinality(D) * (Reward - Fee)

IInv ==
  /\ SharesTyped /\ BalancesTyped /\ PayoutsTyped /\ TemplatesTyped /\ NodeTyped /\ Backed

-----------------------------------------------------------------------------
(* Operators *)

\* Sum is the sum of SumLemmas.
LEMMA SumIsSumOf ==
  ASSUME NEW f
  PROVE  Sum(f) = SumOf(f, Miner)
BY DEF Sum, SumOf

\* The window has the new share in it, keeps its type and its size.
LEMMA AddShareTyped ==
  ASSUME SharesTyped, NEW m \in Miner
  PROVE  /\ AddShare(m) \in Seq(Miner)
         /\ Len(AddShare(m)) \in 1..WindowSize
<1> DEFINE all == Append(recent, m)
           keep == IF Len(all) > WindowSize THEN WindowSize ELSE Len(all)
<1>1. all \in Seq(Miner) /\ Len(all) \in Nat \ {0} /\ \A i \in 1..Len(all) : all[i] \in Miner
  BY DEF SharesTyped
<1>2. WindowSize \in Nat \ {0}
  BY ConstantsTyped
<1>3. keep \in 1..WindowSize /\ keep <= Len(all)
  BY <1>1, <1>2
<1>4. AddShare(m) = SubSeq(all, Len(all) - keep + 1, Len(all))
  BY DEF AddShare
<1> HIDE DEF all, keep
<1>5. /\ SubSeq(all, Len(all) - keep + 1, Len(all)) \in Seq(Miner)
      /\ Len(SubSeq(all, Len(all) - keep + 1, Len(all))) = Len(all) - (Len(all) - keep + 1) + 1
  <2>1. Len(all) - keep + 1 \in Int /\ Len(all) \in Int /\ Len(all) - keep + 1 <= Len(all)
    BY <1>1, <1>2, <1>3
  <2>2. \A i \in (Len(all) - keep + 1)..Len(all) : all[i] \in Miner
    BY <1>1, <1>2, <1>3
  <2> QED BY <2>1, <2>2, SubSeqProperties
<1> QED BY <1>1, <1>2, <1>3, <1>4, <1>5

\* What is distributed of a window: never more than the reward less the fee, and
\* less by less than one unit for every miner.
LEMMA Distributed ==
  ASSUME NEW window \in Seq(Miner), Len(window) # 0,
         NEW f \in [Miner -> Nat], NEW g,
         g = [m \in Miner |-> f[m] + Credit(window, m)]
  PROVE  /\ g \in [Miner -> Nat]
         /\ Sum(f) \in Nat /\ Sum(g) \in Nat
         /\ Sum(g) - Sum(f) <= Reward - Fee
         /\ Sum(g) - Sum(f) > Reward - Fee - Cardinality(Miner)
<1> DEFINE D == DOMAIN window
           n == [m \in Miner |-> Cardinality({i \in D : window[i] = m})]
           q == [m \in Miner |-> Credit(window, m)]
           A == Reward - Fee
           L == Len(window)
<1>1. D = 1..L /\ L \in Nat \ {0} /\ A \in Nat /\ IsFiniteSet(Miner)
  BY ConstantsTyped
<1>2. IsFiniteSet(D) /\ Cardinality(D) = L /\ \A i \in D : window[i] \in Miner
  <2>1. IsFiniteSet(1..L) /\ Cardinality(1..L) = L
    <3> HIDE DEF L
    <3>1. 1 \in Int /\ L \in Int /\ L - 1 + 1 = L /\ ~ 1 > L
      BY <1>1
    <3> QED BY <3>1, FS_Interval
  <2>2. \A i \in 1..L : window[i] \in Miner
    OBVIOUS
  <2> QED BY <1>1, <2>1, <2>2
<1>3. \A m \in Miner : n[m] = Cardinality(Having(D, window, m))
  BY DEF Having
<1>4. SumOf(n, Miner) = L /\ \A m \in Miner : n[m] \in Nat
  <2>1. (\A m \in Miner : n[m] \in Nat) /\ SumOf(n, Miner) = Cardinality(D)
    <3>1. IsFiniteSet(Miner) /\ IsFiniteSet(D) /\ \A i \in D : window[i] \in Miner
      BY <1>1, <1>2
    <3> HIDE DEF n, D
    <3> QED BY <1>3, <3>1, SumCounts
  <2> QED BY <1>2, <2>1
<1>5. \A m \in Miner : q[m] = (A * n[m]) \div L
  BY DEF Credit, Count
<1>6. Miner # {}
  BY <1>1, <1>2
<1>7. SumOf(q, Miner) \in Nat /\ SumOf(q, Miner) <= A /\ SumOf(q, Miner) > A - Cardinality(Miner)
  <2> HIDE DEF n, q, A, L
  <2> QED BY <1>1, <1>4, <1>5, <1>6, SumShares
<1>8. \A m \in Miner : q[m] \in Nat
  <2> SUFFICES ASSUME NEW m \in Miner PROVE q[m] \in Nat
    OBVIOUS
  <2> DEFINE y == A * n[m]
  <2>1. y \in Nat /\ q[m] = y \div L
    <3>1. A \in Nat /\ n[m] \in Nat
      BY <1>1, <1>4
    <3> HIDE DEF A, n, q, L
    <3> QED BY <1>5, <3>1
  <2> HIDE DEF y, q, A, L
  <2> QED BY <1>1, <2>1, DivLeaves
<1>9. \A m \in Miner : f[m] \in Nat /\ g[m] = f[m] + q[m]
  OBVIOUS
<1>10. g \in [Miner -> Nat]
  <2>1. \A m \in Miner : f[m] + Credit(window, m) \in Nat
    BY <1>8, <1>9
  <2> QED BY <2>1
<1>11. SumOf(g, Miner) = SumOf(f, Miner) + SumOf(q, Miner) /\ SumOf(f, Miner) \in Nat
  <2>1. \A m \in Miner : f[m] \in Int /\ q[m] \in Int /\ g[m] = f[m] + q[m]
    BY <1>8, <1>9
  <2>2. \A m \in Miner : f[m] \in Nat
    OBVIOUS
  <2> HIDE DEF q
  <2>3. SumOf(f, Miner) \in Nat
    BY <1>1, <2>2, SumNat
  <2> QED BY <1>1, <2>1, <2>3, SumPlus
<1>12. Cardinality(Miner) \in Nat
  BY <1>1, FS_CardinalityType
<1> HIDE DEF A, q
<1> QED BY <1>1, <1>7, <1>10, <1>11, <1>12, SumIsSumOf DEF A

\* A set with one payout for a miner is finite.
LEMMA OneEachFinite ==
  ASSUME NEW P \in SUBSET Payout, OneEach(P)
  PROVE  IsFiniteSet(P)
<1> DEFINE h == [p \in P |-> p.miner]
<1>1. h \in Injection(P, Miner)
  BY DEF OneEach, Payout, Injection, IsInjective
<1>2. IsFiniteSet(Miner)
  BY ConstantsTyped
<1> HIDE DEF h
<1> QED BY <1>1, <1>2, FS_Injection

\* The value of finitely many coins is a number.
LEMMA ValueTyped ==
  ASSUME NEW S \in SUBSET Coin, IsFiniteSet(S)
  PROVE  Value(S) \in Nat
<1> DEFINE value == [x \in S |-> x.value]
<1>1. \A x \in S : value[x] \in Nat
  BY DEF Coin
<1>2. Value(S) = SumOf(value, S)
  BY DEF Value, SumOf
<1> HIDE DEF value
<1> QED BY <1>1, <1>2, SumNat

\* At most one set of coins is selected, and it is taken from the pool's coins.
LEMMA SelectedTyped ==
  ASSUME NodeTyped, NEW sum
  PROVE  /\ \A S \in Selected(sum) : S \in SUBSET Coin /\ IsFiniteSet(S)
         /\ \A S, T \in Selected(sum) : S = T
<1>1. \A S \in Selected(sum) : S \in SUBSET coins
  BY DEF Selected, Covering
<1>2. \A S, T \in Selected(sum) : S = T
  BY DEF Selected
<1> QED BY <1>1, <1>2, FS_Subset DEF NodeTyped

\* The outputs of a block are finitely many coins.
LEMMA OutputsTyped ==
  ASSUME TemplatesTyped, NEW t \in Built
  PROVE  Outputs(t) \in SUBSET Coin /\ IsFiniteSet(Outputs(t))
<1> DEFINE left(p) == Value(p.ins) - p.amount - TxFee
           coin(p) == [job |-> t.job, of |-> p.miner, value |-> left(p)]
           change == {coin(p) : p \in t.payouts}
           reward == [job |-> t.job, of |-> "coinbase", value |-> Reward]
<1>1. /\ t.job \in 1..MaxJobs /\ t.payouts \in SUBSET Funded /\ t.payouts \in SUBSET Payout
      /\ OneEach(t.payouts)
  BY DEF Built, Template
<1>2. IsFiniteSet(t.payouts)
  BY <1>1, OneEachFinite
<1>3. IsFiniteSet(change)
  <2> DEFINE h == [p \in t.payouts |-> coin(p)]
  <2>1. h \in Surjection(t.payouts, change)
    <3> HIDE DEF coin
    <3> QED BY DEF Surjection
  <2> HIDE DEF h, change
  <2> QED BY <1>2, <2>1, FS_Surjection
<1>4. t.job \in 0..MaxJobs /\ Reward \in Nat
  BY <1>1, ConstantsTyped
<1>5. ASSUME NEW p \in t.payouts, coin(p).value > 0 PROVE coin(p) \in Coin
  <2>1. p.miner \in Miner /\ p.amount \in Nat /\ Value(p.ins) \in Nat /\ TxFee \in Nat
    BY <1>1, ValueTyped, ConstantsTyped DEF Funded, Payout
  <2>2. left(p) \in Nat
    <3>1. left(p) \in Int /\ left(p) > 0
      BY <1>5, <2>1
    <3> HIDE DEF left
    <3> QED BY <3>1
  <2> HIDE DEF left
  <2> QED BY <1>4, <2>1, <2>2 DEF Coin
<1>6. reward \in Coin
  BY <1>4 DEF Coin
<1>7. Outputs(t) = {reward} \cup {x \in change : x.value > 0}
  BY DEF Outputs
<1>8. {x \in change : x.value > 0} \in SUBSET Coin
  <2> HIDE DEF coin
  <2> QED BY <1>5
<1>9. IsFiniteSet({x \in change : x.value > 0}) /\ IsFiniteSet({reward})
  <2> HIDE DEF change, reward
  <2> QED BY <1>3, FS_Subset, FS_Singleton
<1> HIDE DEF change, reward
<1> QED BY <1>6, <1>7, <1>8, <1>9, FS_Union

-----------------------------------------------------------------------------
(* Types are kept, one lemma for each part of the state *)

\* Only a share, a block and a restart change the window.
LEMMA SharesStep ==
  ASSUME IInv, [Next]_vars
  PROVE  SharesTyped'
<1>1. ASSUME NEW m \in Miner, recent' = AddShare(m) PROVE SharesTyped'
  BY <1>1, AddShareTyped, ConstantsTyped DEF IInv, SharesTyped
<1>2. ASSUME NEW c \in Conn, CreditBlock(c) PROVE SharesTyped'
  BY <1>1, <1>2, ConstantsTyped DEF CreditBlock
<1>3. ASSUME NEW c \in Conn, AcceptShare(c) PROVE SharesTyped'
  BY <1>1, <1>3, ConstantsTyped DEF AcceptShare
<1>4. CASE Restart
  <2>1. <<>> \in Seq(Miner) /\ Len(<<>>) = 0
    OBVIOUS
  <2> QED BY <1>4, <2>1, ConstantsTyped DEF Restart, SharesTyped
<1>5. CASE recent' = recent
  BY <1>5 DEF IInv, SharesTyped
<1> QED
  BY <1>2, <1>3, <1>4, <1>5
  DEF Next, vars, tracker, FindBlock, NodeSubmit, LoseAnswer, DrainQueue, ZeroBalances,
      SubmitFailed, TemplateStatus, TemplateReady, JobReceived, PayoutStep, PayoutSnapshot,
      PayoutBuild, PayoutPublish, PayoutBuildFailed, BalanceSync, OtherBlock

\* Only a block, a payout, the balance sync and a restart change balances.
LEMMA BalancesStep ==
  ASSUME IInv, [Next]_vars
  PROVE  BalancesTyped'
<1>1. ASSUME NEW c \in Conn, CreditBlock(c) PROVE BalancesTyped'
  <2> DEFINE window == AddShare(MinerOf[c])
  <2>1. window \in Seq(Miner) /\ Len(window) # 0
    BY AddShareTyped, ConstantsTyped DEF IInv
  <2>2. ASSUME NEW f \in [Miner -> Nat], NEW g, g = [m \in Miner |-> f[m] + Credit(window, m)]
        PROVE  g \in [Miner -> Nat]
    <3> HIDE DEF window
    <3> QED BY <2>1, <2>2, Distributed
  <2>3. CASE /\ balances' = [m \in Miner |-> balances[m] + Credit(window, m)]
             /\ credited' = [m \in Miner |-> credited[m] + Credit(window, m)]
             /\ saved' = saved
    <3> HIDE DEF window
    <3> QED BY <2>2, <2>3 DEF IInv, BalancesTyped
  <2>4. CASE UNCHANGED <<balances, credited, saved>>
    BY <2>4 DEF IInv, BalancesTyped
  <2> QED BY <1>1, <2>3, <2>4 DEF CreditBlock
<1>2. ASSUME NEW c \in Conn, ZeroBalances(c) PROVE BalancesTyped'
  BY <1>2 DEF ZeroBalances, IInv, BalancesTyped
<1>3. CASE BalanceSync \/ Restart
  BY <1>3 DEF BalanceSync, Restart, tracker, IInv, BalancesTyped
<1>4. CASE UNCHANGED <<balances, saved, credited>>
  BY <1>4 DEF IInv, BalancesTyped
<1> QED
  BY <1>1, <1>2, <1>3, <1>4
  DEF Next, vars, tracker, AcceptShare, FindBlock, NodeSubmit, LoseAnswer, DrainQueue,
      SubmitFailed, TemplateStatus, TemplateReady, JobReceived, PayoutStep, PayoutSnapshot,
      PayoutBuild, PayoutPublish, PayoutBuildFailed, OtherBlock

\* Payouts are built from candidates, one for a miner.
LEMMA PayoutsStep ==
  ASSUME IInv, [Next]_vars
  PROVE  PayoutsTyped'
<1>0. PayoutsTyped /\ BalancesTyped /\ NodeTyped
  BY DEF IInv
<1>1. ASSUME queue' \in {queue, {}}, paying' = paying PROVE PayoutsTyped'
  BY <1>0, <1>1 DEF PayoutsTyped, OneEach
<1>2. ASSUME NEW c \in Conn, DrainQueue(c) \/ SubmitFailed(c) PROVE PayoutsTyped'
  BY <1>1, <1>2 DEF DrainQueue, SubmitFailed
<1>3. CASE Restart
  BY <1>3 DEF Restart, PayoutsTyped, NotPaying, OneEach
<1>4. CASE PayoutSnapshot
  <2>1. /\ queue' = queue
        /\ \/ paying' = paying
           \/ paying' = [active |-> TRUE, todo |-> Candidates, built |-> {}]
    BY <1>4 DEF PayoutSnapshot
  <2>2. Candidates \in SUBSET [miner : Miner, amount : Nat] /\ OneEach(Candidates)
    BY <1>0 DEF Candidates, BalancesTyped, OneEach
  <2> HIDE DEF Candidates
  <2>3. CASE paying' = [active |-> TRUE, todo |-> Candidates, built |-> {}]
    BY <1>0, <2>1, <2>2, <2>3 DEF PayoutsTyped, OneEach
  <2> QED BY <1>1, <2>1, <2>3
<1>5. CASE PayoutBuild
  <2>1. PICK k \in paying.todo :
          LET paid == {[miner |-> k.miner, amount |-> k.amount, ins |-> S] :
                         S \in Selected(k.amount + TxFee)}
          IN  paying' = [paying EXCEPT !.todo = @ \ {k}, !.built = @ \cup paid]
    BY <1>5 DEF PayoutBuild
  <2> DEFINE paid == {[miner |-> k.miner, amount |-> k.amount, ins |-> S] :
                        S \in Selected(k.amount + TxFee)}
  <2>2. queue' = queue
    BY <1>5 DEF PayoutBuild
  <2>3. k \in [miner : Miner, amount : Nat]
    BY <1>0 DEF PayoutsTyped
  <2>4. paid \in SUBSET Funded /\ (\A p \in paid : p.miner = k.miner) /\ \A p, q \in paid : p = q
    <3>1. /\ \A S \in Selected(k.amount + TxFee) : S \in SUBSET Coin /\ IsFiniteSet(S)
          /\ \A S, T \in Selected(k.amount + TxFee) : S = T
      BY <1>0, SelectedTyped
    <3>2. ASSUME NEW S \in Selected(k.amount + TxFee)
          PROVE  [miner |-> k.miner, amount |-> k.amount, ins |-> S] \in Funded
      BY <2>3, <3>1 DEF Funded, Payout
    <3> QED BY <3>1, <3>2
  <2>5. /\ paying'.active = paying.active /\ paying'.todo = paying.todo \ {k}
        /\ paying'.built = paying.built \cup paid
        /\ paying' \in [active : BOOLEAN, todo : SUBSET [miner : Miner, amount : Nat],
                        built : SUBSET Funded]
    <3>1. paying' = [paying EXCEPT !.todo = @ \ {k}, !.built = @ \cup paid]
      BY <2>1
    <3> HIDE DEF paid
    <3> QED BY <1>0, <2>4, <3>1 DEF PayoutsTyped
  <2> HIDE DEF paid
  <2>6. OneEach(paying'.todo) /\ OneEach(paying'.built)
    BY <1>0, <2>4, <2>5 DEF PayoutsTyped, OneEach
  <2>7. \A j \in paying'.todo, q \in paying'.built : j.miner # q.miner
    BY <1>0, <2>4, <2>5 DEF PayoutsTyped, OneEach
  <2> QED BY <1>0, <2>2, <2>5, <2>6, <2>7 DEF PayoutsTyped
<1>6. CASE PayoutBuildFailed
  BY <1>0, <1>6 DEF PayoutBuildFailed, PayoutsTyped, OneEach
<1>7. CASE PayoutPublish
  BY <1>0, <1>7 DEF PayoutPublish, PayoutsTyped, NotPaying, OneEach
<1> QED
  BY <1>1, <1>2, <1>3, <1>4, <1>5, <1>6, <1>7
  DEF Next, vars, AcceptShare, FindBlock, NodeSubmit, LoseAnswer, CreditBlock, ZeroBalances,
      TemplateStatus, TemplateReady, JobReceived, PayoutStep, BalanceSync, OtherBlock

\* Templates stay the ones that were built.
LEMMA TemplatesStep ==
  ASSUME IInv, [Next]_vars
  PROVE  TemplatesTyped'
<1>0. TemplatesTyped /\ PayoutsTyped /\ NodeTyped
  BY DEF IInv
<1> DEFINE State == {Idle, Closed} \cup Submitting \cup Paying
<1>1. ASSUME jobs' = jobs PROVE Built' = Built /\ State' = State
  BY <1>1 DEF Built, Submitting, Paying
<1>2. ASSUME NEW c \in Conn, NEW x \in State, jobs' = jobs, conn' = [conn EXCEPT ![c] = x],
             building' = building, store' \in SUBSET store, sent' = sent
      PROVE  TemplatesTyped'
  <2> HIDE DEF State
  <2>1. conn' \in [Conn -> State]
    BY <1>0, <1>2 DEF TemplatesTyped, State
  <2>2. store' \in SUBSET Built
    BY <1>0, <1>2 DEF TemplatesTyped
  <2> QED BY <1>0, <1>1, <1>2, <2>1, <2>2 DEF TemplatesTyped, State
<1>3. ASSUME NEW c \in Conn, NEW t \in store, FindBlock(c, t) PROVE TemplatesTyped'
  <2>1. [step |-> "sent", tmpl |-> t] \in State
    BY <1>0 DEF TemplatesTyped, Submitting
  <2> QED BY <1>2, <1>3, <2>1 DEF FindBlock, templates
<1>4. ASSUME NEW c \in Conn, NEW s \in {"ok", "stale", "credited"},
             conn[c].step \in {"sent", "ok"}, Answer(c, s), UNCHANGED templates
      PROVE  TemplatesTyped'
  <2>1. conn[c] \in Submitting
    BY <1>0, <1>4 DEF TemplatesTyped, Idle, Closed, Paying
  <2>2. [conn[c] EXCEPT !.step = s] \in State
    BY <1>4, <2>1 DEF Submitting
  <2>3. conn' = [conn EXCEPT ![c] = [conn[c] EXCEPT !.step = s]]
    BY <1>0, <1>4 DEF Answer, TemplatesTyped
  <2> QED BY <1>2, <1>4, <2>2, <2>3 DEF templates
<1>5. ASSUME NEW c \in Conn, NodeSubmit(c) \/ LoseAnswer(c) \/ CreditBlock(c)
      PROVE  TemplatesTyped'
  <2>1. CASE Refused(c) /\ UNCHANGED templates
    <3>1. Idle \in State
      OBVIOUS
    <3> QED BY <1>2, <2>1, <3>1 DEF Refused, templates
  <2> QED BY <1>4, <1>5, <2>1 DEF NodeSubmit, LoseAnswer, CreditBlock
<1>6. ASSUME NEW c \in Conn, DrainQueue(c) PROVE TemplatesTyped'
  <2>1. conn[c] \in Submitting
    BY <1>0, <1>6 DEF DrainQueue, TemplatesTyped, Idle, Closed, Paying
  <2>2. [step |-> "paid", tmpl |-> conn[c].tmpl, paid |-> queue] \in State /\ Idle \in State
    BY <1>0, <2>1 DEF PayoutsTyped, Submitting, Paying
  <2>3. PICK x \in State : conn' = [conn EXCEPT ![c] = x]
    BY <1>6, <2>2 DEF DrainQueue
  <2>4. /\ jobs' = jobs /\ building' = building /\ sent' = sent
        /\ store' \in SUBSET store
    BY <1>6 DEF DrainQueue
  <2> QED BY <1>2, <2>3, <2>4
<1>7. ASSUME NEW c \in Conn, ZeroBalances(c) \/ SubmitFailed(c) PROVE TemplatesTyped'
  <2>1. Idle \in State
    OBVIOUS
  <2> QED BY <1>2, <1>7, <2>1 DEF ZeroBalances, SubmitFailed, templates
<1>8. CASE TemplateStatus
  <2> DEFINE t == [job |-> jobs + 1, height |-> height + 1, payouts |-> queue]
  <2>1. jobs' \in 0..MaxJobs /\ jobs' = jobs + 1 /\ building' = {t}
    BY <1>0, <1>8, ConstantsTyped DEF TemplateStatus, TemplatesTyped
  <2>2. t \in Template /\ t.job <= jobs'
    BY <1>0, <1>8, <2>1, ConstantsTyped
    DEF TemplateStatus, TemplatesTyped, NodeTyped, PayoutsTyped, Template, Funded
  <2>3. t \in Built'
    BY <1>0, <2>2 DEF PayoutsTyped, Built
  <2>4. Built \subseteq Built'
    <3>1. \A u \in Built : u \in Template /\ u.job <= jobs /\ u.job \in Int
      BY DEF Built, Template
    <3>2. jobs \in Int /\ jobs' = jobs + 1
      BY <1>0, <2>1 DEF TemplatesTyped
    <3>3. \A u \in Built : u.job <= jobs'
      BY <3>1, <3>2
    <3> QED BY <3>3 DEF Built
  <2>5. State \subseteq State'
    <3> HIDE DEF t
    <3> QED BY <2>4 DEF Submitting, Paying
  <2>6. UNCHANGED <<store, sent, conn>>
    BY <1>8 DEF TemplateStatus
  <2> HIDE DEF t
  <2>7. conn' \in [Conn -> State']
    BY <1>0, <2>5, <2>6 DEF TemplatesTyped
  <2> QED BY <1>0, <2>1, <2>3, <2>4, <2>6, <2>7 DEF TemplatesTyped
<1>9. CASE TemplateReady \/ JobReceived
  <2>1. jobs' = jobs /\ conn' = conn
    BY <1>9 DEF TemplateReady, JobReceived
  <2>2. building' \in SUBSET Built /\ store' \in SUBSET Built /\ sent' \in SUBSET Built
    BY <1>0, <1>9 DEF TemplateReady, JobReceived, TemplatesTyped
  <2> QED BY <1>0, <1>1, <2>1, <2>2 DEF TemplatesTyped
<1>10. CASE Restart
  <2>1. /\ building' = {} /\ store' = {} /\ sent' = {} /\ jobs' = jobs
        /\ conn' = [c \in Conn |-> IF conn[c] = Closed THEN Closed ELSE Idle]
    BY <1>10 DEF Restart
  <2> QED BY <1>0, <2>1 DEF TemplatesTyped
<1>11. CASE UNCHANGED <<templates, conn>>
  <2>1. UNCHANGED <<jobs, building, store, sent, conn>>
    BY <1>11 DEF templates
  <2> QED BY <1>0, <1>1, <2>1 DEF TemplatesTyped
<1> QED
  BY <1>3, <1>5, <1>6, <1>7, <1>8, <1>9, <1>10, <1>11
  DEF Next, vars, AcceptShare, PayoutStep, PayoutSnapshot, PayoutBuild, PayoutPublish,
      PayoutBuildFailed, BalanceSync, OtherBlock, templates

\* The state of a connection after an answer of the node.
LEMMA Answered ==
  ASSUME TemplatesTyped, NEW c \in Conn, conn[c].step \in {"sent", "ok"}, NEW s, Answer(c, s)
  PROVE  /\ conn[c] \in Submitting
         /\ conn'[c].step = s /\ conn'[c].tmpl = conn[c].tmpl
         /\ \A d \in Conn \ {c} : conn'[d] = conn[d]
<1>1. conn[c] \in Submitting
  BY DEF TemplatesTyped, Idle, Closed, Paying
<1>2. conn'[c] = [conn[c] EXCEPT !.step = s] /\ \A d \in Conn \ {c} : conn'[d] = conn[d]
  BY DEF Answer, TemplatesTyped
<1>3. conn'[c].step = s /\ conn'[c].tmpl = conn[c].tmpl
  BY <1>1, <1>2 DEF Submitting
<1> QED BY <1>1, <1>2, <1>3

\* What the node knows of the pool.
LEMMA NodeStep ==
  ASSUME IInv, [Next]_vars
  PROVE  NodeTyped'
<1>0. NodeTyped /\ TemplatesTyped
  BY DEF IInv
<1> DEFINE OkMined == \A c \in Conn : conn[c].step = "ok" => conn[c].tmpl.job \in mined
<1>1. ASSUME height' \in 0..MaxHeight, UNCHANGED <<mined, coins>>,
             jobs' \in Nat, jobs <= jobs', OkMined'
      PROVE  NodeTyped'
  <2>1. mined' \in SUBSET (1..jobs')
    BY <1>0, <1>1 DEF NodeTyped, TemplatesTyped
  <2> QED BY <1>0, <1>1, <2>1 DEF NodeTyped
<1>2. jobs \in Nat /\ height \in 0..MaxHeight /\ OkMined
  BY <1>0, ConstantsTyped DEF TemplatesTyped, NodeTyped
<1>3. ASSUME NEW c \in Conn, NEW s, conn[c].step \in {"sent", "ok"}, Answer(c, s),
             s = "ok" => conn[c].tmpl.job \in mined', mined \subseteq mined'
      PROVE  OkMined'
  BY <1>2, <1>3, <1>0, Answered
<1>4. ASSUME NEW c \in Conn, NodeSubmit(c) PROVE NodeTyped'
  <2> DEFINE t == conn[c].tmpl
             spent == UNION {p.ins : p \in t.payouts}
  <2>0. jobs' = jobs /\ conn[c].step = "sent"
    BY <1>4 DEF NodeSubmit, templates
  <2>1. CASE UNCHANGED node
    <3>1. OkMined'
      <4>1. CASE Refused(c)
        BY <1>0, <1>2, <2>1, <4>1 DEF Refused, Idle, node, TemplatesTyped
      <4> QED BY <1>3, <1>4, <2>1, <4>1 DEF NodeSubmit, node
    <3> QED BY <1>1, <1>2, <2>0, <2>1, <3>1 DEF node
  <2>2. CASE /\ t.job \notin mined /\ Answer(c, "ok") /\ height' = t.height
             /\ mined' = mined \cup {t.job}
             /\ coins' = (coins \ spent) \cup Outputs(t)
    <3>1. t \in Built
      BY <1>0, <2>0, <2>2, Answered DEF Submitting
    <3>2. t.job \in 1..jobs /\ t.height \in 1..MaxHeight
      BY <1>2, <3>1 DEF Built, Template
    <3>3. OkMined'
      BY <1>3, <2>0, <2>2
    <3>4. coins' \in SUBSET Coin /\ IsFiniteSet(coins')
      <4>1. Outputs(t) \in SUBSET Coin /\ IsFiniteSet(Outputs(t))
        <5> HIDE DEF t
        <5> QED BY <1>0, <3>1, OutputsTyped
      <4>2. coins \ spent \in SUBSET Coin /\ IsFiniteSet(coins \ spent)
        <5> HIDE DEF spent
        <5> QED BY <1>0, FS_Subset DEF NodeTyped
      <4> HIDE DEF t, spent
      <4> QED BY <2>2, <4>1, <4>2, FS_Union
    <3>5. mined' \in SUBSET (1..jobs') /\ height' \in 0..MaxHeight
      <4>1. mined \in SUBSET (1..jobs)
        BY <1>0 DEF NodeTyped
      <4>2. mined' = mined \cup {t.job} /\ height' = t.height
        BY <2>2
      <4> HIDE DEF t
      <4>3. mined' \in SUBSET (1..jobs')
        BY <2>0, <3>2, <4>1, <4>2
      <4> QED BY <3>2, <4>2, <4>3
    <3> QED BY <3>3, <3>4, <3>5 DEF NodeTyped
  <2> QED BY <1>4, <2>1, <2>2 DEF NodeSubmit
<1>5. ASSUME NEW c \in Conn, LoseAnswer(c) \/ CreditBlock(c) PROVE NodeTyped'
  <2>1. UNCHANGED <<mined, coins, height, jobs>>
    BY <1>5 DEF LoseAnswer, CreditBlock, node, templates
  <2>2. OkMined'
    <3>1. CASE Refused(c)
      BY <1>0, <1>2, <2>1, <3>1 DEF Refused, Idle, TemplatesTyped
    <3> QED BY <1>3, <1>5, <2>1, <3>1 DEF LoseAnswer, CreditBlock
  <2> QED BY <1>1, <1>2, <2>1, <2>2
<1>6. ASSUME NEW c \in Conn, NEW x, x.step # "ok", conn' = [conn EXCEPT ![c] = x],
             mined' = mined
      PROVE  OkMined'
  BY <1>0, <1>2, <1>6 DEF TemplatesTyped
<1>7. ASSUME NEW c \in Conn,
             \/ \E t \in store : FindBlock(c, t)
             \/ DrainQueue(c) \/ ZeroBalances(c) \/ SubmitFailed(c)
      PROVE  NodeTyped'
  <2>1. UNCHANGED <<mined, coins, height, jobs>>
    BY <1>7 DEF FindBlock, DrainQueue, ZeroBalances, SubmitFailed, node, templates
  <2>2. \E x : x.step # "ok" /\ conn' = [conn EXCEPT ![c] = x]
    BY <1>7 DEF FindBlock, DrainQueue, ZeroBalances, SubmitFailed, Idle
  <2>3. OkMined'
    BY <1>6, <2>1, <2>2
  <2> QED BY <1>1, <1>2, <2>1, <2>3
<1>8. CASE TemplateStatus
  BY <1>1, <1>2, <1>8 DEF TemplateStatus, node
<1>9. CASE Restart
  BY <1>1, <1>2, <1>9 DEF Restart, node, Idle, Closed
<1>10. CASE OtherBlock
  <2>1. height' \in 0..MaxHeight
    BY <1>2, <1>10, ConstantsTyped DEF OtherBlock
  <2> QED BY <1>1, <1>2, <1>10, <2>1 DEF OtherBlock, templates
<1>11. CASE UNCHANGED <<node, conn, jobs>>
  BY <1>1, <1>2, <1>11 DEF node
<1> QED
  BY <1>4, <1>5, <1>7, <1>8, <1>9, <1>10, <1>11
  DEF Next, vars, node, templates, AcceptShare, TemplateReady, JobReceived, PayoutStep,
      PayoutSnapshot, PayoutBuild, PayoutPublish, PayoutBuildFailed, BalanceSync

-----------------------------------------------------------------------------
(* Credits *)

\* A sum of credits is a number, and a set of mined jobs is finite.
LEMMA BackedTyped ==
  ASSUME IInv
  PROVE  /\ Sum(credited) \in Nat /\ Reward - Fee \in Nat
         /\ \A D \in SUBSET mined : IsFiniteSet(D) /\ Cardinality(D) \in Nat
                                    /\ Cardinality(D) <= Cardinality(mined)
<1>1. Sum(credited) \in Nat
  <2>1. IsFiniteSet(Miner) /\ \A m \in Miner : credited[m] \in Nat
    BY ConstantsTyped DEF IInv, BalancesTyped
  <2> QED BY <2>1, SumNat, SumIsSumOf
<1>2. IsFiniteSet(mined)
  <2>1. IsFiniteSet(1..jobs)
    <3>1. 1 \in Int /\ jobs \in Int
      BY DEF IInv, TemplatesTyped
    <3> QED BY <3>1, FS_Interval
  <2> QED BY <2>1, FS_Subset DEF IInv, NodeTyped
<1>3. \A D \in SUBSET mined : IsFiniteSet(D) /\ Cardinality(D) \in Nat
                              /\ Cardinality(D) <= Cardinality(mined)
  BY <1>2, FS_Subset, FS_CardinalityType
<1>4. Reward - Fee \in Nat
  BY ConstantsTyped
<1> QED BY <1>1, <1>3, <1>4

\* A step that credits nobody, and after which no distributed job is live that
\* was not live before.
LEMMA BackedKept ==
  ASSUME Backed, credited' = credited, mined \subseteq mined', found' \subseteq found,
         LiveJobs' \cap mined \subseteq LiveJobs, found' = found \/ LiveJobs' = {}
  PROVE  Backed'
<1>1. PICK D \in SUBSET mined :
        /\ found \subseteq D /\ D \cap LiveJobs \subseteq found
        /\ Sum(credited) <= Cardinality(D) * (Reward - Fee)
  BY DEF Backed
<1>2. D \in SUBSET mined' /\ found' \subseteq D /\ D \cap LiveJobs' \subseteq found'
  BY <1>1
<1> QED BY <1>1, <1>2 DEF Backed

\* A block that is distributed is one more distributed job, and it is on the chain.
LEMMA BackedCredit ==
  ASSUME IInv, NEW c \in Conn, CreditBlock(c), Undistributed(conn[c].tmpl)
  PROVE  Backed'
<1> DEFINE t == conn[c].tmpl
           window == AddShare(MinerOf[c])
<1>1. PICK D \in SUBSET mined :
        /\ found \subseteq D /\ D \cap LiveJobs \subseteq found
        /\ Sum(credited) <= Cardinality(D) * (Reward - Fee)
  BY DEF IInv, Backed
<1>2. /\ t.job \in mined /\ t.job \notin found /\ found' = found \cup {t.job}
      /\ mined' = mined /\ conn[c].step = "ok"
  BY DEF CreditBlock, Undistributed, IInv, NodeTyped, node
<1>3. t.job \in LiveJobs
  <2>1. conn[c] # Idle
    BY <1>2 DEF Idle
  <2>2. conn[c] # Closed
    BY <1>2 DEF Closed
  <2> QED BY <2>1, <2>2 DEF LiveJobs, Live
<1>4. LiveJobs' \subseteq LiveJobs
  <2>1. UNCHANGED <<building, store, sent>> /\ Answer(c, "credited")
    BY DEF CreditBlock, templates
  <2>2. /\ conn'[c].tmpl = conn[c].tmpl /\ conn[c] \notin {Idle, Closed}
        /\ \A d \in Conn \ {c} : conn'[d] = conn[d]
    BY <1>2, <2>1, Answered DEF IInv, Idle, Closed
  <2>3. Live' \subseteq Live
    BY <2>1, <2>2 DEF Live
  <2> QED BY <2>3 DEF LiveJobs
<1> DEFINE E == D \cup {t.job}
<1>5. E \in SUBSET mined' /\ found' \subseteq E /\ E \cap LiveJobs' \subseteq found'
  BY <1>1, <1>2, <1>4
<1>6. t.job \notin D
  BY <1>1, <1>2, <1>3
<1>7. Cardinality(E) = Cardinality(D) + 1 /\ Cardinality(D) \in Nat
  BY <1>6, BackedTyped, FS_AddElement
<1>8. Sum(credited') - Sum(credited) <= Reward - Fee /\ Sum(credited') \in Nat
  <2>1. window \in Seq(Miner) /\ Len(window) # 0
    BY AddShareTyped, ConstantsTyped DEF IInv
  <2>2. credited \in [Miner -> Nat]
    BY DEF IInv, BalancesTyped
  <2>3. credited' = [m \in Miner |-> credited[m] + Credit(window, m)]
    BY DEF CreditBlock
  <2> HIDE DEF window
  <2> QED BY <2>1, <2>2, <2>3, Distributed
<1> HIDE DEF E
<1>9. Sum(credited') <= Cardinality(E) * (Reward - Fee)
  <2> DEFINE A == Reward - Fee
             k == Cardinality(D)
  <2>1. A \in Nat /\ Sum(credited) \in Nat /\ k \in Nat
    BY <1>7, BackedTyped
  <2>2. Sum(credited) <= k * A /\ Sum(credited') - Sum(credited) <= A
    BY <1>1, <1>8
  <2>3. Cardinality(E) * A = (k + 1) * A
    BY <1>7
  <2> HIDE DEF A, k
  <2>4. (k + 1) * A = k * A + A /\ k * A \in Int
    BY <2>1
  <2>5. Sum(credited') <= Cardinality(E) * A
    BY <1>8, <2>1, <2>2, <2>3, <2>4
  <2> QED BY <2>5 DEF A
<1> QED BY <1>5, <1>9 DEF Backed

\* Only CreditBlock gives credits, and only to a job that was not given any.
LEMMA BackedStep ==
  ASSUME IInv, [Next]_vars
  PROVE  Backed'
<1>0. Backed /\ TemplatesTyped /\ NodeTyped
  BY DEF IInv
<1>1. ASSUME credited' = credited, found' = found, mined \subseteq mined', Live' \subseteq Live
      PROVE  Backed'
  <2>1. LiveJobs' \subseteq LiveJobs
    BY <1>1 DEF LiveJobs
  <2> QED BY <1>0, <1>1, <2>1, BackedKept
<1>2. ASSUME NEW c \in Conn, conn[c].step \in {"sent", "ok"}, NEW s, Answer(c, s), s # "idle",
             UNCHANGED templates
      PROVE  Live' \subseteq Live
  <2>1. /\ conn'[c].step = s /\ conn'[c].tmpl = conn[c].tmpl
        /\ conn[c] \notin {Idle, Closed}
        /\ \A d \in Conn \ {c} : conn'[d] = conn[d]
    BY <1>0, <1>2, Answered DEF Idle, Closed
  <2> QED BY <1>2, <2>1 DEF Live, templates
<1>3. ASSUME NEW c \in Conn, NodeSubmit(c) \/ LoseAnswer(c) PROVE Backed'
  <2>1. credited' = credited /\ found' = found /\ mined \subseteq mined'
    BY <1>3 DEF NodeSubmit, LoseAnswer, tracker, node
  <2>2. Live' \subseteq Live
    <3>1. CASE Refused(c) /\ UNCHANGED templates
      BY <1>0, <3>1 DEF Refused, Live, templates, TemplatesTyped
    <3> QED BY <1>2, <1>3, <3>1 DEF NodeSubmit, LoseAnswer
  <2> QED BY <1>1, <2>1, <2>2
<1>4. ASSUME NEW c \in Conn, CreditBlock(c) PROVE Backed'
  <2>1. CASE Undistributed(conn[c].tmpl)
    BY <1>4, <2>1, BackedCredit
  <2>2. CASE ~ Undistributed(conn[c].tmpl)
    <3>1. credited' = credited /\ found' = found /\ mined \subseteq mined'
      BY <1>4, <2>2 DEF CreditBlock, node
    <3>2. Live' \subseteq Live
      BY <1>2, <1>4 DEF CreditBlock
    <3> QED BY <1>1, <3>1, <3>2
  <2> QED BY <2>1, <2>2
<1>5. ASSUME NEW c \in Conn, NEW x, x = Idle \/ (conn[c] \notin {Idle, Closed} /\ x.tmpl = conn[c].tmpl),
             conn' = [conn EXCEPT ![c] = x], building' = building, sent' = sent,
             store' \subseteq store
      PROVE  Live' \subseteq Live
  <2>1. conn'[c] = x /\ \A d \in Conn \ {c} : conn'[d] = conn[d]
    BY <1>0, <1>5 DEF TemplatesTyped
  <2> QED BY <1>5, <2>1 DEF Live
<1>6. ASSUME NEW c \in Conn, DrainQueue(c) \/ ZeroBalances(c) \/ SubmitFailed(c)
      PROVE  Backed'
  <2>1. credited' = credited /\ found' = found /\ mined \subseteq mined'
    BY <1>6 DEF DrainQueue, ZeroBalances, SubmitFailed, tracker, node
  <2>2. building' = building /\ sent' = sent /\ store' \subseteq store
    BY <1>6 DEF DrainQueue, ZeroBalances, SubmitFailed, templates
  <2>3. \E x : /\ x = Idle \/ (conn[c] \notin {Idle, Closed} /\ x.tmpl = conn[c].tmpl)
               /\ conn' = [conn EXCEPT ![c] = x]
    BY <1>6 DEF DrainQueue, ZeroBalances, SubmitFailed, Idle, Closed
  <2>4. Live' \subseteq Live
    BY <1>5, <2>2, <2>3
  <2> QED BY <1>1, <2>1, <2>4
<1>7. ASSUME NEW c \in Conn, NEW t \in store, FindBlock(c, t) PROVE Backed'
  <2>1. conn'[c].tmpl = t /\ \A d \in Conn \ {c} : conn'[d] = conn[d]
    BY <1>0, <1>7 DEF FindBlock, TemplatesTyped
  <2>2. UNCHANGED <<building, store, sent>>
    BY <1>7 DEF FindBlock, templates
  <2>3. Live' \subseteq Live
    BY <2>1, <2>2 DEF Live
  <2> QED BY <1>1, <1>7, <2>3 DEF FindBlock, tracker, node
<1>8. CASE TemplateStatus
  <2>1. /\ UNCHANGED <<credited, found, mined, store, sent, conn>>
        /\ jobs' = jobs + 1
        /\ building' = {[job |-> jobs', height |-> height + 1, payouts |-> queue]}
    BY <1>8 DEF TemplateStatus, tracker, node
  <2>2. jobs' \notin mined
    BY <1>0, <2>1 DEF NodeTyped, TemplatesTyped
  <2>3. LiveJobs' \subseteq LiveJobs \cup {jobs'}
    BY <2>1 DEF LiveJobs, Live
  <2> QED BY <1>0, <2>1, <2>2, <2>3, BackedKept
<1>9. CASE TemplateReady \/ JobReceived
  <2>1. credited' = credited /\ found' = found /\ mined \subseteq mined' /\ conn' = conn
    BY <1>9 DEF TemplateReady, JobReceived, tracker, node
  <2>2. Live' \subseteq Live
    BY <1>9, <2>1 DEF TemplateReady, JobReceived, Live
  <2> QED BY <1>1, <2>1, <2>2
<1>10. CASE Restart
  <2>1. /\ credited' = credited /\ found' = {} /\ mined' = mined
        /\ building' = {} /\ store' = {} /\ sent' = {}
        /\ conn' = [c \in Conn |-> IF conn[c] = Closed THEN Closed ELSE Idle]
    BY <1>10 DEF Restart, node
  <2>2. LiveJobs' = {}
    BY <2>1 DEF LiveJobs, Live
  <2> QED BY <1>0, <2>1, <2>2, BackedKept
<1>11. CASE UNCHANGED <<credited, found, mined, templates, conn>>
  <2>1. Live' \subseteq Live
    BY <1>11 DEF Live, templates
  <2> QED BY <1>1, <1>11, <2>1
<1> QED
  BY <1>3, <1>4, <1>6, <1>7, <1>8, <1>9, <1>10, <1>11
  DEF Next, vars, tracker, node, templates, AcceptShare, PayoutStep, PayoutSnapshot,
      PayoutBuild, PayoutPublish, PayoutBuildFailed, BalanceSync, OtherBlock

-----------------------------------------------------------------------------
(* Theorems *)

\* The pool starts without shares, credits and templates.
LEMMA InitIInv == Init => IInv
<1> SUFFICES ASSUME Init PROVE IInv
  OBVIOUS
<1>1. SharesTyped
  <2>1. <<>> \in Seq(Miner) /\ Len(<<>>) = 0
    OBVIOUS
  <2> QED BY <2>1, ConstantsTyped DEF Init, SharesTyped
<1>2. BalancesTyped /\ PayoutsTyped
  BY ConstantsTyped DEF Init, BalancesTyped, PayoutsTyped, NotPaying, OneEach
<1>3. TemplatesTyped
  BY ConstantsTyped DEF Init, TemplatesTyped
<1>4. NodeTyped
  BY ConstantsTyped DEF Init, NodeTyped, Idle, Closed
<1>5. Backed
  <2>1. Sum(credited) = 0
    <3>1. \A m \in Miner : credited[m] = 0
      BY DEF Init
    <3> QED BY <3>1, SumZero, SumIsSumOf, ConstantsTyped
  <2>2. Cardinality({}) = 0 /\ Reward - Fee \in Int
    BY FS_EmptySet, ConstantsTyped
  <2>3. Sum(credited) <= Cardinality({}) * (Reward - Fee)
    BY <2>1, <2>2
  <2> QED BY <2>3 DEF Init, Backed
<1> QED BY <1>1, <1>2, <1>3, <1>4, <1>5 DEF IInv

\* The invariant is inductive.
LEMMA Inductive == IInv /\ [Next]_vars => IInv'
<1> SUFFICES ASSUME IInv, [Next]_vars PROVE IInv'
  OBVIOUS
<1>1. SharesTyped' /\ BalancesTyped' /\ PayoutsTyped'
  BY SharesStep, BalancesStep, PayoutsStep
<1>2. TemplatesTyped' /\ NodeTyped' /\ Backed'
  BY TemplatesStep, NodeStep, BackedStep
<1> QED BY <1>1, <1>2 DEF IInv

\* It implies the type invariant that the run checks.
LEMMA IInvTypes == IInv => TypeOK
<1> SUFFICES ASSUME IInv PROVE TypeOK
  OBVIOUS
<1>1. found \subseteq 1..jobs /\ mined \subseteq 1..jobs
  BY DEF IInv, Backed, NodeTyped
<1>2. (building \cup store \cup sent) \subseteq Template
  BY DEF IInv, TemplatesTyped, Built
<1>3. ASSUME NEW c \in Conn
      PROVE  conn[c].step \in {"idle", "closed", "sent", "ok", "stale", "credited", "paid"}
  BY DEF IInv, TemplatesTyped, Idle, Closed, Submitting, Paying
<1>4. paying.built \subseteq Payout /\ queue \subseteq Payout
  BY DEF IInv, PayoutsTyped, Funded
<1> QED BY <1>1, <1>2, <1>3, <1>4 DEF IInv, TypeOK, SharesTyped, BalancesTyped, NodeTyped

\* Tracker, queue, templates, connections and node have their types in every
\* state, for any number of miners, connections, jobs and faults.
THEOREM TypeCorrect == Spec => []TypeOK
BY InitIInv, Inductive, IInvTypes, PTL DEF Spec

\* A block that several connections submit, or that a restart has made the pool
\* forget, is never distributed twice, and no other block is: the miners have
\* never been credited more than the pool's blocks on the chain have earned.
THEOREM CreditsNeverExceedRewards == Spec => []CreditsBacked
<1>1. IInv => CreditsBacked
  <2> SUFFICES ASSUME IInv PROVE CreditsBacked
    OBVIOUS
  <2>1. PICK D \in SUBSET mined : Sum(credited) <= Cardinality(D) * (Reward - Fee)
    BY DEF IInv, Backed
  <2> DEFINE A == Reward - Fee
             k == Cardinality(D)
             n == Cardinality(mined)
  <2>2. mined \in SUBSET mined
    OBVIOUS
  <2>3. k \in Nat /\ n \in Nat /\ k <= n /\ A \in Nat /\ Sum(credited) \in Nat
    BY <2>2, BackedTyped
  <2>4. Sum(credited) <= k * A
    BY <2>1
  <2> HIDE DEF A, k, n
  <2>5. k * A <= n * A /\ k * A \in Int /\ n * A \in Int
    BY <2>3
  <2>6. Sum(credited) <= n * A
    BY <2>3, <2>4, <2>5
  <2> QED BY <2>6 DEF CreditsBacked, A, n
<1> QED BY <1>1, InitIInv, Inductive, PTL DEF Spec

\* Whatever the window holds and however its shares are spread over the miners,
\* a distribution gives out the reward less the fee, less dust.
THEOREM DistributionExact == Spec => OnlyDustKept
<1> DEFINE Given == Sum(credited') - Sum(credited)
           Exact == found' # found /\ found \subseteq found' =>
                      Given <= Reward - Fee /\ Given > Reward - Fee - Cardinality(Miner)
<1>1. IInv /\ [Next]_vars => Exact
  <2> SUFFICES ASSUME IInv, [Next]_vars, found' # found, found \subseteq found'
               PROVE  Given <= Reward - Fee /\ Given > Reward - Fee - Cardinality(Miner)
    OBVIOUS
  <2>1. PICK c \in Conn : CreditBlock(c)
    <3> HIDE DEF Given
    <3> QED
      BY DEF Next, vars, tracker, AcceptShare, FindBlock, NodeSubmit, LoseAnswer, DrainQueue,
             ZeroBalances, SubmitFailed, TemplateStatus, TemplateReady, JobReceived, PayoutStep,
             PayoutSnapshot, PayoutBuild, PayoutPublish, PayoutBuildFailed, BalanceSync,
             Restart, OtherBlock
  <2> DEFINE window == AddShare(MinerOf[c])
  <2>2. window \in Seq(Miner) /\ Len(window) # 0
    BY AddShareTyped, ConstantsTyped DEF IInv
  <2>3. credited' = [m \in Miner |-> credited[m] + Credit(window, m)]
    BY <2>1 DEF CreditBlock
  <2>4. credited \in [Miner -> Nat]
    BY DEF IInv, BalancesTyped
  <2> HIDE DEF window
  <2> QED BY <2>2, <2>3, <2>4, Distributed
<1>2. OnlyDustKept <=> [][Exact]_vars
  BY DEF OnlyDustKept
<1> HIDE DEF Exact
<1> QED BY <1>1, <1>2, InitIInv, Inductive, PTL DEF Spec
=============================================================================
