---------------------------- MODULE ExplorerProofs ----------------------------
(***************************************************************************)
(* The explorer's indexes and counters, for every set of chains that the   *)
(* node may adopt, any number of reorganizations, failed passes, restarts  *)
(* and requests, and for an index of any older version.                    *)
(***************************************************************************)
EXTENDS Explorer, SumLemmas, SequenceTheorems

-----------------------------------------------------------------------------
(* Blocks and chains *)

\* Transactions, outputs and blocks of the chains.
LEMMA Typed ==
  /\ \A c \in Chains : c \in Seq(Block) /\ Len(c) > 0 /\ DOMAIN c = 1..Len(c)
  /\ \A b \in Block : /\ BlockTxs[b] \in Seq(Tx) /\ Len(BlockTxs[b]) \in Nat \ {0}
                      /\ DOMAIN BlockTxs[b] = 1..Len(BlockTxs[b])
                      /\ TxsIn(b) \subseteq Tx
  /\ \A t \in Tx : Inputs[t] \subseteq Outpoint /\ Estimate[t] \in Nat
BY ConstantsTyped DEF TxsIn, Range

\* The height of a block is its place in the chains that hold it.
LEMMA HeightIs ==
  ASSUME NEW c \in Chains, NEW i \in DOMAIN c
  PROVE  HeightOf(c[i]) = i - 1
<1> DEFINE Places(d) == {j - 1 : j \in {k \in DOMAIN d : d[k] = c[i]}}
           H == UNION {Places(d) : d \in Chains}
<1>1. i - 1 \in H
  <2>1. i - 1 \in Places(c)
    OBVIOUS
  <2> HIDE DEF Places
  <2> QED BY <2>1
<1>2. \A x \in H : x = i - 1
  <2> SUFFICES ASSUME NEW d \in Chains, NEW x \in Places(d) PROVE x = i - 1
    OBVIOUS
  <2>1. PICK j \in DOMAIN d : d[j] = c[i] /\ x = j - 1
    OBVIOUS
  <2>2. i = j
    BY <2>1, ChainsValid
  <2> QED BY <2>1, <2>2
<1>3. HeightOf(c[i]) = Pick(H)
  BY DEF HeightOf
<1> HIDE DEF H
<1> QED BY <1>1, <1>2, <1>3 DEF Pick

\* Every block has a height.
LEMMA HeightNat ==
  ASSUME NEW b \in Block
  PROVE  HeightOf(b) \in Nat
<1>1. PICK c \in Chains : b \in Range(c)
  BY DEF Block
<1>2. PICK i \in DOMAIN c : c[i] = b
  BY <1>1 DEF Range
<1>3. HeightOf(b) = i - 1
  BY <1>2, HeightIs
<1>4. i \in Nat \ {0}
  BY <1>2, Typed
<1> QED BY <1>3, <1>4

-----------------------------------------------------------------------------
(* Amounts *)

\* What a function takes on a finite set is finite.
LEMMA FiniteRange ==
  ASSUME NEW f, IsFiniteSet(DOMAIN f), f = [x \in DOMAIN f |-> f[x]]
  PROVE  IsFiniteSet(Range(f))
<1>1. f \in Surjection(DOMAIN f, Range(f))
  BY DEF Surjection, Range
<1> QED BY <1>1, FS_Surjection

\* The transactions have finitely many outputs.
LEMMA FiniteOutpoints == IsFiniteSet(Outpoint)
<1> DEFINE Of(T) == {o \in Outpoint : o[1] \in T}
           G == {T \in SUBSET Tx : IsFiniteSet(Of(T))}
<1>1. {} \in G
  <2>1. Of({}) = {}
    OBVIOUS
  <2> HIDE DEF Of
  <2> QED BY <2>1, FS_EmptySet
<1>2. ASSUME NEW T \in SUBSET Tx, NEW x \in Tx \ T, T \in G PROVE T \cup {x} \in G
  <2> DEFINE f == [v \in DOMAIN Outputs[x] |-> <<x, v>>]
  <2>1. IsFiniteSet(DOMAIN f)
    <3>1. DOMAIN f = 1..Len(Outputs[x]) /\ Len(Outputs[x]) \in Nat
      BY ConstantsTyped
    <3> QED BY <3>1, FS_Interval
  <2>2. IsFiniteSet(Range(f))
    BY <2>1, FiniteRange
  <2>3. Of(T \cup {x}) \subseteq Of(T) \cup Range(f)
    BY DEF Outpoint, Range
  <2> HIDE DEF Of, f
  <2>4. IsFiniteSet(Of(T) \cup Range(f))
    BY <1>2, <2>2, FS_Union
  <2>5. IsFiniteSet(Of(T \cup {x}))
    BY <2>3, <2>4, FS_Subset
  <2> QED BY <2>5
<1>3. Tx \in G
  <2> HIDE DEF G
  <2> QED BY <1>1, <1>2, ConstantsTyped, SetInduction
<1>4. Outpoint = Of(Tx)
  BY DEF Outpoint
<1> QED BY <1>3, <1>4

\* The outputs of a transaction.
LEMMA OutputTyped ==
  ASSUME NEW t \in Tx, NEW v \in DOMAIN Outputs[t]
  PROVE  Outputs[t][v].amount \in Nat /\ Outputs[t][v].to \in Address
<1> DEFINE R == [to : Address, amount : Nat]
           s == Outputs[t]
<1>1. s \in Seq(R)
  BY ConstantsTyped
<1>2. v \in DOMAIN s
  OBVIOUS
<1> HIDE DEF R, s
<1>3. s[v] \in R
  BY <1>1, <1>2
<1> QED BY <1>3 DEF R, s

\* An output has an amount and an address.
LEMMA OutTyped ==
  ASSUME NEW o \in Outpoint
  PROVE  Out(o).amount \in Nat /\ Out(o).to \in Address
<1>1. PICK t \in Tx : \E v \in DOMAIN Outputs[t] : o = <<t, v>>
  BY DEF Outpoint
<1>2. PICK v \in DOMAIN Outputs[t] : o = <<t, v>>
  BY <1>1
<1>3. Outputs[t][v].amount \in Nat /\ Outputs[t][v].to \in Address
  BY OutputTyped
<1> QED BY <1>2, <1>3 DEF Out

\* Outputs together have an amount.
LEMMA ValueNat ==
  ASSUME NEW S \in SUBSET Outpoint
  PROVE  Value(S) \in Nat
<1> DEFINE amount == [o \in S |-> Out(o).amount]
<1>1. Value(S) = SumOf(amount, S)
  BY DEF Value, SumOf
<1>2. IsFiniteSet(S)
  BY FiniteOutpoints, FS_Subset
<1>3. \A o \in S : amount[o] \in Nat
  BY OutTyped
<1> HIDE DEF amount
<1> QED BY <1>1, <1>2, <1>3, SumNat

\* The amount, the recipient and the outputs of a transaction.
LEMMA MovedTyped ==
  ASSUME NEW t \in Tx
  PROVE  OutputSum(t) \in Nat /\ Amount(t) \in Nat /\ Recipient(t) \in Address
<1> DEFINE D == DOMAIN Outputs[t]
<1>1. \A V \in SUBSET D : {<<t, v>> : v \in V} \in SUBSET Outpoint
  BY DEF Outpoint
<1>2. Transfers(t) \in SUBSET D
  BY DEF Transfers
<1>3. OutputSum(t) \in Nat
  BY <1>1, ValueNat DEF OutputSum
<1>4. Value({<<t, v>> : v \in Transfers(t)}) \in Nat
  BY <1>1, <1>2, ValueNat
<1>5. Recipient(t) \in Address
  <2> DEFINE S == IF Transfers(t) = {} THEN D ELSE Transfers(t)
  <2>1. S \in SUBSET D
    BY <1>2
  <2>2. IsFiniteSet(S)
    <3>1. D = 1..Len(Outputs[t]) /\ Len(Outputs[t]) \in Nat
      BY ConstantsTyped
    <3>2. IsFiniteSet(D)
      BY <3>1, FS_Interval
    <3> QED BY <2>1, <3>2, FS_Subset
  <2>3. Recipient(t) = IF Cardinality(S) = 1 THEN Outputs[t][Pick(S)].to ELSE Several
    BY DEF Recipient
  <2> HIDE DEF S
  <2>4. CASE Cardinality(S) = 1
    <3>1. S # {}
      BY <2>2, <2>4, FS_EmptySet
    <3>2. Pick(S) \in D
      BY <2>1, <3>1 DEF Pick
    <3>3. Outputs[t][Pick(S)].to \in Address
      BY <3>2, OutputTyped
    <3> QED BY <2>3, <2>4, <3>3
  <2> QED BY <2>3, <2>4 DEF Address
<1> QED BY <1>3, <1>4, <1>5 DEF Amount

\* The sender of a transaction, as the extraction names it.
From(t) == IF Inputs[t] = {} THEN Reward ELSE Sender[t]

TxRecord ==
  [block : Block, from : Address, to : Address, amount : Nat, fee : Nat, total : Nat]

\* What is extracted from a transaction is the same in every pass, but for the fee.
LEMMA InfoTyped ==
  ASSUME NEW b \in Block, NEW t \in Tx, NEW T
  PROVE  LET info == TransactionInfo(b, t, T)
         IN  /\ info \in TxRecord
             /\ info.from = From(t) /\ info.to = Recipient(t) /\ info.amount = Amount(t)
             /\ Touches(info) = {From(t), Recipient(t)} /\ Touches(info) \subseteq Address
<1> DEFINE known == Inputs[t] \cap Created(T)
           fee == FeeOf(t, known)
<1>1. Value(known) \in Nat
  BY Typed, ValueNat
<1>2. OutputSum(t) \in Nat /\ Amount(t) \in Nat /\ Recipient(t) \in Address /\ Estimate[t] \in Nat
  BY MovedTyped, Typed
<1>3. fee \in Nat
  <2> HIDE DEF known
  <2> QED BY <1>1, <1>2 DEF FeeOf
<1>4. From(t) \in Address
  BY DEF From, Address
<1>5. TransactionInfo(b, t, T) =
        [block |-> b, from |-> From(t), to |-> Recipient(t), amount |-> Amount(t), fee |-> fee,
         total |-> IF Value(known) > 0 THEN Value(known) ELSE OutputSum(t) + fee]
  BY DEF TransactionInfo, From
<1> HIDE DEF known, fee
<1> QED BY <1>1, <1>2, <1>3, <1>4, <1>5 DEF TxRecord, Touches

-----------------------------------------------------------------------------
(* The invariant: types *)

ChainOK ==
  /\ chain \in Seq(Block) /\ Len(chain) > 0
  /\ \E d \in Chains : Len(chain) <= Len(d) /\ \A i \in 1..Len(chain) : chain[i] = d[i]

BlocksOK ==
  /\ blocks \in [DOMAIN blocks -> Block]
  /\ DOMAIN blocks \subseteq Nat /\ IsFiniteSet(DOMAIN blocks)
  /\ byHash \subseteq Block

\* Records of transactions, as any pass extracts them.
TxMap(f) ==
  /\ f \in [DOMAIN f -> TxRecord] /\ DOMAIN f \subseteq Tx
  /\ \A t \in DOMAIN f : /\ f[t].from = From(t) /\ f[t].to = Recipient(t)
                         /\ f[t].amount = Amount(t)

TxsOK == TxMap(txs) /\ listed \subseteq Block \X Tx

UtxoOK == eu \subseteq Outpoint /\ eur = eu

AddrOK ==
  /\ addr \in [DOMAIN addr -> AddressRecord]
  /\ DOMAIN addr \subseteq Address /\ IsFiniteSet(DOMAIN addr)

MetaOK ==
  /\ meta \in [blocks : Nat, last : Nat \cup {-1}, txs : Nat, volume : Nat, supply : Nat,
               addrs : Nat, synced : Nat, migrated : BOOLEAN]
  /\ meta.migrated

\* The stages of a pass and what each keeps.
BlockStage == [step : {"blocks", "utxo"}, from : Nat, got : Seq(Block), next : Nat]
TxStage ==
  [step : {"txs"}, from : Nat, got : Seq(Block), at : Nat \X Nat, touched : SUBSET Address]
AddrStage == [step : {"addrs"}, from : Nat, got : Seq(Block), touched : SUBSET Address]

PassOK ==
  \/ pass = Idle
  \/ pass \in BlockStage /\ pass.next \in 1..Len(pass.got)
  \/ /\ pass \in TxStage
     /\ pass.at[1] \in 1..Len(pass.got)
     /\ pass.at[2] \in 1..Len(BlockTxs[pass.got[pass.at[1]]])
  \/ pass \in AddrStage /\ Len(pass.got) > 0

Computed == [step : {"computed"}, address : Address, info : AddressRecord]
Counted ==
  [step : {"counted"}, address : Address, info : AddressRecord, new : BOOLEAN, count : Nat]

UpdOK == upd \in [{"sync", "http"} -> {Idle} \cup Computed \cup Counted]

RestOK ==
  /\ writer \in [DOMAIN addr -> {"old", "sync", "http"}]
  /\ lost \in Nat /\ reorgs \in Nat /\ faults \in Nat

TInv ==
  /\ ChainOK /\ BlocksOK /\ TxsOK /\ UtxoOK /\ AddrOK /\ MetaOK /\ PassOK /\ UpdOK /\ RestOK

\* It implies the types that the runs check.
LEMMA TypesFollow == TInv => TypeOK
<1> SUFFICES ASSUME TInv PROVE TypeOK
  OBVIOUS
<1>1. DOMAIN blocks \subseteq Nat /\ Range(blocks) \subseteq Block /\ byHash \subseteq Block
  BY DEF TInv, BlocksOK, Range
<1>2. DOMAIN addr \subseteq Address /\ Range(addr) \subseteq AddressRecord
  BY DEF TInv, AddrOK, Range
<1>3. /\ \A k \in {"blocks", "txs", "volume", "supply", "addrs", "synced"} : meta[k] \in Nat
      /\ meta.last \in Nat \cup {-1}
  BY DEF TInv, MetaOK
<1>4. \A p \in {"sync", "http"} : upd[p].step \in {"idle", "computed", "counted"}
  BY DEF TInv, UpdOK, Idle, Computed, Counted
<1>5. /\ DOMAIN txs \subseteq Tx /\ listed \subseteq Block \X Tx
      /\ eu \subseteq Outpoint /\ eur \subseteq Outpoint
      /\ writer \in [DOMAIN addr -> {"old", "sync", "http"}]
      /\ {lost, reorgs, faults} \subseteq Nat
  BY DEF TInv, TxsOK, TxMap, UtxoOK, RestOK
<1> QED BY <1>1, <1>2, <1>3, <1>4, <1>5 DEF TypeOK

-----------------------------------------------------------------------------
(* What is computed from the records *)

\* Sums over records of transactions.
LEMMA SumsTyped ==
  ASSUME NEW f, TxMap(f)
  PROVE  /\ IsFiniteSet(DOMAIN f)
         /\ \A T \in SUBSET (DOMAIN f) : SumAmounts(f, T) \in Nat
         /\ \A a : SentBy(f, a) \in Nat /\ ReceivedBy(f, a) \in Nat
         /\ \A a : Cardinality(TxsOfAddress(f, a)) \in Nat
<1>1. IsFiniteSet(DOMAIN f)
  BY ConstantsTyped, FS_Subset DEF TxMap
<1>2. \A t \in DOMAIN f : f[t].amount \in Nat /\ f[t].fee \in Nat
  BY DEF TxMap, TxRecord
<1>3. ASSUME NEW T \in SUBSET (DOMAIN f) PROVE SumAmounts(f, T) \in Nat
  <2> DEFINE amount == [t \in T |-> f[t].amount]
  <2>1. SumAmounts(f, T) = SumOf(amount, T)
    BY DEF SumAmounts, SumOf
  <2>2. IsFiniteSet(T) /\ \A t \in T : amount[t] \in Nat
    BY <1>1, <1>2, FS_Subset
  <2> HIDE DEF amount
  <2> QED BY <2>1, <2>2, SumNat
<1>4. ASSUME NEW a PROVE SentBy(f, a) \in Nat
  <2> DEFINE T == {t \in DOMAIN f : f[t].from = a}
             paid == [t \in T |-> f[t].amount + f[t].fee]
  <2>1. SentBy(f, a) = SumOf(paid, T)
    BY DEF SentBy, SumOf
  <2>2. T \in SUBSET (DOMAIN f)
    OBVIOUS
  <2> HIDE DEF T
  <2>3. IsFiniteSet(T) /\ \A t \in T : paid[t] \in Nat
    BY <1>1, <1>2, <2>2, FS_Subset
  <2> HIDE DEF paid
  <2> QED BY <2>1, <2>3, SumNat
<1>5. ASSUME NEW a PROVE ReceivedBy(f, a) \in Nat
  <2>1. {t \in DOMAIN f : f[t].to = a} \in SUBSET (DOMAIN f)
    OBVIOUS
  <2> QED BY <1>3, <2>1 DEF ReceivedBy
<1>6. ASSUME NEW a PROVE Cardinality(TxsOfAddress(f, a)) \in Nat
  <2>1. TxsOfAddress(f, a) \in SUBSET (DOMAIN f)
    BY DEF TxsOfAddress
  <2> QED BY <1>1, <2>1, FS_Subset, FS_CardinalityType
<1> QED BY <1>1, <1>3, <1>4, <1>5, <1>6

\* The record of an address.
LEMMA AddressInfoTyped ==
  ASSUME TInv, NEW a
  PROVE  AddressInfo(a) \in AddressRecord
<1>1. SentBy(txs, a) \in Nat /\ ReceivedBy(txs, a) \in Nat /\ Cardinality(TxsOfAddress(txs, a)) \in Nat
  BY SumsTyped DEF TInv, TxsOK
<1>2. BalanceOf(a) \in Nat
  <2>1. {o \in eu : Out(o).to = a} \in SUBSET Outpoint
    BY DEF TInv, UtxoOK
  <2> QED BY <2>1, ValueNat DEF BalanceOf
<1> QED BY <1>1, <1>2 DEF AddressInfo, AddressRecord

\* A finite, nonempty set of numbers has a greatest one.
LEMMA MaxExists ==
  ASSUME NEW S \in SUBSET Int, IsFiniteSet(S), S # {}
  PROVE  Max(S) \in S /\ \A x \in S : x <= Max(S)
<1> DEFINE Top(m, T) == \A i \in T : m >= i
           G == {T \in SUBSET S : T # {} => \E m \in T : Top(m, T)}
<1>1. {} \in G
  OBVIOUS
<1>2. ASSUME NEW T \in SUBSET S, NEW x \in S \ T, T \in G PROVE T \cup {x} \in G
  <2>1. CASE T = {}
    <3>1. Top(x, T \cup {x})
      BY <2>1
    <3> QED BY <3>1
  <2>2. CASE T # {}
    <3>1. PICK m \in T : Top(m, T)
      BY <1>2, <2>2
    <3>2. CASE x >= m
      <4>1. Top(x, T \cup {x})
        BY <3>1, <3>2
      <4> HIDE DEF Top
      <4> QED BY <4>1
    <3>3. CASE m >= x
      <4>1. Top(m, T \cup {x})
        BY <3>1, <3>3
      <4> HIDE DEF Top
      <4> QED BY <4>1
    <3> QED BY <3>2, <3>3
  <2> QED BY <2>1, <2>2
<1>3. SUBSET S \subseteq G
  <2> HIDE DEF G
  <2> QED BY <1>1, <1>2, SetInduction
<1>4. \E m \in S : Top(m, S)
  BY <1>3
<1>5. Max(S) \in S /\ Top(Max(S), S)
  BY <1>4 DEF Max
<1> QED BY <1>5

\* The greatest number of a set is the one that is not below any other.
LEMMA MaxIs ==
  ASSUME NEW S \in SUBSET Int, NEW m \in S, \A x \in S : x <= m
  PROVE  Max(S) = m
<1>1. Max(S) \in S /\ \A x \in S : Max(S) >= x
  BY DEF Max
<1>2. Max(S) \in Int /\ m \in Int /\ Max(S) >= m /\ Max(S) <= m
  BY <1>1
<1> QED BY <1>2

-----------------------------------------------------------------------------
(* The invariant: counters *)

CountOK ==
  /\ meta.blocks = Cardinality(DOMAIN blocks)
  /\ meta.txs = Cardinality(DOMAIN txs)
  /\ meta.volume = SumAmounts(txs, DOMAIN txs)
  /\ meta.supply = SumAmounts(txs, Rewards(txs))

\* A counter that a task has read and will write one higher stays behind the number
\* of records, because the record it counts is one more.
AddrsOK ==
  /\ meta.addrs <= Cardinality(DOMAIN addr)
  /\ \A p \in {"sync", "http"} :
       upd[p] \in Counted /\ upd[p].new =>
         upd[p].count + 1 <= Cardinality(DOMAIN addr \cup {upd[p].address})

\* last_block_height is the greatest height stored.
LastOK ==
  IF DOMAIN blocks = {} THEN meta.last = -1
  ELSE meta.last \in DOMAIN blocks /\ \A h \in DOMAIN blocks : h <= meta.last

\* A pass without a reorganization works on a section of the node's chain that starts
\* where the pass before it ended.
Lo(from) == IF from = 0 THEN 0 ELSE from + 1
SectionOK ==
  reorgs = 0 /\ pass # Idle =>
    /\ Lo(pass.from) + Len(pass.got) <= Len(chain)
    /\ \A i \in 1..Len(pass.got) : pass.got[i] = chain[Lo(pass.from) + i]

\* The list of transactions has those that are stored, and without a reorganization
\* each under the block of the chain that has it.
ListOK ==
  /\ \A t \in Tx : t \in DOMAIN txs <=> \E b \in Block : <<b, t>> \in listed
  /\ reorgs = 0 =>
       \A b \in Block, t \in Tx :
         <<b, t>> \in listed => t \in TxsIn(b) /\ \E i \in 1..Len(chain) : chain[i] = b

CInv == TInv /\ CountOK /\ AddrsOK /\ LastOK /\ SectionOK /\ ListOK

\* The fields of the metadata.
LEMMA MetaFields ==
  ASSUME TInv
  PROVE  /\ meta.blocks \in Nat /\ meta.last \in Int /\ meta.last >= -1 /\ meta.txs \in Nat
         /\ meta.volume \in Nat /\ meta.supply \in Nat /\ meta.addrs \in Nat
         /\ meta.synced \in Nat /\ meta.migrated
BY DEF TInv, MetaOK

\* The blocks of a pass that has begun.
LEMMA PassGot ==
  ASSUME TInv, pass # Idle
  PROVE  /\ pass.got \in Seq(Block) /\ pass.from \in Nat /\ Len(pass.got) \in Nat \ {0}
         /\ DOMAIN pass.got = 1..Len(pass.got)
         /\ TxsOf(pass.got) \subseteq Tx
<1>1. pass.got \in Seq(Block) /\ pass.from \in Nat
  BY DEF TInv, PassOK, BlockStage, TxStage, AddrStage
<1>2. Len(pass.got) \in Nat /\ Len(pass.got) # 0
  BY <1>1 DEF TInv, PassOK, BlockStage, TxStage, AddrStage
<1>3. DOMAIN pass.got = 1..Len(pass.got) /\ \A i \in DOMAIN pass.got : pass.got[i] \in Block
  BY <1>1
<1>4. TxsOf(pass.got) \subseteq Tx
  BY <1>3, Typed DEF TxsOf
<1> QED BY <1>1, <1>2, <1>3, <1>4

\* The amounts of the records are those of the transactions.
Amounts == [t \in Tx |-> Amount(t)]

\* A sum over records depends only on the transactions they are for.
LEMMA SumIs ==
  ASSUME NEW f, TxMap(f), NEW T \in SUBSET (DOMAIN f)
  PROVE  SumAmounts(f, T) = SumOf(Amounts, T)
<1> DEFINE amount == [t \in T |-> f[t].amount]
<1>1. SumAmounts(f, T) = SumOf(amount, T)
  BY DEF SumAmounts, SumOf
<1>2. IsFiniteSet(T)
  BY SumsTyped, FS_Subset
<1>3. \A t \in T : amount[t] \in Int /\ amount[t] = Amounts[t]
  <2> TAKE t \in T
  <2>1. t \in Tx /\ f[t].amount = Amount(t)
    BY DEF TxMap
  <2>2. Amount(t) \in Nat
    BY <2>1, MovedTyped
  <2> QED BY <2>1, <2>2 DEF Amounts
<1> HIDE DEF amount
<1> QED BY <1>1, <1>2, <1>3, SumSame

\* The rewards among the records.
LEMMA RewardsIs ==
  ASSUME NEW f, TxMap(f)
  PROVE  Rewards(f) = {t \in DOMAIN f : From(t) = Reward} /\ Rewards(f) \in SUBSET (DOMAIN f)
BY DEF Rewards, TxMap

\* One record more.
LEMMA PutRecord ==
  ASSUME NEW f, TxMap(f), NEW t \in Tx, NEW info \in TxRecord,
         info.from = From(t), info.to = Recipient(t), info.amount = Amount(t)
  PROVE  LET g == Put(f, t, info)
         IN  /\ TxMap(g) /\ DOMAIN g = DOMAIN f \cup {t}
             /\ t \in DOMAIN f =>
                  /\ SumAmounts(g, DOMAIN g) = SumAmounts(f, DOMAIN f)
                  /\ SumAmounts(g, Rewards(g)) = SumAmounts(f, Rewards(f))
             /\ t \notin DOMAIN f =>
                  /\ Cardinality(DOMAIN g) = Cardinality(DOMAIN f) + 1
                  /\ SumAmounts(g, DOMAIN g) = SumAmounts(f, DOMAIN f) + Amount(t)
                  /\ SumAmounts(g, Rewards(g)) =
                       IF From(t) = Reward THEN SumAmounts(f, Rewards(f)) + Amount(t)
                       ELSE SumAmounts(f, Rewards(f))
<1> DEFINE g == Put(f, t, info)
<1>1. DOMAIN g = DOMAIN f \cup {t} /\ \A x \in DOMAIN g : g[x] = IF x = t THEN info ELSE f[x]
  BY DEF Put
<1>2. TxMap(g)
  BY <1>1 DEF TxMap, Put
<1> HIDE DEF g
<1>3. /\ SumAmounts(f, DOMAIN f) = SumOf(Amounts, DOMAIN f)
      /\ SumAmounts(f, Rewards(f)) = SumOf(Amounts, Rewards(f))
      /\ SumAmounts(g, DOMAIN g) = SumOf(Amounts, DOMAIN g)
      /\ SumAmounts(g, Rewards(g)) = SumOf(Amounts, Rewards(g))
  BY <1>2, SumIs, RewardsIs
<1>4. /\ Rewards(f) = {x \in DOMAIN f : From(x) = Reward}
      /\ Rewards(g) = {x \in DOMAIN g : From(x) = Reward}
  BY <1>2, RewardsIs
<1>5. /\ IsFiniteSet(DOMAIN f) /\ IsFiniteSet(Rewards(f))
      /\ \A x \in DOMAIN f \cup {t} : Amounts[x] \in Int
      /\ Amounts[t] = Amount(t)
      /\ SumOf(Amounts, DOMAIN f) \in Int /\ SumOf(Amounts, Rewards(f)) \in Int
  <2>1. IsFiniteSet(DOMAIN f) /\ IsFiniteSet(Rewards(f))
    BY SumsTyped, RewardsIs, FS_Subset
  <2>2. \A x \in DOMAIN f \cup {t} : Amounts[x] \in Int
    BY MovedTyped DEF Amounts, TxMap
  <2>3. SumOf(Amounts, DOMAIN f) \in Int
    BY <2>1, <2>2, SumInt
  <2>4. SumOf(Amounts, Rewards(f)) \in Int
    BY <1>4, <2>1, <2>2, SumInt
  <2> QED BY <2>1, <2>2, <2>3, <2>4 DEF Amounts
<1>6. CASE t \in DOMAIN f
  <2>1. DOMAIN g = DOMAIN f
    BY <1>1, <1>6
  <2>2. Rewards(g) = Rewards(f)
    BY <1>4, <2>1
  <2> QED BY <1>1, <1>2, <1>3, <1>6, <2>1, <2>2 DEF g
<1>7. CASE t \notin DOMAIN f
  <2>1. Cardinality(DOMAIN g) = Cardinality(DOMAIN f) + 1
    BY <1>1, <1>5, <1>7, FS_AddElement
  <2>2. SumOf(Amounts, DOMAIN f \cup {t}) = Amounts[t] + SumOf(Amounts, DOMAIN f)
    BY <1>5, <1>7, SumAdd
  <2>3. SumAmounts(g, DOMAIN g) = SumAmounts(f, DOMAIN f) + Amount(t)
    <3>1. Amount(t) \in Int
      BY MovedTyped
    <3> QED BY <1>1, <1>3, <1>5, <2>2, <3>1
  <2>4. CASE From(t) = Reward
    <3>1. Rewards(g) = Rewards(f) \cup {t} /\ t \notin Rewards(f)
      BY <1>1, <1>4, <1>7, <2>4
    <3>2. \A x \in Rewards(f) \cup {t} : Amounts[x] \in Int
      BY <1>4, <1>5
    <3>3. SumOf(Amounts, Rewards(f) \cup {t}) = Amounts[t] + SumOf(Amounts, Rewards(f))
      BY <1>5, <3>1, <3>2, SumAdd
    <3>4. SumAmounts(g, Rewards(g)) = SumAmounts(f, Rewards(f)) + Amount(t)
      <4>1. Amount(t) \in Int
        BY MovedTyped
      <4> QED BY <1>3, <1>5, <3>1, <3>3, <4>1
    <3> QED BY <1>1, <1>2, <1>7, <2>1, <2>3, <2>4, <3>4 DEF g
  <2>5. CASE From(t) # Reward
    <3>1. Rewards(g) = Rewards(f)
      BY <1>1, <1>4, <2>5
    <3> QED BY <1>1, <1>2, <1>3, <1>7, <2>1, <2>3, <2>5, <3>1 DEF g
  <2> QED BY <2>4, <2>5
<1> QED BY <1>6, <1>7

\* With exact counters there is nothing for initialize_metadata to compute.
LEMMA NothingMissing ==
  ASSUME CInv
  PROVE  InitializeMetadata(meta, blocks, txs, addr) = meta
<1> DEFINE last == IF DOMAIN blocks = {} THEN 0 ELSE Max(DOMAIN blocks)
           scan == last > 0 /\ (meta.blocks = 0 \/ meta.last = -1)
<1>1. scan => meta.last = last
  <2>1. DOMAIN blocks # {} => Max(DOMAIN blocks) = meta.last
    BY MaxIs DEF CInv, TInv, BlocksOK, LastOK
  <2>2. CASE DOMAIN blocks = {}
    <3>1. last = 0
      BY <2>2
    <3> HIDE DEF last
    <3> QED BY <3>1
  <2>3. CASE DOMAIN blocks # {}
    <3>1. last = meta.last
      BY <2>1, <2>3
    <3> QED BY <3>1
  <2> QED BY <2>2, <2>3
<1>2. InitializeMetadata(meta, blocks, txs, addr) =
        [meta EXCEPT !.blocks = IF scan THEN Cardinality(DOMAIN blocks) ELSE meta.blocks,
                     !.last = IF scan THEN last ELSE meta.last,
                     !.txs = IF meta.txs = 0 THEN Cardinality(DOMAIN txs) ELSE meta.txs,
                     !.supply = meta.supply, !.addrs = meta.addrs, !.volume = meta.volume,
                     !.migrated = TRUE]
  BY MetaFields DEF InitializeMetadata, CInv
<1>3. /\ (IF scan THEN Cardinality(DOMAIN blocks) ELSE meta.blocks) = meta.blocks
      /\ (IF meta.txs = 0 THEN Cardinality(DOMAIN txs) ELSE meta.txs) = meta.txs
      /\ (IF scan THEN last ELSE meta.last) = meta.last
  BY <1>1 DEF CInv, CountOK
<1> HIDE DEF scan, last
<1>4. [meta EXCEPT !.blocks = meta.blocks, !.last = meta.last, !.txs = meta.txs,
                   !.supply = meta.supply, !.addrs = meta.addrs, !.volume = meta.volume,
                   !.migrated = TRUE] = meta
  BY DEF CInv, TInv, MetaOK
<1> QED BY <1>2, <1>3, <1>4

-----------------------------------------------------------------------------
(* Every step keeps types and counters *)

\* The node's chain grows, along the same chain or along another one.
LEMMA GrownChain ==
  ASSUME ChainOK, NEW d \in Chains, Len(d) > Len(chain), chain' = SubSeq(d, 1, Len(chain) + 1)
  PROVE  /\ ChainOK' /\ Len(chain') = Len(chain) + 1
         /\ IsPrefix(chain, d) => \A i \in 1..Len(chain) : chain'[i] = chain[i]
<1>1. Len(chain) \in Nat /\ d \in Seq(Block) /\ Len(d) \in Nat
  BY Typed DEF ChainOK
<1>2. /\ chain' \in Seq(Block) /\ Len(chain') = Len(chain) + 1
      /\ \A i \in 1..Len(chain') : chain'[i] = d[i]
  BY <1>1
<1>3. ChainOK'
  BY <1>1, <1>2 DEF ChainOK
<1>4. ASSUME IsPrefix(chain, d), NEW i \in 1..Len(chain) PROVE chain'[i] = chain[i]
  <2>1. SubSeq(chain, 1, Len(chain))[i] = SubSeq(d, 1, Len(chain))[i]
    BY <1>4 DEF IsPrefix
  <2>2. SubSeq(chain, 1, Len(chain))[i] = chain[i] /\ SubSeq(d, 1, Len(chain))[i] = d[i]
    BY <1>1 DEF ChainOK
  <2> QED BY <1>1, <1>2, <2>1, <2>2
<1> QED BY <1>2, <1>3, <1>4

\* The node extends its chain or goes over to another one.
LEMMA NodeStep ==
  ASSUME CInv, NodeExtends \/ NodeReorganizes
  PROVE  CInv'
<1>1. PICK d \in Chains : Len(d) > Len(chain) /\ chain' = SubSeq(d, 1, Len(chain) + 1)
                          /\ (NodeExtends => IsPrefix(chain, d))
  BY DEF NodeExtends, NodeReorganizes
<1>2. /\ UNCHANGED <<tables, pass, upd, writer, lost, faults>>
      /\ reorgs' \in Nat /\ (reorgs' = 0 => NodeExtends /\ reorgs = 0)
  BY DEF NodeExtends, NodeReorganizes, counts, CInv, TInv, RestOK
<1>3. /\ ChainOK' /\ Len(chain') = Len(chain) + 1 /\ Len(chain) \in Nat
      /\ IsPrefix(chain, d) => \A i \in 1..Len(chain) : chain'[i] = chain[i]
  BY <1>1, GrownChain DEF CInv, TInv, ChainOK
<1>4. TInv'
  BY <1>2, <1>3 DEF tables, CInv, TInv, BlocksOK, TxsOK, TxMap, UtxoOK, AddrOK, MetaOK, PassOK,
                    UpdOK, RestOK
<1>5. (CountOK /\ AddrsOK /\ LastOK)'
  BY <1>2 DEF tables, CInv, CountOK, AddrsOK, LastOK
<1>6. SectionOK'
  <2> SUFFICES ASSUME reorgs' = 0, pass' # Idle
               PROVE  /\ Lo(pass.from) + Len(pass.got) <= Len(chain')
                      /\ \A i \in 1..Len(pass.got) : pass.got[i] = chain'[Lo(pass.from) + i]
    BY <1>2 DEF SectionOK
  <2>1. pass # Idle /\ reorgs = 0 /\ \A i \in 1..Len(chain) : chain'[i] = chain[i]
    BY <1>1, <1>2, <1>3
  <2>2. /\ Lo(pass.from) + Len(pass.got) <= Len(chain)
        /\ \A i \in 1..Len(pass.got) : pass.got[i] = chain[Lo(pass.from) + i]
    BY <2>1 DEF CInv, SectionOK
  <2>3. Lo(pass.from) \in Nat /\ Len(pass.got) \in Nat
    BY <2>1, PassGot DEF CInv, Lo
  <2> DEFINE lo == Lo(pass.from)
             n == Len(pass.got)
  <2> HIDE DEF lo, n
  <2>4. ASSUME NEW i \in 1..n PROVE chain[lo + i] = chain'[lo + i]
    <3>1. lo + i \in 1..Len(chain)
      BY <1>3, <2>2, <2>3 DEF lo, n
    <3> QED BY <2>1, <3>1
  <2>5. lo + n <= Len(chain')
    BY <1>3, <2>2, <2>3 DEF lo, n
  <2> QED BY <2>2, <2>4, <2>5 DEF lo, n
<1>7. ListOK'
  <2>1. UNCHANGED <<txs, listed>>
    BY <1>2 DEF tables
  <2>2. ASSUME reorgs' = 0, NEW b \in Block, NEW t \in Tx, <<b, t>> \in listed
        PROVE  t \in TxsIn(b) /\ \E i \in 1..Len(chain') : chain'[i] = b
    <3>1. reorgs = 0 /\ \A i \in 1..Len(chain) : chain'[i] = chain[i]
      BY <1>1, <1>2, <1>3, <2>2
    <3>2. t \in TxsIn(b)
      BY <2>2, <3>1 DEF CInv, ListOK
    <3>3. PICK i \in 1..Len(chain) : chain[i] = b
      BY <2>2, <3>1 DEF CInv, ListOK
    <3>4. i \in 1..Len(chain')
      BY <1>3
    <3> QED BY <3>1, <3>2, <3>3, <3>4
  <2> QED BY <2>1, <2>2 DEF CInv, ListOK
<1> QED BY <1>4, <1>5, <1>6, <1>7 DEF CInv

\* A pass begins, or its request fails.
LEMMA FetchStep ==
  ASSUME CInv, Fetch \/ FetchFails
  PROVE  CInv'
<1>1. UNCHANGED <<chain, blocks, byHash, txs, listed, eu, eur, addr, upd, writer, lost, reorgs>>
      /\ meta' = [meta EXCEPT !.synced = SyncedHeight]
  BY DEF Fetch, FetchFails, counts
<1>2. SyncedHeight \in Nat
  BY MetaFields DEF SyncedHeight, CInv
<1>3. MetaOK' /\ meta'.blocks = meta.blocks /\ meta'.last = meta.last /\ meta'.txs = meta.txs
      /\ meta'.volume = meta.volume /\ meta'.supply = meta.supply /\ meta'.addrs = meta.addrs
  BY <1>1, <1>2 DEF CInv, TInv, MetaOK
<1>4. RestOK'
  <2>1. faults' \in Nat
    BY DEF Fetch, FetchFails, Fault, counts, CInv, TInv, RestOK
  <2> QED BY <1>1, <2>1 DEF CInv, TInv, RestOK
<1>5. (ChainOK /\ BlocksOK /\ TxsOK /\ UtxoOK /\ AddrOK /\ UpdOK)'
  BY <1>1 DEF CInv, TInv, ChainOK, BlocksOK, TxsOK, TxMap, UtxoOK, AddrOK, UpdOK
<1>6. (CountOK /\ AddrsOK /\ LastOK /\ ListOK)'
  BY <1>1, <1>3 DEF CInv, CountOK, AddrsOK, LastOK, ListOK
<1>7. CASE pass' = Idle
  BY <1>1, <1>3, <1>4, <1>5, <1>6, <1>7 DEF CInv, TInv, PassOK, SectionOK
<1>8. CASE /\ Fetched # << >>
           /\ pass' = [step |-> "blocks", from |-> SyncedHeight, got |-> Fetched, next |-> 1]
  <2> DEFINE h == SyncedHeight
             n == Len(chain)
  <2>0. chain \in Seq(Block) /\ n \in Nat
    BY DEF CInv, TInv, ChainOK
  <2>1. /\ Fetched \in Seq(Block)
        /\ Lo(h) + Len(Fetched) <= n
        /\ \A i \in 1..Len(Fetched) : Fetched[i] = chain[Lo(h) + i]
    <3>1. CASE h = 0
      BY <2>0, <3>1 DEF Fetched, Lo
    <3>2. CASE h # 0
      <4>1. Fetched = SubSeq(chain, h + 2, n) /\ Lo(h) = h + 1
        BY <1>2, <3>2 DEF Fetched, BlocksFrom, Lo
      <4> HIDE DEF h
      <4>2. Fetched \in Seq(Block)
        BY <1>2, <2>0, <4>1 DEF h
      <4>3. CASE h + 2 <= n
        BY <1>2, <2>0, <4>1, <4>3 DEF h
      <4>4. CASE h + 2 > n
        <5>1. Fetched = << >>
          BY <1>2, <2>0, <4>1, <4>4 DEF h
        <5> QED BY <1>8, <5>1
      <4> QED BY <1>2, <2>0, <4>2, <4>3, <4>4 DEF h
    <3> QED BY <3>1, <3>2
  <2>2. Len(Fetched) \in Nat \ {0}
    BY <1>8, <2>1
  <2>3. PassOK'
    <3>1. pass' \in BlockStage
      BY <1>2, <1>8, <2>1 DEF BlockStage
    <3>2. pass'.next = 1 /\ pass'.got = Fetched
      BY <1>8
    <3> QED BY <2>2, <3>1, <3>2 DEF PassOK
  <2>4. SectionOK'
    <3>1. pass'.from = h /\ pass'.got = Fetched
      BY <1>8
    <3> QED BY <1>1, <2>1, <3>1 DEF SectionOK
  <2> QED BY <1>3, <1>4, <1>5, <1>6, <2>3, <2>4 DEF CInv, TInv
<1> QED BY <1>7, <1>8 DEF Fetch, FetchFails

\* save_block.
LEMMA BlockStep ==
  ASSUME CInv, SaveBlock
  PROVE  CInv'
<1> DEFINE b == pass.got[pass.next]
           h == HeightOf(b)
<1>1. /\ pass.step = "blocks"
      /\ blocks' = Put(blocks, h, b) /\ byHash' = byHash \cup {b}
      /\ meta' = [meta EXCEPT !.blocks = IF IsNewBlock(b) THEN @ + 1 ELSE @,
                              !.last = IF h >= @ THEN h ELSE @]
      /\ pass' = IF pass.next < Len(pass.got) THEN [pass EXCEPT !.next = @ + 1]
                 ELSE [pass EXCEPT !.step = "utxo"]
      /\ UNCHANGED <<chain, txs, listed, eu, eur, addr, upd, writer, lost, reorgs, faults>>
  BY DEF SaveBlock, counts
<1>2. /\ pass \in BlockStage /\ pass.next \in 1..Len(pass.got) /\ pass # Idle
  BY <1>1 DEF CInv, TInv, PassOK, TxStage, AddrStage, Idle
<1>3. b \in Block
  BY <1>2, PassGot DEF CInv
<1>4. h \in Nat
  BY <1>3, HeightNat
<1> HIDE DEF b, h
<1>5. /\ DOMAIN blocks' = DOMAIN blocks \cup {h} /\ IsFiniteSet(DOMAIN blocks)
      /\ IsFiniteSet(DOMAIN blocks')
      /\ Cardinality(DOMAIN blocks') = IF h \in DOMAIN blocks THEN Cardinality(DOMAIN blocks)
                                       ELSE Cardinality(DOMAIN blocks) + 1
  <2>1. DOMAIN blocks' = DOMAIN blocks \cup {h} /\ IsFiniteSet(DOMAIN blocks)
    BY <1>1 DEF Put, CInv, TInv, BlocksOK
  <2> QED BY <2>1, FS_AddElement
<1>6. BlocksOK'
  <2>1. blocks' \in [DOMAIN blocks' -> Block]
    BY <1>1, <1>3, <1>5 DEF Put, CInv, TInv, BlocksOK
  <2> QED BY <1>1, <1>3, <1>4, <1>5, <2>1 DEF CInv, TInv, BlocksOK
<1>7. /\ meta'.blocks = IF h \notin DOMAIN blocks THEN meta.blocks + 1 ELSE meta.blocks
      /\ meta'.last = IF h >= meta.last THEN h ELSE meta.last
      /\ meta'.txs = meta.txs /\ meta'.volume = meta.volume /\ meta'.supply = meta.supply
      /\ meta'.addrs = meta.addrs /\ meta'.synced = meta.synced
  BY <1>1 DEF IsNewBlock, h, CInv, TInv, MetaOK
<1>8. MetaOK'
  <2>1. meta.blocks \in Nat /\ meta.last \in Nat \cup {-1}
    BY DEF CInv, TInv, MetaOK
  <2>2. (IF IsNewBlock(b) THEN meta.blocks + 1 ELSE meta.blocks) \in Nat
        /\ (IF h >= meta.last THEN h ELSE meta.last) \in Nat \cup {-1}
    BY <1>4, <2>1
  <2> QED BY <1>1, <2>2 DEF CInv, TInv, MetaOK
<1>9. PassOK' /\ pass' # Idle /\ pass'.from = pass.from /\ pass'.got = pass.got
  <2>1. CASE pass.next < Len(pass.got)
    <3>1. pass' = [pass EXCEPT !.next = @ + 1]
      BY <1>1, <2>1
    <3>2. pass' \in BlockStage /\ pass'.next = pass.next + 1 /\ pass'.got = pass.got
          /\ pass'.from = pass.from
      BY <1>2, <3>1 DEF BlockStage
    <3>3. pass'.next \in 1..Len(pass'.got)
      BY <1>2, <2>1, <3>2 DEF BlockStage
    <3> QED BY <3>2, <3>3 DEF PassOK, Idle, BlockStage
  <2>2. CASE ~ (pass.next < Len(pass.got))
    <3>1. pass' = [pass EXCEPT !.step = "utxo"]
      BY <1>1, <2>2
    <3>2. pass' \in BlockStage /\ pass'.next = pass.next /\ pass'.got = pass.got
          /\ pass'.from = pass.from
      BY <1>2, <3>1 DEF BlockStage
    <3> QED BY <1>2, <3>2 DEF PassOK, Idle, BlockStage
  <2> QED BY <2>1, <2>2
<1>10. TInv'
  BY <1>1, <1>6, <1>8, <1>9 DEF CInv, TInv, ChainOK, TxsOK, TxMap, UtxoOK, AddrOK, UpdOK, RestOK
<1>11. CountOK'
  BY <1>1, <1>5, <1>7 DEF CInv, CountOK
<1>12. AddrsOK' /\ ListOK'
  BY <1>1, <1>7 DEF CInv, AddrsOK, ListOK
<1>13. LastOK'
  <2>1. CASE DOMAIN blocks = {}
    <3>1. meta.last = -1 /\ DOMAIN blocks' = {h}
      BY <1>5, <2>1 DEF CInv, LastOK
    <3>2. meta'.last = h
      BY <1>4, <1>7, <3>1
    <3> QED BY <1>4, <3>1, <3>2 DEF LastOK
  <2>2. CASE DOMAIN blocks # {}
    <3>1. meta.last \in DOMAIN blocks /\ \A x \in DOMAIN blocks : x <= meta.last /\ x \in Nat
      BY <2>2 DEF CInv, LastOK, TInv, BlocksOK
    <3> DEFINE D == DOMAIN blocks
               D1 == DOMAIN blocks'
               l == meta.last
               l1 == meta'.last
    <3>2. D1 = D \cup {h} /\ l1 = IF h >= l THEN h ELSE l
      BY <1>5, <1>7
    <3>3. l \in D /\ \A x \in D : x <= l /\ x \in Nat
      BY <3>1
    <3> HIDE DEF D, D1, l, l1
    <3>4. l1 \in D1 /\ \A x \in D1 : x <= l1
      BY <1>4, <3>2, <3>3
    <3> QED BY <3>4 DEF LastOK, D1, l1
  <2> QED BY <2>1, <2>2
<1>14. SectionOK'
  BY <1>1, <1>2, <1>9 DEF CInv, SectionOK
<1> QED BY <1>10, <1>11, <1>12, <1>13, <1>14 DEF CInv

\* apply_utxo_changes, and its error.
LEMMA UtxoStep ==
  ASSUME CInv, ApplyUtxoChanges \/ UtxoChangesLost
  PROVE  CInv'
<1>1. /\ pass.step = "utxo" /\ ToTransactions
      /\ UNCHANGED <<chain, blocks, byHash, txs, listed, addr, meta, upd, writer, reorgs>>
  BY DEF ApplyUtxoChanges, UtxoChangesLost, tables, counts
<1>2. pass # Idle /\ pass.next \in 1..Len(pass.got)
  BY <1>1 DEF CInv, TInv, PassOK, TxStage, AddrStage, Idle
<1>3. /\ pass.got \in Seq(Block) /\ pass.from \in Nat /\ Len(pass.got) \in Nat \ {0}
      /\ TxsOf(pass.got) \subseteq Tx
  BY <1>2, PassGot DEF CInv
<1>4. pass' = [step |-> "txs", from |-> pass.from, got |-> pass.got, at |-> <<1, 1>>, touched |-> {}]
  BY <1>1 DEF ToTransactions
<1>5. PassOK' /\ pass' # Idle /\ pass'.from = pass.from /\ pass'.got = pass.got
  <2>1. pass' \in TxStage
    BY <1>3, <1>4 DEF TxStage
  <2>2. pass'.at[1] = 1 /\ pass'.at[2] = 1 /\ pass'.got = pass.got /\ pass'.from = pass.from
    BY <1>4
  <2>3. Len(BlockTxs[pass.got[1]]) \in Nat \ {0}
    <3>1. pass.got[1] \in Block
      BY <1>3
    <3> QED BY <3>1, Typed
  <2> QED BY <1>3, <2>1, <2>2, <2>3 DEF PassOK, Idle, TxStage
<1>6. UtxoOK' /\ RestOK'
  <2>1. CASE ApplyUtxoChanges
    <3> DEFINE T == TxsOf(pass.got)
    <3>1. /\ eu' = (eu \cup Created(T)) \ (Spent(T) \cap (Created(T) \cup eur))
          /\ eur' = (eur \cup Created(T)) \ Spent(T)
          /\ UNCHANGED <<lost, faults>>
      BY <2>1 DEF ApplyUtxoChanges, SpentKeys, counts
    <3>2. Created(T) \subseteq Outpoint
      BY DEF Created
    <3> HIDE DEF T
    <3> QED BY <1>1, <3>1, <3>2 DEF CInv, TInv, UtxoOK, RestOK
  <2>2. CASE UtxoChangesLost
    BY <1>1, <2>2 DEF UtxoChangesLost, Fault, tables, CInv, TInv, UtxoOK, RestOK
  <2> QED BY <2>1, <2>2
<1>7. TInv'
  BY <1>1, <1>5, <1>6 DEF CInv, TInv, ChainOK, BlocksOK, TxsOK, TxMap, AddrOK, MetaOK, UpdOK
<1>8. (CountOK /\ AddrsOK /\ LastOK /\ ListOK)'
  BY <1>1 DEF CInv, CountOK, AddrsOK, LastOK, ListOK
<1>9. SectionOK'
  BY <1>1, <1>2, <1>5 DEF CInv, SectionOK
<1> QED BY <1>7, <1>8, <1>9 DEF CInv

\* A position in the extracted list, and the one that follows.
LEMMA Positions ==
  ASSUME TInv, pass \in TxStage,
         pass.at[1] \in 1..Len(pass.got),
         pass.at[2] \in 1..Len(BlockTxs[pass.got[pass.at[1]]])
  PROVE  LET b == TxAt(pass.got, pass.at)[1]
             t == TxAt(pass.got, pass.at)[2]
             next == After(pass.got, pass.at)
         IN  /\ b = pass.got[pass.at[1]] /\ b \in Block /\ t \in TxsIn(b) /\ t \in Tx
             /\ next \in Nat \X Nat
             /\ next[1] <= Len(pass.got) =>
                  /\ next[1] \in 1..Len(pass.got)
                  /\ next[2] \in 1..Len(BlockTxs[pass.got[next[1]]])
<1> DEFINE i == pass.at[1]
           j == pass.at[2]
           got == pass.got
           b == got[i]
           next == After(got, pass.at)
<1>1. got \in Seq(Block) /\ Len(got) \in Nat /\ i \in 1..Len(got)
  BY DEF TxStage
<1>2. \A k \in 1..Len(got) : got[k] \in Block
  BY <1>1
<1>3. \A k \in 1..Len(got) : Len(BlockTxs[got[k]]) \in Nat \ {0}
  BY <1>2, Typed
<1>4. /\ TxAt(got, pass.at)[1] = b /\ TxAt(got, pass.at)[2] = BlockTxs[b][j]
  BY DEF TxAt
<1>5. BlockTxs[b][j] \in TxsIn(b) /\ BlockTxs[b][j] \in Tx /\ b \in Block
  <2>1. b \in Block /\ j \in DOMAIN BlockTxs[b]
    BY <1>1, <1>2, Typed
  <2> QED BY <2>1, Typed DEF TxsIn, Range
<1>6. next = IF j < Len(BlockTxs[b]) THEN <<i, j + 1>> ELSE <<i + 1, 1>>
  BY DEF After
<1>7. j \in 1..Len(BlockTxs[b])
  OBVIOUS
<1> HIDE DEF i, j, got, b, next
<1>8. CASE j < Len(BlockTxs[b])
  <2>1. next = <<i, j + 1>>
    BY <1>6, <1>8
  <2>2. i \in Nat /\ j + 1 \in Nat /\ j + 1 \in 1..Len(BlockTxs[b])
    BY <1>1, <1>3, <1>7, <1>8 DEF b
  <2>3. next \in Nat \X Nat /\ next[1] = i /\ next[2] = j + 1
    BY <2>1, <2>2
  <2> QED BY <1>1, <1>4, <1>5, <2>2, <2>3 DEF i, j, got, b, next
<1>9. CASE ~ (j < Len(BlockTxs[b]))
  <2>1. next = <<i + 1, 1>>
    BY <1>6, <1>9
  <2>2. i + 1 \in Nat /\ 1 \in Nat
    BY <1>1
  <2>3. next \in Nat \X Nat /\ next[1] = i + 1 /\ next[2] = 1
    BY <2>1, <2>2
  <2>4. i + 1 <= Len(got) => i + 1 \in 1..Len(got) /\ 1 \in 1..Len(BlockTxs[got[i + 1]])
    BY <1>1, <1>3
  <2> QED BY <1>4, <1>5, <2>3, <2>4 DEF i, j, got, b, next
<1> QED BY <1>8, <1>9

\* save_transaction.
LEMMA TxStep ==
  ASSUME CInv, SaveTransaction
  PROVE  CInv'
<1> DEFINE b == TxAt(pass.got, pass.at)[1]
           t == TxAt(pass.got, pass.at)[2]
           next == After(pass.got, pass.at)
           info == TransactionInfo(b, t, TxsOf(pass.got))
           touched == pass.touched \cup Touches(info)
<1>1. /\ pass.step = "txs"
      /\ txs' = Put(txs, t, info) /\ listed' = listed \cup {<<b, t>>}
      /\ meta' = IF ~ IsNewTx(t) THEN meta
                 ELSE [meta EXCEPT !.txs = @ + 1,
                                   !.volume = @ + info.amount,
                                   !.supply = IF info.from = Reward THEN @ + info.amount
                                              ELSE @]
      /\ pass' = IF next[1] <= Len(pass.got)
                 THEN [pass EXCEPT !.at = next, !.touched = touched]
                 ELSE [step |-> "addrs", from |-> pass.from, got |-> pass.got,
                       touched |-> touched]
      /\ UNCHANGED <<chain, blocks, byHash, eu, eur, addr, upd, writer, lost, reorgs, faults>>
  BY DEF SaveTransaction, counts
<1>2. /\ pass \in TxStage /\ pass # Idle
      /\ pass.at[1] \in 1..Len(pass.got)
      /\ pass.at[2] \in 1..Len(BlockTxs[pass.got[pass.at[1]]])
  BY <1>1 DEF CInv, TInv, PassOK, BlockStage, AddrStage, Idle
<1>3. /\ b = pass.got[pass.at[1]] /\ b \in Block /\ t \in TxsIn(b) /\ t \in Tx
      /\ next \in Nat \X Nat
      /\ next[1] <= Len(pass.got) =>
           /\ next[1] \in 1..Len(pass.got)
           /\ next[2] \in 1..Len(BlockTxs[pass.got[next[1]]])
  BY <1>2, Positions DEF CInv
<1> HIDE DEF b, t, next
<1>4. /\ info \in TxRecord /\ info.from = From(t) /\ info.to = Recipient(t)
      /\ info.amount = Amount(t) /\ Touches(info) \subseteq Address
  BY <1>3, InfoTyped
<1> HIDE DEF info
<1>5. TxMap(txs)
  BY DEF CInv, TInv, TxsOK
<1>6. /\ TxMap(txs') /\ DOMAIN txs' = DOMAIN txs \cup {t}
      /\ t \in DOMAIN txs =>
           /\ SumAmounts(txs', DOMAIN txs') = SumAmounts(txs, DOMAIN txs)
           /\ SumAmounts(txs', Rewards(txs')) = SumAmounts(txs, Rewards(txs))
      /\ t \notin DOMAIN txs =>
           /\ Cardinality(DOMAIN txs') = Cardinality(DOMAIN txs) + 1
           /\ SumAmounts(txs', DOMAIN txs') = SumAmounts(txs, DOMAIN txs) + Amount(t)
           /\ SumAmounts(txs', Rewards(txs')) =
                IF From(t) = Reward THEN SumAmounts(txs, Rewards(txs)) + Amount(t)
                ELSE SumAmounts(txs, Rewards(txs))
  <2> DEFINE g == Put(txs, t, info)
  <2>1. /\ TxMap(g) /\ DOMAIN g = DOMAIN txs \cup {t}
        /\ t \in DOMAIN txs =>
             /\ SumAmounts(g, DOMAIN g) = SumAmounts(txs, DOMAIN txs)
             /\ SumAmounts(g, Rewards(g)) = SumAmounts(txs, Rewards(txs))
        /\ t \notin DOMAIN txs =>
             /\ Cardinality(DOMAIN g) = Cardinality(DOMAIN txs) + 1
             /\ SumAmounts(g, DOMAIN g) = SumAmounts(txs, DOMAIN txs) + Amount(t)
             /\ SumAmounts(g, Rewards(g)) =
                  IF From(t) = Reward THEN SumAmounts(txs, Rewards(txs)) + Amount(t)
                  ELSE SumAmounts(txs, Rewards(txs))
    BY <1>3, <1>4, <1>5, PutRecord
  <2>2. txs' = g
    BY <1>1
  <2> HIDE DEF g
  <2> QED BY <2>1, <2>2
<1>7. TxsOK'
  BY <1>1, <1>3, <1>6 DEF CInv, TInv, TxsOK
<1>8. MetaOK' /\ CountOK' /\ meta'.addrs = meta.addrs /\ meta'.last = meta.last
  <2>1. CASE t \in DOMAIN txs
    <3>1. meta' = meta /\ DOMAIN txs' = DOMAIN txs
      BY <1>1, <1>6, <2>1 DEF IsNewTx
    <3> QED BY <1>1, <1>6, <2>1, <3>1 DEF CInv, TInv, MetaOK, CountOK
  <2>2. CASE t \notin DOMAIN txs
    <3> DEFINE more == IF From(t) = Reward THEN meta.supply + Amount(t) ELSE meta.supply
    <3>1. meta' = [meta EXCEPT !.txs = meta.txs + 1, !.volume = meta.volume + Amount(t),
                               !.supply = more]
      BY <1>1, <1>4, <2>2 DEF IsNewTx, CInv, TInv, MetaOK
    <3>2. meta.txs + 1 \in Nat /\ meta.volume + Amount(t) \in Nat /\ more \in Nat
      <4>1. Amount(t) \in Nat
        BY <1>3, MovedTyped
      <4>2. meta.txs \in Nat /\ meta.volume \in Nat /\ meta.supply \in Nat
        BY MetaFields DEF CInv
      <4> QED BY <4>1, <4>2
    <3>3. /\ meta'.txs = meta.txs + 1 /\ meta'.volume = meta.volume + Amount(t)
          /\ meta'.supply = more /\ meta'.blocks = meta.blocks
          /\ meta'.addrs = meta.addrs /\ meta'.last = meta.last
      BY <3>1 DEF CInv, TInv, MetaOK
    <3>4. MetaOK'
      <4> HIDE DEF more
      <4> QED BY <3>1, <3>2 DEF CInv, TInv, MetaOK
    <3> QED BY <1>1, <1>6, <2>2, <3>3, <3>4 DEF CInv, CountOK
  <2> QED BY <2>1, <2>2
<1>9. PassOK' /\ pass' # Idle /\ pass'.from = pass.from /\ pass'.got = pass.got
  <2>1. touched \subseteq Address
    BY <1>2, <1>4 DEF TxStage
  <2> HIDE DEF touched
  <2>2. CASE next[1] <= Len(pass.got)
    <3>1. pass' = [pass EXCEPT !.at = next, !.touched = touched]
      BY <1>1, <2>2
    <3>2. pass' \in TxStage /\ pass'.at = next /\ pass'.got = pass.got /\ pass'.from = pass.from
      BY <1>2, <1>3, <2>1, <3>1 DEF TxStage
    <3> QED BY <1>3, <2>2, <3>2 DEF PassOK, TxStage, Idle
  <2>3. CASE ~ (next[1] <= Len(pass.got))
    <3>1. pass' = [step |-> "addrs", from |-> pass.from, got |-> pass.got, touched |-> touched]
      BY <1>1, <2>3
    <3>2. pass' \in AddrStage /\ pass'.got = pass.got /\ pass'.from = pass.from
      BY <1>2, <2>1, <3>1 DEF TxStage, AddrStage
    <3>3. Len(pass.got) > 0
      BY <1>2, PassGot DEF CInv
    <3> QED BY <3>2, <3>3 DEF PassOK, AddrStage, Idle
  <2> QED BY <2>2, <2>3
<1>10. TInv'
  BY <1>1, <1>7, <1>8, <1>9 DEF CInv, TInv, ChainOK, BlocksOK, UtxoOK, AddrOK, UpdOK, RestOK
<1>11. AddrsOK' /\ LastOK'
  BY <1>1, <1>8 DEF CInv, AddrsOK, LastOK
<1>12. SectionOK'
  BY <1>1, <1>2, <1>9 DEF CInv, SectionOK
<1>13. ListOK'
  <2>1. \A x \in Tx : x \in DOMAIN txs' <=> \E y \in Block : <<y, x>> \in listed'
    <3>1. \A x \in Tx : x \in DOMAIN txs <=> \E y \in Block : <<y, x>> \in listed
      BY DEF CInv, ListOK
    <3>2. \A x, y : <<y, x>> \in listed' <=> <<y, x>> \in listed \/ (x = t /\ y = b)
      BY <1>1
    <3> QED BY <1>3, <1>6, <3>1, <3>2
  <2>2. ASSUME reorgs' = 0, NEW y \in Block, NEW x \in Tx, <<y, x>> \in listed'
        PROVE  x \in TxsIn(y) /\ \E i \in 1..Len(chain') : chain'[i] = y
    <3>1. CASE <<y, x>> \in listed
      BY <1>1, <2>2, <3>1 DEF CInv, ListOK
    <3>2. CASE y = b /\ x = t
      <4> DEFINE lo == Lo(pass.from)
                 k == pass.at[1]
      <4>1. lo + Len(pass.got) <= Len(chain) /\ pass.got[k] = chain[lo + k]
        BY <1>1, <1>2, <2>2 DEF CInv, SectionOK
      <4>2. lo \in Nat /\ k \in Nat \ {0} /\ k <= Len(pass.got) /\ Len(pass.got) \in Nat
            /\ Len(chain) \in Nat
        BY <1>2, PassGot DEF CInv, TInv, ChainOK, Lo
      <4> HIDE DEF lo, k
      <4>3. lo + k \in 1..Len(chain)
        BY <4>1, <4>2
      <4>4. chain'[lo + k] = b /\ chain' = chain
        BY <1>1, <1>3, <4>1 DEF k
      <4> QED BY <1>3, <3>2, <4>3, <4>4
    <3> QED BY <1>1, <2>2, <3>1, <3>2
  <2> QED BY <2>1, <2>2 DEF ListOK
<1> QED BY <1>8, <1>10, <1>11, <1>12, <1>13 DEF CInv

\* A pass ends, well or not, or the process starts again.
LEMMA EndStep ==
  ASSUME CInv, Finish \/ PassFails \/ Restart
  PROVE  CInv'
<1>1. /\ pass' = Idle
      /\ UNCHANGED <<chain, blocks, byHash, txs, listed, eu, eur, addr, writer, lost, reorgs>>
      /\ faults' \in Nat
  BY DEF Finish, PassFails, Restart, Fault, tables, counts, CInv, TInv, RestOK
<1>2. MetaOK' /\ meta'.blocks = meta.blocks /\ meta'.last = meta.last /\ meta'.txs = meta.txs
      /\ meta'.volume = meta.volume /\ meta'.supply = meta.supply /\ meta'.addrs = meta.addrs
  <2>1. CASE PassFails \/ Restart
    <3>1. meta' = meta
      BY <2>1, NothingMissing DEF PassFails, Restart, tables
    <3> QED BY <3>1 DEF CInv, TInv, MetaOK
  <2>2. CASE Finish
    <3>1. meta' = [meta EXCEPT !.synced = LatestHeight(pass.got)] /\ pass.step = "addrs"
      BY <2>2 DEF Finish
    <3>2. LatestHeight(pass.got) \in Nat
      <4> DEFINE H == {HeightOf(b) : b \in Range(pass.got)}
      <4>1. pass # Idle
        BY <3>1 DEF Idle
      <4>2. /\ pass.got \in Seq(Block) /\ Len(pass.got) \in Nat \ {0}
            /\ DOMAIN pass.got = 1..Len(pass.got)
        BY <4>1, PassGot DEF CInv
      <4>3. Range(pass.got) \subseteq Block /\ Range(pass.got) # {}
        <5>1. \A i \in DOMAIN pass.got : pass.got[i] \in Block
          BY <4>2
        <5>2. 1 \in DOMAIN pass.got
          BY <4>2
        <5> QED BY <5>1, <5>2 DEF Range
      <4>4. H \subseteq Nat /\ H # {} /\ IsFiniteSet(H)
        <5>1. H \subseteq Nat /\ H # {}
          BY <4>3, HeightNat
        <5>2. IsFiniteSet(H)
          <6> DEFINE f == [i \in 1..Len(pass.got) |-> HeightOf(pass.got[i])]
          <6>1. H = Range(f)
            BY <4>2 DEF Range
          <6>2. IsFiniteSet(DOMAIN f) /\ f = [x \in DOMAIN f |-> f[x]]
            BY <4>2, FS_Interval
          <6> HIDE DEF f, H
          <6> QED BY <6>1, <6>2, FiniteRange
        <5> QED BY <5>1, <5>2
      <4> HIDE DEF H
      <4>5. Max(H) \in H
        BY <4>4, MaxExists
      <4> QED BY <4>4, <4>5 DEF LatestHeight, H
    <3> QED BY <3>1, <3>2 DEF CInv, TInv, MetaOK
  <2> QED BY <2>1, <2>2
<1>3. UpdOK' /\ (upd' = upd \/ \A p \in {"sync", "http"} : upd'[p] = Idle)
  BY DEF Finish, PassFails, Restart, CInv, TInv, UpdOK
<1>4. TInv'
  BY <1>1, <1>2, <1>3 DEF CInv, TInv, ChainOK, BlocksOK, TxsOK, TxMap, UtxoOK, AddrOK, PassOK, RestOK
<1>5. (CountOK /\ LastOK /\ ListOK /\ SectionOK)'
  BY <1>1, <1>2 DEF CInv, CountOK, LastOK, ListOK, SectionOK
<1>6. AddrsOK'
  <2>1. Idle \notin Counted
    BY DEF Idle, Counted
  <2> QED BY <1>1, <1>2, <1>3, <2>1 DEF CInv, AddrsOK
<1> QED BY <1>4, <1>5, <1>6 DEF CInv

\* A task of update_address_info, by its stage.
LEMMA TaskStages ==
  ASSUME TInv, NEW p \in {"sync", "http"}
  PROVE  /\ upd[p].step = "computed" => upd[p] \in Computed
         /\ upd[p].step = "counted" => upd[p] \in Counted
BY DEF TInv, UpdOK, Idle, Computed, Counted

\* The record of an address is computed, by the pass or for a request, or skipped.
LEMMA ComputeStep ==
  ASSUME CInv, NEW a \in Address, SyncUpdates(a) \/ SyncSkips(a) \/ QueryAddress(a)
  PROVE  CInv'
<1>1. /\ UNCHANGED <<chain, blocks, byHash, txs, listed, eu, eur, addr, meta, writer, reorgs>>
      /\ lost' \in Nat /\ faults' \in Nat
  BY DEF SyncUpdates, SyncSkips, QueryAddress, Fault, tables, counts, CInv, TInv, RestOK
<1>2. /\ PassOK' /\ (pass' # Idle => pass # Idle)
      /\ pass # Idle => pass'.from = pass.from /\ pass'.got = pass.got
  <2>1. CASE QueryAddress(a)
    BY <2>1 DEF QueryAddress, CInv, TInv, PassOK
  <2>2. CASE SyncUpdates(a) \/ SyncSkips(a)
    <3>1. pass.step = "addrs" /\ pass' = [pass EXCEPT !.touched = @ \ {a}]
      BY <2>2 DEF SyncUpdates, SyncSkips
    <3>2. pass \in AddrStage /\ Len(pass.got) > 0
      BY <3>1 DEF CInv, TInv, PassOK, BlockStage, TxStage, Idle
    <3>3. pass' \in AddrStage /\ pass'.from = pass.from /\ pass'.got = pass.got
      BY <3>1, <3>2 DEF AddrStage
    <3>4. pass # Idle
      BY <3>1 DEF Idle
    <3> QED BY <3>2, <3>3, <3>4 DEF PassOK
  <2> QED BY <2>1, <2>2
<1>3. UpdOK' /\ \A p \in {"sync", "http"} : upd'[p] \in Counted => upd'[p] = upd[p]
  <2>1. CASE SyncSkips(a)
    BY <2>1 DEF SyncSkips, CInv, TInv, UpdOK
  <2>2. CASE SyncUpdates(a) \/ QueryAddress(a)
    <3> DEFINE u == [step |-> "computed", address |-> a, info |-> AddressInfo(a)]
    <3>1. PICK q \in {"sync", "http"} : upd' = [upd EXCEPT ![q] = u]
      BY <2>2 DEF SyncUpdates, QueryAddress
    <3>2. u \in Computed /\ u \notin Counted
      BY AddressInfoTyped DEF CInv, Computed, Counted
    <3> HIDE DEF u
    <3> QED BY <3>1, <3>2 DEF CInv, TInv, UpdOK
  <2> QED BY <2>1, <2>2
<1>4. TInv'
  BY <1>1, <1>2, <1>3 DEF CInv, TInv, ChainOK, BlocksOK, TxsOK, TxMap, UtxoOK, AddrOK, MetaOK, RestOK
<1>5. (CountOK /\ LastOK /\ ListOK)'
  BY <1>1 DEF CInv, CountOK, LastOK, ListOK
<1>6. SectionOK'
  BY <1>1, <1>2 DEF CInv, SectionOK
<1>7. AddrsOK'
  BY <1>1, <1>3 DEF CInv, AddrsOK
<1> QED BY <1>4, <1>5, <1>6, <1>7 DEF CInv

\* save_address_info reads the counter.
LEMMA CountStep ==
  ASSUME CInv, NEW p \in {"sync", "http"}, ReadAddressCount(p)
  PROVE  CInv'
<1> DEFINE a == upd[p].address
           u == [step |-> "counted", address |-> a, info |-> upd[p].info,
                 new |-> a \notin DOMAIN addr, count |-> meta.addrs]
<1>1. /\ upd[p].step = "computed" /\ upd' = [upd EXCEPT ![p] = u]
      /\ UNCHANGED <<chain, tables, pass, counts>>
  BY DEF ReadAddressCount, CInv, TInv, UpdOK
<1>2. upd[p] \in Computed
  BY <1>1, TaskStages DEF CInv
<1>3. /\ u \in Counted /\ u.address = a /\ u.count = meta.addrs
      /\ u.new = (a \notin DOMAIN addr)
  BY <1>2, MetaFields DEF Computed, Counted, CInv
<1> HIDE DEF u, a
<1>4. TInv'
  <2>1. UpdOK'
    BY <1>1, <1>3 DEF CInv, TInv, UpdOK
  <2>2. UNCHANGED <<chain, blocks, byHash, txs, listed, eu, eur, addr, meta, pass, writer, lost,
                    reorgs, faults>>
    BY <1>1 DEF tables, counts
  <2>3. (ChainOK /\ BlocksOK /\ TxsOK /\ UtxoOK /\ AddrOK)'
    BY <2>2 DEF CInv, TInv, ChainOK, BlocksOK, TxsOK, TxMap, UtxoOK, AddrOK
  <2>4. (MetaOK /\ PassOK /\ RestOK)'
    BY <2>2 DEF CInv, TInv, MetaOK, PassOK, RestOK
  <2> QED BY <2>1, <2>3, <2>4 DEF TInv
<1>5. (CountOK /\ LastOK /\ ListOK /\ SectionOK)'
  BY <1>1 DEF tables, counts, CInv, CountOK, LastOK, ListOK, SectionOK
<1>6. AddrsOK'
  <2>1. UNCHANGED <<meta, addr>>
    BY <1>1 DEF tables
  <2>2. ASSUME NEW q \in {"sync", "http"}, upd'[q] \in Counted /\ upd'[q].new
        PROVE  upd'[q].count + 1 <= Cardinality(DOMAIN addr \cup {upd'[q].address})
    <3>1. CASE q = p
      <4>1. upd'[q] = u
        BY <1>1, <3>1 DEF CInv, TInv, UpdOK
      <4>2. a \notin DOMAIN addr /\ IsFiniteSet(DOMAIN addr)
        BY <1>3, <2>2, <4>1 DEF CInv, TInv, AddrOK
      <4>3. Cardinality(DOMAIN addr \cup {a}) = Cardinality(DOMAIN addr) + 1
        BY <4>2, FS_AddElement
      <4>4. meta.addrs <= Cardinality(DOMAIN addr) /\ meta.addrs \in Nat
            /\ Cardinality(DOMAIN addr) \in Nat
        BY <4>2, MetaFields, FS_CardinalityType DEF CInv, AddrsOK
      <4> QED BY <1>3, <4>1, <4>3, <4>4
    <3>2. CASE q # p
      <4>1. upd'[q] = upd[q]
        BY <1>1, <3>2 DEF CInv, TInv, UpdOK
      <4> QED BY <2>2, <4>1 DEF CInv, AddrsOK
    <3> QED BY <3>1, <3>2
  <2> QED BY <2>1, <2>2 DEF CInv, AddrsOK
<1> QED BY <1>4, <1>5, <1>6 DEF CInv

\* The batch of save_address_info.
LEMMA RecordStep ==
  ASSUME CInv, NEW p \in {"sync", "http"}, SaveAddressInfo(p)
  PROVE  CInv'
<1> DEFINE u == upd[p]
           D == DOMAIN addr
           n == IF u.new THEN u.count + 1 ELSE meta.addrs
<1>1. /\ u.step = "counted" /\ addr' = Put(addr, u.address, u.info)
      /\ meta' = [meta EXCEPT !.addrs = n]
      /\ writer' = Put(writer, u.address, p)
      /\ upd' = [upd EXCEPT ![p] = Idle]
      /\ UNCHANGED <<chain, blocks, byHash, txs, listed, eu, eur, pass, lost, reorgs, faults>>
  BY DEF SaveAddressInfo, CInv, TInv, MetaOK
<1>2. u \in Counted
  BY <1>1, TaskStages DEF CInv
<1>3. /\ u.address \in Address /\ u.info \in AddressRecord /\ u.count \in Nat
      /\ u.new \in BOOLEAN
  BY <1>2 DEF Counted
<1>4. meta.addrs \in Nat /\ n \in Nat
  <2>1. meta.addrs \in Nat
    BY MetaFields DEF CInv
  <2> QED BY <1>3, <2>1
<1> HIDE DEF n
<1>5. MetaOK' /\ meta'.blocks = meta.blocks /\ meta'.last = meta.last /\ meta'.txs = meta.txs
      /\ meta'.volume = meta.volume /\ meta'.supply = meta.supply /\ meta'.addrs = n
  BY <1>1, <1>4 DEF CInv, TInv, MetaOK
<1>6. IsFiniteSet(D) /\ D \subseteq Address /\ addr \in [D -> AddressRecord]
  BY DEF CInv, TInv, AddrOK
<1>7. DOMAIN addr' = D \cup {u.address} /\ IsFiniteSet(D \cup {u.address})
      /\ Cardinality(D) \in Nat
      /\ Cardinality(D \cup {u.address}) \in Nat
      /\ Cardinality(D) <= Cardinality(D \cup {u.address})
  <2>1. DOMAIN addr' = D \cup {u.address}
    BY <1>1 DEF Put
  <2>2. IsFiniteSet(D \cup {u.address})
    BY <1>6, FS_AddElement
  <2>3. D \subseteq D \cup {u.address}
    OBVIOUS
  <2>4. Cardinality(D) \in Nat /\ Cardinality(D \cup {u.address}) \in Nat
    BY <1>6, <2>2, FS_CardinalityType
  <2>5. Cardinality(D) <= Cardinality(D \cup {u.address})
    BY <2>2, <2>3, FS_Subset
  <2> QED BY <2>1, <2>2, <2>4, <2>5
<1>8. AddrOK'
  <2>1. addr' \in [D \cup {u.address} -> AddressRecord]
    BY <1>1, <1>3, <1>6 DEF Put
  <2> QED BY <1>3, <1>6, <1>7, <2>1 DEF AddrOK
<1>9. UpdOK' /\ upd'[p] = Idle /\ \A q \in {"sync", "http"} \ {p} : upd'[q] = upd[q]
  BY <1>1 DEF CInv, TInv, UpdOK
<1>10. RestOK'
  <2> DEFINE W == {"old", "sync", "http"}
  <2>1. writer \in [D -> W] /\ p \in W
    BY DEF CInv, TInv, RestOK
  <2> HIDE DEF W
  <2>2. writer' \in [D \cup {u.address} -> W]
    BY <1>1, <2>1 DEF Put
  <2> QED BY <1>1, <1>7, <2>2 DEF CInv, TInv, RestOK, W
<1>11. TInv'
  BY <1>1, <1>5, <1>8, <1>9, <1>10
     DEF CInv, TInv, ChainOK, BlocksOK, TxsOK, TxMap, UtxoOK, PassOK
<1>12. (CountOK /\ LastOK /\ ListOK /\ SectionOK)'
  BY <1>1, <1>5 DEF CInv, CountOK, LastOK, ListOK, SectionOK
<1>13. AddrsOK'
  <2>1. n <= Cardinality(D \cup {u.address})
    <3>1. meta.addrs <= Cardinality(D)
      BY DEF CInv, AddrsOK
    <3>2. u.new => u.count + 1 <= Cardinality(D \cup {u.address})
      BY <1>2 DEF CInv, AddrsOK
    <3>3. CASE u.new
      BY <3>2, <3>3 DEF n
    <3>4. CASE ~ u.new
      BY <1>4, <1>7, <3>1, <3>4 DEF n
    <3> QED BY <3>3, <3>4
  <2>2. ASSUME NEW q \in {"sync", "http"}, upd'[q] \in Counted /\ upd'[q].new
        PROVE  upd'[q].count + 1 <= Cardinality(DOMAIN addr' \cup {upd'[q].address})
    <3>1. q # p
      BY <1>9, <2>2 DEF Idle, Counted
    <3> DEFINE a == upd[q].address
               k == upd[q].count
    <3>2. upd'[q] = upd[q] /\ k \in Nat
      BY <1>9, <2>2, <3>1 DEF Counted
    <3>3. k + 1 <= Cardinality(D \cup {a})
      BY <2>2, <3>2 DEF CInv, AddrsOK
    <3> HIDE DEF k
    <3>4. /\ D \cup {a} \subseteq (D \cup {u.address}) \cup {a}
          /\ IsFiniteSet((D \cup {u.address}) \cup {a})
      BY <1>7, FS_AddElement
    <3>5. /\ Cardinality(D \cup {a}) <= Cardinality((D \cup {u.address}) \cup {a})
          /\ Cardinality(D \cup {a}) \in Nat
          /\ Cardinality((D \cup {u.address}) \cup {a}) \in Nat
      BY <3>4, FS_Subset, FS_CardinalityType
    <3>6. k + 1 <= Cardinality((D \cup {u.address}) \cup {a})
      BY <3>2, <3>3, <3>5
    <3> QED BY <1>7, <3>2, <3>6 DEF k
  <2> QED BY <1>5, <1>7, <2>1, <2>2 DEF AddrsOK
<1> QED BY <1>11, <1>12, <1>13 DEF CInv

-----------------------------------------------------------------------------
(* The database at a start *)

\* The metadata of a version that counted blocks and transactions at most.
Kept(synced, nb, nt) ==
  [blocks |-> nb, last |-> -1, txs |-> nt, volume |-> 0, supply |-> 0, addrs |-> 0,
   synced |-> synced, migrated |-> FALSE]

\* Metadata that agree with the keys.
Exact(r, b, t, a) ==
  /\ r \in [blocks : Nat, last : Nat \cup {-1}, txs : Nat, volume : Nat, supply : Nat,
            addrs : Nat, synced : Nat, migrated : BOOLEAN]
  /\ r.migrated
  /\ r.blocks = Cardinality(DOMAIN b) /\ r.txs = Cardinality(DOMAIN t)
  /\ r.volume = SumAmounts(t, DOMAIN t) /\ r.supply = SumAmounts(t, Rewards(t))
  /\ r.addrs = Cardinality(DOMAIN a)
  /\ IF DOMAIN b = {} THEN r.last = -1
     ELSE r.last \in DOMAIN b /\ \A h \in DOMAIN b : h <= r.last

\* Metadata that initialize_metadata computes from the keys: nothing was counted in
\* them, or the number of transactions and any number of blocks, but no height.
LEMMA Initialized ==
  ASSUME NEW b, NEW t, NEW a, NEW synced \in Nat, NEW nb \in Nat, NEW nt,
         nt \in {0, Cardinality(DOMAIN t)},
         DOMAIN b \subseteq Nat, IsFiniteSet(DOMAIN b), IsFiniteSet(DOMAIN a),
         TxMap(t),
         (DOMAIN b = {} /\ nb = 0) \/ \E h \in DOMAIN b : h > 0
  PROVE  /\ Exact(InitializeMetadata(Kept(synced, nb, nt), b, t, a), b, t, a)
         /\ InitializeMetadata(Kept(synced, nb, nt), b, t, a).synced = synced
<1> DEFINE m == Kept(synced, nb, nt)
           last == IF DOMAIN b = {} THEN 0 ELSE Max(DOMAIN b)
           scan == last > 0 /\ (m.blocks = 0 \/ m.last = -1)
           nb1 == IF scan THEN Cardinality(DOMAIN b) ELSE nb
           l1 == IF scan THEN last ELSE -1
           nt1 == Cardinality(DOMAIN t)
           vol == SumAmounts(t, DOMAIN t)
           sup == SumAmounts(t, Rewards(t))
           na == Cardinality(DOMAIN a)
<1>1. m.blocks = nb /\ m.last = -1 /\ m.txs = nt /\ m.migrated = FALSE
  BY DEF Kept
<1>2. InitializeMetadata(m, b, t, a) =
        [m EXCEPT !.blocks = nb1, !.last = l1, !.txs = IF nt = 0 THEN nt1 ELSE nt,
                  !.supply = sup, !.addrs = na, !.volume = vol, !.migrated = TRUE]
  BY <1>1 DEF InitializeMetadata
<1>3. (IF nt = 0 THEN nt1 ELSE nt) = nt1
  OBVIOUS
<1>4. nt1 \in Nat /\ vol \in Nat /\ sup \in Nat /\ na \in Nat
  <2>1. IsFiniteSet(DOMAIN t) /\ vol \in Nat /\ sup \in Nat
    BY SumsTyped, RewardsIs
  <2> QED BY <2>1, FS_CardinalityType
<1>5. nb1 = Cardinality(DOMAIN b) /\ nb1 \in Nat /\ l1 \in Nat \cup {-1}
      /\ IF DOMAIN b = {} THEN l1 = -1 ELSE l1 \in DOMAIN b /\ \A h \in DOMAIN b : h <= l1
  <2>1. CASE DOMAIN b = {}
    <3>1. last = 0 /\ nb = 0 /\ Cardinality(DOMAIN b) = 0
      BY <2>1, FS_EmptySet
    <3>2. ~ scan
      <4> HIDE DEF last
      <4> QED BY <3>1
    <3> HIDE DEF scan, last
    <3> QED BY <2>1, <3>1, <3>2
  <2>2. CASE DOMAIN b # {}
    <3>1. last = Max(DOMAIN b)
      BY <2>2
    <3>2. last \in DOMAIN b /\ \A h \in DOMAIN b : h <= last
      BY <2>2, <3>1, MaxExists
    <3> HIDE DEF last
    <3>3. last \in Nat /\ last > 0
      BY <2>2, <3>2
    <3>4. scan
      <4> HIDE DEF m
      <4> QED BY <1>1, <3>3
    <3>5. Cardinality(DOMAIN b) \in Nat
      BY FS_CardinalityType
    <3> HIDE DEF scan
    <3> QED BY <2>2, <3>2, <3>3, <3>4, <3>5
  <2> QED BY <2>1, <2>2
<1> HIDE DEF nb1, l1, nt1, vol, sup, na
<1>6. InitializeMetadata(m, b, t, a) =
        [blocks |-> nb1, last |-> l1, txs |-> nt1, volume |-> vol,
         supply |-> sup, addrs |-> na, synced |-> synced, migrated |-> TRUE]
  BY <1>2, <1>3 DEF Kept
<1> HIDE DEF m
<1>7. LET r == InitializeMetadata(m, b, t, a)
      IN  /\ r \in [blocks : Nat, last : Nat \cup {-1}, txs : Nat, volume : Nat, supply : Nat,
                     addrs : Nat, synced : Nat, migrated : BOOLEAN]
          /\ r.migrated /\ r.synced = synced /\ r.blocks = nb1 /\ r.txs = nt1
          /\ r.volume = vol /\ r.supply = sup /\ r.addrs = na /\ r.last = l1
  BY <1>4, <1>5, <1>6
<1> QED BY <1>5, <1>7 DEF nb1, nt1, vol, sup, na, m, Exact

\* The height that is noted at a start.
LEMMA FreshSynced ==
  ASSUME Fresh
  PROVE  meta.synced = 0
BY DEF Fresh, InitializeMetadata, NoMeta

\* With a database of an older version it is that of its last pass.
LEMMA UpgradedSynced ==
  ASSUME Upgraded
  PROVE  meta.synced = OldHeight
<1>1. PICK kept : /\ kept.synced = OldHeight
                  /\ meta = InitializeMetadata(kept, blocks, txs, addr)
  BY DEF Upgraded, NoMeta
<1> QED BY <1>1 DEF InitializeMetadata

\* The node's chain when the explorer starts.
LEMMA InitChain ==
  ASSUME Init
  PROVE  ChainOK
<1>1. PICK c \in Chains : \E n \in {1, OldHeight + 1} \cap DOMAIN c : chain = SubSeq(c, 1, n)
  BY DEF Init
<1>2. PICK n \in {1, OldHeight + 1} \cap DOMAIN c : chain = SubSeq(c, 1, n)
  BY <1>1
<1>3. c \in Seq(Block) /\ Len(c) \in Nat /\ n \in 1..Len(c)
  BY Typed
<1>4. chain \in Seq(Block) /\ Len(chain) = n /\ \A i \in 1..n : chain[i] = c[i]
  BY <1>2, <1>3
<1> QED BY <1>3, <1>4 DEF ChainOK

\* An empty database.
LEMMA FreshInit ==
  ASSUME Init, Fresh
  PROVE  CInv
<1>1. /\ blocks = Empty /\ byHash = {} /\ txs = Empty /\ listed = {} /\ addr = Empty
      /\ meta = InitializeMetadata(NoMeta, blocks, txs, addr)
  BY DEF Fresh
<1>2. DOMAIN Empty = {} /\ \A S : Empty \in [{} -> S]
  BY DEF Empty
<1>3. TxMap(txs)
  BY <1>1, <1>2 DEF TxMap
<1>4. NoMeta = Kept(0, 0, 0)
  BY DEF NoMeta, Kept
<1>5. MetaOK /\ CountOK /\ LastOK /\ meta.addrs = Cardinality(DOMAIN addr)
  <2>1. /\ DOMAIN blocks = {} /\ DOMAIN addr = {} /\ IsFiniteSet({}) /\ 0 \in Nat
        /\ DOMAIN blocks \subseteq Nat /\ 0 \in {0, Cardinality(DOMAIN txs)}
    BY <1>1, <1>2, FS_EmptySet
  <2>2. Exact(meta, blocks, txs, addr)
    BY <1>1, <1>3, <1>4, <2>1, Initialized
  <2> QED BY <2>2 DEF Exact, MetaOK, CountOK, LastOK
<1>6. AddrOK /\ BlocksOK /\ TxsOK /\ ListOK
  <2>1. IsFiniteSet({})
    BY FS_EmptySet
  <2> QED BY <1>1, <1>2, <1>3, <2>1 DEF AddrOK, BlocksOK, TxsOK, ListOK
<1>7. UtxoOK /\ PassOK /\ UpdOK /\ RestOK /\ SectionOK
      /\ \A p \in {"sync", "http"} : upd[p] \notin Counted
  BY DEF Init, UtxoOK, PassOK, UpdOK, RestOK, SectionOK, Counted, Idle
<1>8. AddrsOK
  <2>1. Cardinality(DOMAIN addr) \in Nat
    BY <1>6, FS_CardinalityType DEF AddrOK
  <2> QED BY <1>5, <1>7, <2>1 DEF AddrsOK
<1> QED BY <1>5, <1>6, <1>7, <1>8, InitChain DEF CInv, TInv

\* A database that an older version wrote.
LEMMA UpgradedInit ==
  ASSUME Init, Upgraded
  PROVE  CInv
<1> DEFINE old == SubSeq(chain, 1, OldHeight + 1)
           T == TxsOf(old)
           BlockWith(t) == CHOOSE b \in Range(old) : t \in Range(BlockTxs[b])
           A == UNION {Touches(txs[t]) : t \in T}
           Rec(a) == [balance |-> Positive(ReceivedBy(txs, a) - SentBy(txs, a)),
                      sent |-> SentBy(txs, a), received |-> ReceivedBy(txs, a),
                      count |-> Cardinality(TxsOfAddress(txs, a))]
<1>1. /\ Len(chain) > OldHeight
      /\ blocks = [h \in 0..OldHeight |-> chain[h + 1]]
      /\ byHash = Range(old)
      /\ txs = [t \in T |-> TransactionInfo(BlockWith(t), t, T)]
      /\ listed = {<<BlockWith(t), t>> : t \in T}
      /\ addr = [a \in A |-> Rec(a)]
      /\ \E kept \in {[NoMeta EXCEPT !.synced = OldHeight],
                      [NoMeta EXCEPT !.synced = OldHeight, !.blocks = OldHeight + 2,
                                     !.txs = Cardinality(T)]} :
           meta = InitializeMetadata(kept, blocks, txs, addr)
  BY DEF Upgraded
<1>2. OldHeight \in Nat \ {0} /\ chain \in Seq(Block) /\ Len(chain) \in Nat
  BY InitChain, ConstantsTyped DEF ChainOK
<1>3. /\ DOMAIN old = 1..(OldHeight + 1)
      /\ \A i \in 1..(OldHeight + 1) : old[i] = chain[i] /\ i \in 1..Len(chain) /\ chain[i] \in Block
  <2>1. old \in Seq(Block) /\ Len(old) = OldHeight + 1
        /\ \A i \in 1..(OldHeight + 1) : old[i] = chain[i]
    BY <1>1, <1>2
  <2>2. \A i \in 1..(OldHeight + 1) : i \in 1..Len(chain)
    BY <1>1, <1>2
  <2>3. \A i \in 1..Len(chain) : chain[i] \in Block
    BY <1>2
  <2> QED BY <2>1, <2>2, <2>3
<1>4. \A b \in Range(old) : b \in Block /\ \E i \in 1..Len(chain) : chain[i] = b
  BY <1>3 DEF Range
<1>5. \A t \in T : t \in Tx /\ \E b \in Range(old) : t \in Range(BlockTxs[b])
  <2> SUFFICES ASSUME NEW i \in DOMAIN old, NEW t \in TxsIn(old[i])
               PROVE  t \in Tx /\ \E b \in Range(old) : t \in Range(BlockTxs[b])
    BY DEF TxsOf
  <2>1. old[i] \in Range(old) /\ old[i] \in Block
    BY <1>3 DEF Range
  <2> QED BY <2>1, Typed DEF TxsIn
<1>6. \A t \in T : BlockWith(t) \in Range(old) /\ t \in TxsIn(BlockWith(t))
  BY <1>5 DEF TxsIn
<1> HIDE DEF old, T, BlockWith
<1>7. TxMap(txs) /\ DOMAIN txs = T
  <2>1. DOMAIN txs = T /\ \A t \in T : txs[t] = TransactionInfo(BlockWith(t), t, T)
    BY <1>1
  <2>2. \A t \in T : /\ txs[t] \in TxRecord /\ txs[t].from = From(t)
                     /\ txs[t].to = Recipient(t) /\ txs[t].amount = Amount(t)
    <3> TAKE t \in T
    <3>1. t \in Tx /\ BlockWith(t) \in Block
      BY <1>4, <1>5, <1>6
    <3> QED BY <2>1, <3>1, InfoTyped
  <2>3. txs \in [T -> TxRecord]
    <3>1. txs = [t \in T |-> txs[t]]
      BY <1>1
    <3> QED BY <2>2, <3>1
  <2> QED BY <1>5, <2>1, <2>2, <2>3 DEF TxMap
<1>8. TxsOK
  BY <1>1, <1>4, <1>5, <1>6, <1>7 DEF TxsOK
<1>9. ListOK
  <2>1. ASSUME NEW t \in Tx PROVE t \in DOMAIN txs <=> \E b \in Block : <<b, t>> \in listed
    <3>1. t \in DOMAIN txs => \E b \in Block : <<b, t>> \in listed
      BY <1>1, <1>4, <1>6, <1>7
    <3>2. (\E b \in Block : <<b, t>> \in listed) => t \in DOMAIN txs
      BY <1>1, <1>7
    <3> QED BY <3>1, <3>2
  <2>2. ASSUME NEW b \in Block, NEW t \in Tx, <<b, t>> \in listed
        PROVE  t \in TxsIn(b) /\ \E i \in 1..Len(chain) : chain[i] = b
    <3>1. t \in T /\ b = BlockWith(t)
      BY <1>1, <2>2
    <3> QED BY <1>4, <1>6, <3>1
  <2> QED BY <2>1, <2>2 DEF ListOK
<1>10. BlocksOK
  <2>1. DOMAIN blocks = 0..OldHeight /\ IsFiniteSet(0..OldHeight)
    <3>1. 0 \in Int /\ OldHeight \in Int
      BY <1>2
    <3> QED BY <1>1, <3>1, FS_Interval
  <2>2. \A h \in 0..OldHeight : chain[h + 1] \in Block
    BY <1>2, <1>3
  <2>3. blocks \in [0..OldHeight -> Block]
    BY <1>1, <2>2
  <2> QED BY <1>1, <1>4, <2>1, <2>3 DEF BlocksOK
<1>11. A \subseteq Address /\ IsFiniteSet(A)
  <2> DEFINE f == [t \in T |-> From(t)]
             g == [t \in T |-> Recipient(t)]
  <2>1. \A t \in T : Touches(txs[t]) = {From(t), Recipient(t)}
    BY <1>7 DEF TxMap, Touches
  <2>2. A \subseteq Address
    <3>1. \A t \in T : From(t) \in Address /\ Recipient(t) \in Address
      BY <1>5, MovedTyped DEF From, Address
    <3> QED BY <2>1, <3>1
  <2>3. A \subseteq Range(f) \cup Range(g)
    BY <2>1 DEF Range
  <2>4. IsFiniteSet(DOMAIN f) /\ IsFiniteSet(DOMAIN g)
    BY <1>7, SumsTyped
  <2>5. IsFiniteSet(Range(f)) /\ IsFiniteSet(Range(g))
    BY <2>4, FiniteRange
  <2> HIDE DEF f, g, A
  <2>6. IsFiniteSet(Range(f) \cup Range(g))
    BY <2>5, FS_Union
  <2> QED BY <2>2, <2>3, <2>6, FS_Subset
<1>12. AddrOK /\ DOMAIN addr = A
  <2>1. \A a \in A : Rec(a) \in AddressRecord
    <3> TAKE a \in A
    <3>1. SentBy(txs, a) \in Nat /\ ReceivedBy(txs, a) \in Nat
          /\ Cardinality(TxsOfAddress(txs, a)) \in Nat
      BY <1>7, SumsTyped
    <3>2. Positive(ReceivedBy(txs, a) - SentBy(txs, a)) \in Nat
      BY <3>1 DEF Positive
    <3> QED BY <3>1, <3>2 DEF AddressRecord
  <2> HIDE DEF A, Rec
  <2>2. addr \in [A -> AddressRecord] /\ DOMAIN addr = A
    BY <1>1, <2>1
  <2> QED BY <1>11, <2>2 DEF AddrOK
<1> HIDE DEF A, Rec
<1>13. MetaOK /\ CountOK /\ LastOK /\ meta.addrs = Cardinality(DOMAIN addr)
  <2>1. PICK nb \in Nat, nt \in {0, Cardinality(DOMAIN txs)} :
          meta = InitializeMetadata(Kept(OldHeight, nb, nt), blocks, txs, addr)
    <3>1. PICK kept \in {[NoMeta EXCEPT !.synced = OldHeight],
                         [NoMeta EXCEPT !.synced = OldHeight, !.blocks = OldHeight + 2,
                                        !.txs = Cardinality(T)]} :
            meta = InitializeMetadata(kept, blocks, txs, addr)
      BY <1>1
    <3>2. 0 \in Nat /\ OldHeight + 2 \in Nat
      BY <1>2
    <3>3. CASE kept = [NoMeta EXCEPT !.synced = OldHeight]
      <4>1. kept = Kept(OldHeight, 0, 0)
        BY <3>3 DEF NoMeta, Kept
      <4> QED BY <3>1, <3>2, <4>1
    <3>4. CASE kept = [NoMeta EXCEPT !.synced = OldHeight, !.blocks = OldHeight + 2,
                                     !.txs = Cardinality(T)]
      <4>1. kept = Kept(OldHeight, OldHeight + 2, Cardinality(T))
        BY <3>4 DEF NoMeta, Kept
      <4> QED BY <1>7, <3>1, <3>2, <4>1
    <3> QED BY <3>1, <3>3, <3>4
  <2>2. /\ DOMAIN blocks \subseteq Nat /\ IsFiniteSet(DOMAIN blocks) /\ IsFiniteSet(DOMAIN addr)
        /\ OldHeight \in Nat
    BY <1>2, <1>10, <1>12 DEF BlocksOK, AddrOK
  <2>3. \E h \in DOMAIN blocks : h > 0
    <3>1. OldHeight \in DOMAIN blocks /\ OldHeight > 0
      BY <1>1, <1>2
    <3> QED BY <3>1
  <2>4. Exact(InitializeMetadata(Kept(OldHeight, nb, nt), blocks, txs, addr), blocks, txs, addr)
    BY <1>7, <2>2, <2>3, Initialized
  <2>5. Exact(meta, blocks, txs, addr)
    BY <2>1, <2>4
  <2> QED BY <2>5 DEF Exact, MetaOK, CountOK, LastOK
<1>14. UtxoOK /\ PassOK /\ UpdOK /\ RestOK /\ SectionOK
      /\ \A p \in {"sync", "http"} : upd[p] \notin Counted
  BY DEF Init, UtxoOK, PassOK, UpdOK, RestOK, SectionOK, Counted, Idle
<1>15. AddrsOK
  <2>1. Cardinality(DOMAIN addr) \in Nat
    BY <1>12, FS_CardinalityType DEF AddrOK
  <2> QED BY <1>13, <1>14, <2>1 DEF AddrsOK
<1> QED BY <1>8, <1>9, <1>10, <1>12, <1>13, <1>14, <1>15, InitChain DEF CInv, TInv

\* The counters agree with the keys at a start, whatever was there before.
LEMMA CInit == Init => CInv
BY FreshInit, UpgradedInit DEF Init

\* Every step keeps types and counters.
LEMMA CNext == CInv /\ [Next]_vars => CInv'
<1> SUFFICES ASSUME CInv, [Next]_vars PROVE CInv'
  OBVIOUS
<1>1. CASE NodeExtends \/ NodeReorganizes
  BY <1>1, NodeStep
<1>2. CASE Fetch \/ FetchFails
  BY <1>2, FetchStep
<1>3. CASE SaveBlock
  BY <1>3, BlockStep
<1>4. CASE ApplyUtxoChanges \/ UtxoChangesLost
  BY <1>4, UtxoStep
<1>5. CASE SaveTransaction
  BY <1>5, TxStep
<1>6. CASE Finish \/ PassFails \/ Restart
  BY <1>6, EndStep
<1>7. CASE \E a \in Address : SyncUpdates(a) \/ SyncSkips(a)
  BY <1>7, ComputeStep
<1>8. CASE \E a \in Queried : QueryAddress(a)
  <2>1. Queried \subseteq Address
    BY DEF Address
  <2> QED BY <1>8, <2>1, ComputeStep
<1>9. CASE \E p \in {"sync", "http"} : ReadAddressCount(p)
  BY <1>9, CountStep
<1>10. CASE \E p \in {"sync", "http"} : SaveAddressInfo(p)
  BY <1>10, RecordStep
<1>11. CASE UNCHANGED vars
  BY <1>11 DEF vars, CInv, TInv, ChainOK, BlocksOK, TxsOK, TxMap, UtxoOK, AddrOK, MetaOK, PassOK,
               UpdOK, RestOK, CountOK, AddrsOK, LastOK, SectionOK, ListOK
<1> QED BY <1>1, <1>2, <1>3, <1>4, <1>5, <1>6, <1>7, <1>8, <1>9, <1>10, <1>11
        DEF Next, SyncStep, HttpStep, FaultStep

\* The invariant holds.
LEMMA CHolds == Spec => []CInv
BY CInit, CNext, PTL DEF Spec

\* The type invariant of the explorer holds for all chains, faults and requests.
THEOREM TypeCorrect == Spec => []TypeOK
<1>1. CInv => TypeOK
  BY TypesFollow DEF CInv
<1> QED BY <1>1, CHolds, PTL

\* Without a reorganization every stored transaction is listed under one block.
LEMMA ListedOnce ==
  ASSUME CInv, reorgs = 0
  PROVE  Cardinality(listed) = Cardinality(DOMAIN txs)
<1> DEFINE D == DOMAIN txs
           f == [t \in D |-> CHOOSE p \in listed : p[2] = t]
<1>1. listed \subseteq Block \X Tx /\ D \subseteq Tx /\ IsFiniteSet(D)
  BY SumsTyped DEF CInv, TInv, TxsOK, TxMap
<1>2. ASSUME NEW t \in D PROVE \E p \in listed : p[2] = t
  <2>1. PICK b \in Block : <<b, t>> \in listed
    BY <1>1 DEF CInv, ListOK
  <2> QED BY <2>1
<1>3. \A t \in D : f[t] \in listed /\ f[t][2] = t
  BY <1>2
<1>4. ASSUME NEW p \in listed, NEW q \in listed, p[2] = q[2] PROVE p = q
  <2>1. p[1] \in Block /\ p[2] \in Tx /\ q[1] \in Block /\ p = <<p[1], p[2]>> /\ q = <<q[1], p[2]>>
    BY <1>1, <1>4
  <2>2. p[2] \in TxsIn(p[1]) /\ p[2] \in TxsIn(q[1])
    BY <2>1 DEF CInv, ListOK
  <2>3. PICK i \in 1..Len(chain) : chain[i] = p[1]
    BY <2>1 DEF CInv, ListOK
  <2>4. PICK j \in 1..Len(chain) : chain[j] = q[1]
    BY <2>1 DEF CInv, ListOK
  <2>5. PICK d \in Chains : Len(chain) <= Len(d) /\ \A k \in 1..Len(chain) : chain[k] = d[k]
    BY DEF CInv, TInv, ChainOK
  <2>6. i \in DOMAIN d /\ j \in DOMAIN d /\ d[i] = p[1] /\ d[j] = q[1] /\ i \in Nat /\ j \in Nat
    <3>1. Len(chain) \in Nat /\ Len(d) \in Nat /\ DOMAIN d = 1..Len(d)
      BY Typed DEF CInv, TInv, ChainOK
    <3> QED BY <2>3, <2>4, <2>5, <3>1
  <2>7. ~ (i < j) /\ ~ (j < i)
    BY <2>2, <2>6, ChainsValid
  <2> QED BY <2>1, <2>3, <2>4, <2>6, <2>7
<1>5. f \in Bijection(D, listed)
  <2>1. f \in [D -> listed]
    BY <1>3
  <2>2. \A t, u \in D : f[t] = f[u] => t = u
    BY <1>3
  <2>3. ASSUME NEW p \in listed PROVE \E t \in D : f[t] = p
    <3>1. p[1] \in Block /\ p[2] \in Tx /\ p = <<p[1], p[2]>>
      BY <1>1
    <3>2. p[2] \in D
      BY <3>1 DEF CInv, ListOK
    <3>3. f[p[2]] \in listed /\ f[p[2]][2] = p[2]
      BY <1>3, <3>2
    <3> QED BY <1>4, <3>2, <3>3
  <2> HIDE DEF f
  <2> QED BY <2>1, <2>2, <2>3 DEF Bijection, Injection, Surjection, IsInjective
<1> HIDE DEF f
<1>6. ExistsBijection(D, listed)
  BY <1>5 DEF ExistsBijection
<1> HIDE DEF D
<1> QED BY <1>1, <1>6, FS_Bijection DEF D

\* The counters are exact after any number of repeated, failed and interrupted
\* passes, reorganizations and restarts, and after the upgrade of any older database;
\* only the number of addresses may stay behind, because two requests can read it
\* before either writes it.
THEOREM CountersCorrect == Spec => []CountersExact
<1>1. CInv => CountersExact
  BY ListedOnce DEF CInv, CountOK, AddrsOK, CountersExact
<1> QED BY <1>1, CHolds, PTL

-----------------------------------------------------------------------------
(* The UTXO index *)

\* The height of the last block of a pass, the unspent outputs of the node's chain up
\* to a height, and the height up to which a pass has stored its blocks.
Hi == Lo(pass.from) + Len(pass.got) - 1
UpTo(h) == Unspent(SubSeq(chain, 1, h + 1))
Saved == IF pass.step = "blocks" THEN Lo(pass.from) + pass.next - 2 ELSE Hi

HeightInv ==
  reorgs = 0 =>
    IF pass = Idle THEN meta.last >= Lo(meta.synced) - 1
    ELSE meta.synced = pass.from /\ meta.last >= Saved

\* The index is at a height of which the pass at hand begins no later than just above
\* and ends no earlier: with that its batch brings it to the end of the pass.
IndexInv ==
  reorgs = 0 /\ lost = 0 =>
    /\ pass = Idle /\ eu # {} =>
         \E h \in meta.synced..meta.last : h < Len(chain) /\ eu = UpTo(h)
    /\ pass.step \in {"blocks", "utxo"} =>
         IF eu = {} THEN pass.from = 0
         ELSE \E h \in pass.from..meta.last : h <= Hi /\ eu = UpTo(h)
    /\ pass.step \in {"txs", "addrs"} => eu = UpTo(Hi)

UInv == HeightInv /\ IndexInv

\* The transactions of the blocks at some places of the chain.
TxsAt(I) == UNION {TxsIn(chain[i]) : i \in I}

\* What they create and spend, block by block.
LEMMA AtPlaces ==
  ASSUME NEW I, NEW o
  PROVE  /\ o \in Created(TxsAt(I)) <=> \E i \in I : o \in Created(TxsIn(chain[i]))
         /\ o \in Spent(TxsAt(I)) <=> \E i \in I : o \in Spent(TxsIn(chain[i]))
<1>1. \A t : t \in TxsAt(I) <=> \E i \in I : t \in TxsIn(chain[i])
  BY DEF TxsAt
<1>2. o \in Created(TxsAt(I)) <=> \E i \in I : o \in Created(TxsIn(chain[i]))
  BY <1>1 DEF Created
<1>3. o \in Spent(TxsAt(I)) <=> \E i \in I : o \in Spent(TxsIn(chain[i]))
  BY <1>1 DEF Spent
<1> QED BY <1>2, <1>3

\* The chain up to a height.
LEMMA UpToIs ==
  ASSUME ChainOK, NEW h \in Nat, h < Len(chain)
  PROVE  UpTo(h) = Created(TxsAt(1..(h + 1))) \ Spent(TxsAt(1..(h + 1)))
<1> DEFINE s == SubSeq(chain, 1, h + 1)
<1>1. DOMAIN s = 1..(h + 1) /\ \A i \in 1..(h + 1) : s[i] = chain[i]
  BY DEF ChainOK
<1> HIDE DEF s
<1>2. TxsOf(s) = TxsAt(1..(h + 1))
  BY <1>1 DEF TxsOf, TxsAt
<1> QED BY <1>2 DEF UpTo, Unspent, s

\* The blocks of a pass are those of a section of the chain.
LEMMA PassSection ==
  ASSUME CInv, reorgs = 0, pass # Idle
  PROVE  /\ Lo(pass.from) \in Nat /\ Hi \in Nat /\ Hi < Len(chain)
         /\ Lo(pass.from) <= pass.from + 1 /\ pass.from <= Hi /\ pass.from \in Nat
         /\ Lo(pass.from) <= Hi /\ Hi = Lo(pass.from) + Len(pass.got) - 1
         /\ \A i \in 1..Len(pass.got) : pass.got[i] = chain[Lo(pass.from) + i]
         /\ TxsOf(pass.got) = TxsAt((Lo(pass.from) + 1)..(Hi + 1))
<1> DEFINE lo == Lo(pass.from)
           n == Len(pass.got)
<1>1. pass.from \in Nat /\ n \in Nat \ {0} /\ DOMAIN pass.got = 1..n /\ Len(chain) \in Nat
  BY PassGot DEF CInv, TInv, ChainOK
<1>2. lo \in Nat /\ lo <= pass.from + 1 /\ pass.from <= lo + n - 1
  BY <1>1 DEF Lo
<1>3. lo + n <= Len(chain) /\ \A i \in 1..n : pass.got[i] = chain[lo + i]
  BY DEF CInv, SectionOK
<1>4. Hi = lo + n - 1
  BY DEF Hi
<1> HIDE DEF lo, n
<1>5. TxsOf(pass.got) = TxsAt((lo + 1)..(Hi + 1))
  <2>1. ASSUME NEW t, t \in TxsOf(pass.got) PROVE t \in TxsAt((lo + 1)..(Hi + 1))
    <3>1. PICK i \in 1..n : t \in TxsIn(pass.got[i])
      BY <1>1, <2>1 DEF TxsOf
    <3>2. lo + i \in (lo + 1)..(Hi + 1) /\ t \in TxsIn(chain[lo + i])
      BY <1>1, <1>2, <1>3, <1>4, <3>1
    <3> QED BY <3>2 DEF TxsAt
  <2>2. ASSUME NEW t, t \in TxsAt((lo + 1)..(Hi + 1)) PROVE t \in TxsOf(pass.got)
    <3>1. PICK j \in (lo + 1)..(Hi + 1) : t \in TxsIn(chain[j])
      BY <2>2 DEF TxsAt
    <3> DEFINE i == j - lo
    <3>2. i \in 1..n /\ lo + i = j
      BY <1>1, <1>2, <1>4
    <3> HIDE DEF i
    <3>3. pass.got[i] = chain[j]
      BY <1>3, <3>2
    <3> QED BY <1>1, <3>1, <3>2, <3>3 DEF TxsOf
  <2> QED BY <2>1, <2>2
<1>6. Hi \in Nat /\ Hi < Len(chain) /\ lo <= Hi
  BY <1>1, <1>2, <1>3, <1>4
<1> QED BY <1>1, <1>2, <1>3, <1>4, <1>5, <1>6 DEF lo, n

\* Earlier blocks of the chain spend nothing of later ones.
LEMMA NoneAhead ==
  ASSUME ChainOK, NEW i \in 1..Len(chain), NEW j \in 1..Len(chain), i < j
  PROVE  Spent(TxsIn(chain[i])) \cap Created(TxsIn(chain[j])) = {}
<1>1. PICK d \in Chains : Len(chain) <= Len(d) /\ \A k \in 1..Len(chain) : chain[k] = d[k]
  BY DEF ChainOK
<1>2. i \in DOMAIN d /\ j \in DOMAIN d
  <2>1. Len(chain) \in Nat /\ Len(d) \in Nat /\ DOMAIN d = 1..Len(d)
    BY Typed DEF ChainOK
  <2> QED BY <1>1, <2>1
<1>3. chain[i] = d[i] /\ chain[j] = d[j]
  BY <1>1
<1> QED BY <1>2, <1>3, ChainsValid

\* One batch over a section that may repeat blocks and begins no later than just above
\* them: nothing that was spent comes back, because no block spends an output of a
\* later one.
LEMMA Applied ==
  ASSUME ChainOK, NEW lo \in Nat, NEW h \in Nat, NEW hi \in Nat,
         lo <= h + 1, h <= hi, hi < Len(chain)
  PROVE  (UpTo(h) \cup Created(TxsAt((lo + 1)..(hi + 1)))) \ Spent(TxsAt((lo + 1)..(hi + 1)))
           = UpTo(hi)
<1> DEFINE C(i) == Created(TxsIn(chain[i]))
           S(i) == Spent(TxsIn(chain[i]))
           P == 1..(h + 1)
           Q == (lo + 1)..(hi + 1)
           R == 1..(hi + 1)
<1>1. Len(chain) \in Nat /\ h < Len(chain)
  BY DEF ChainOK
<1>2. /\ UpTo(h) = Created(TxsAt(P)) \ Spent(TxsAt(P))
      /\ UpTo(hi) = Created(TxsAt(R)) \ Spent(TxsAt(R))
  BY <1>1, UpToIs
<1>3. \A o : /\ o \in Created(TxsAt(P)) <=> \E i \in P : o \in C(i)
             /\ o \in Spent(TxsAt(P)) <=> \E i \in P : o \in S(i)
             /\ o \in Created(TxsAt(Q)) <=> \E i \in Q : o \in C(i)
             /\ o \in Spent(TxsAt(Q)) <=> \E i \in Q : o \in S(i)
             /\ o \in Created(TxsAt(R)) <=> \E i \in R : o \in C(i)
             /\ o \in Spent(TxsAt(R)) <=> \E i \in R : o \in S(i)
  BY AtPlaces
<1>4. \A i, j \in R : i < j => S(i) \cap C(j) = {}
  <2>1. R \subseteq 1..Len(chain)
    BY <1>1
  <2> QED BY <2>1, NoneAhead
<1>5. R = P \cup Q /\ \A i \in P \ Q, j \in Q : i < j
  BY <1>1
<1> HIDE DEF C, S, P, Q, R
<1>6. ASSUME NEW o, o \in Created(TxsAt(Q)), o \notin Spent(TxsAt(Q)) PROVE o \notin Spent(TxsAt(R))
  <2> SUFFICES ASSUME o \in Spent(TxsAt(R)) PROVE FALSE
    OBVIOUS
  <2>1. PICK i \in R : o \in S(i)
    BY <1>3
  <2>2. PICK j \in Q : o \in C(j)
    BY <1>3, <1>6
  <2>3. i \notin Q
    BY <1>3, <1>6, <2>1
  <2>4. i < j /\ j \in R
    BY <1>5, <2>3
  <2> QED BY <1>4, <2>1, <2>2, <2>4
<1>7. \A o : /\ o \in Created(TxsAt(R)) <=> o \in Created(TxsAt(P)) \/ o \in Created(TxsAt(Q))
             /\ o \in Spent(TxsAt(R)) <=> o \in Spent(TxsAt(P)) \/ o \in Spent(TxsAt(Q))
  BY <1>3, <1>5
<1>8. (UpTo(h) \cup Created(TxsAt(Q))) \ Spent(TxsAt(Q)) = UpTo(hi)
  BY <1>2, <1>6, <1>7
<1> QED BY <1>8 DEF Q

\* A pass that is past its UTXO batch, and steps that concern neither its blocks nor
\* the UTXO index.
LEMMA UQuiet ==
  ASSUME UInv, UNCHANGED <<chain, eu, reorgs>>, lost' = lost \/ lost' # 0,
         meta'.synced = meta.synced, meta'.last = meta.last,
         \/ pass' = pass
         \/ /\ pass.step \in {"txs", "addrs"} /\ pass'.step \in {"txs", "addrs"}
            /\ pass'.from = pass.from /\ pass'.got = pass.got
  PROVE  UInv'
<1>1. CASE pass' = pass
  BY <1>1 DEF UInv, HeightInv, IndexInv, Hi, UpTo, Saved
<1>2. CASE /\ pass.step \in {"txs", "addrs"} /\ pass'.step \in {"txs", "addrs"}
           /\ pass'.from = pass.from /\ pass'.got = pass.got
  <2>1. pass # Idle /\ pass' # Idle
    BY <1>2 DEF Idle
  <2>2. Hi' = Hi /\ Saved' = Saved /\ Saved = Hi
    BY <1>2 DEF Hi, Saved
  <2>3. \A h : UpTo(h)' = UpTo(h)
    BY DEF UpTo
  <2>4. HeightInv'
    BY <1>2, <2>1, <2>2 DEF UInv, HeightInv
  <2>5. IndexInv'
    BY <1>2, <2>1, <2>2, <2>3 DEF UInv, IndexInv
  <2> QED BY <2>4, <2>5 DEF UInv
<1> QED BY <1>1, <1>2

\* At a start there are no UTXO data, and the blocks reach the height that is noted.
LEMMA UInit == Init => UInv
<1> SUFFICES ASSUME Init PROVE UInv
  OBVIOUS
<1>1. pass = Idle /\ eu = {} /\ Idle.step = "idle"
  BY DEF Init, Idle
<1>2. IndexInv
  BY <1>1 DEF IndexInv
<1>3. meta.last >= Lo(meta.synced) - 1
  <2>1. CInv
    BY CInit
  <2>2. meta.last \in Int /\ meta.last >= -1
    BY <2>1, MetaFields DEF CInv
  <2>3. CASE Fresh
    <3>1. meta.synced = 0
      BY <2>3, FreshSynced
    <3> QED BY <2>2, <3>1 DEF Lo
  <2>4. CASE Upgraded
    <3>1. meta.synced = OldHeight
      BY <2>4, UpgradedSynced
    <3>2. OldHeight \in DOMAIN blocks /\ OldHeight \in Nat \ {0}
      BY <2>4, ConstantsTyped DEF Upgraded
    <3>3. OldHeight <= meta.last
      BY <2>1, <3>2 DEF CInv, LastOK
    <3> QED BY <2>2, <3>1, <3>2, <3>3 DEF Lo
  <2> QED BY <2>3, <2>4 DEF Init
<1> QED BY <1>1, <1>2, <1>3 DEF UInv, HeightInv

\* The part of the chain that was there stays when the node extends it.
LEMMA Extended ==
  ASSUME CInv, NodeExtends
  PROVE  /\ Len(chain') = Len(chain) + 1
         /\ \A h \in Nat : h < Len(chain) => UpTo(h)' = UpTo(h)
         /\ \A I \in SUBSET (1..Len(chain)) : TxsAt(I)' = TxsAt(I)
<1>1. PICK d \in Chains : /\ Len(d) > Len(chain) /\ chain' = SubSeq(d, 1, Len(chain) + 1)
                          /\ IsPrefix(chain, d)
  BY DEF NodeExtends
<1>2. /\ Len(chain') = Len(chain) + 1 /\ Len(chain) \in Nat
      /\ \A i \in 1..Len(chain) : chain'[i] = chain[i]
  BY <1>1, GrownChain DEF CInv, TInv, ChainOK
<1>3. chain \in Seq(Block) /\ chain' \in Seq(Block)
  <2>1. ChainOK /\ ChainOK'
    BY <1>1, GrownChain DEF CInv, TInv
  <2> QED BY <2>1 DEF ChainOK
<1>4. ASSUME NEW h \in Nat, h < Len(chain) PROVE UpTo(h)' = UpTo(h)
  <2>1. SubSeq(chain', 1, h + 1) = SubSeq(chain, 1, h + 1)
    <3>1. /\ SubSeq(chain', 1, h + 1) = [i \in 1..(h + 1) |-> chain'[i]]
          /\ SubSeq(chain, 1, h + 1) = [i \in 1..(h + 1) |-> chain[i]]
      BY <1>2, <1>3, <1>4
    <3>2. \A i \in 1..(h + 1) : chain'[i] = chain[i]
      BY <1>2, <1>4
    <3> QED BY <3>1, <3>2
  <2> QED BY <2>1 DEF UpTo
<1>5. ASSUME NEW I \in SUBSET (1..Len(chain)) PROVE TxsAt(I)' = TxsAt(I)
  <2>1. \A i \in I : chain'[i] = chain[i]
    BY <1>2
  <2> QED BY <2>1 DEF TxsAt
<1> QED BY <1>2, <1>4, <1>5

\* The node extends its chain: the index is at the same height of it.
LEMMA UNode ==
  ASSUME CInv, UInv, NodeExtends \/ NodeReorganizes
  PROVE  UInv'
<1> SUFFICES ASSUME reorgs' = 0 PROVE UInv'
  BY DEF UInv, HeightInv, IndexInv
<1>1. /\ UNCHANGED <<tables, pass, upd, writer, lost, faults>> /\ reorgs = 0 /\ NodeExtends
  BY DEF NodeExtends, NodeReorganizes, counts, CInv, TInv, RestOK
<1>2. Len(chain') = Len(chain) + 1 /\ Len(chain) \in Nat
  BY <1>1, Extended DEF CInv, TInv, ChainOK
<1>3. ASSUME NEW h \in Nat, h < Len(chain) PROVE UpTo(h)' = UpTo(h)
  BY <1>1, <1>3, Extended
<1>4. HeightInv'
  BY <1>1 DEF tables, UInv, HeightInv, Saved, Hi
<1>5. IndexInv'
  <2>1. UNCHANGED <<pass, eu, meta, lost>> /\ Hi' = Hi
    BY <1>1 DEF tables, Hi
  <2> SUFFICES ASSUME lost = 0 PROVE IndexInv'
    BY <2>1 DEF IndexInv
  <2>2. meta.synced \in Nat /\ meta.last \in Int
    BY MetaFields DEF CInv
  <2>3. CASE pass = Idle
    <3> SUFFICES ASSUME eu # {}
                 PROVE  \E h \in meta.synced..meta.last : h < Len(chain') /\ eu = UpTo(h)'
      BY <2>1, <2>3 DEF IndexInv, Idle
    <3>1. PICK h \in meta.synced..meta.last : h < Len(chain) /\ eu = UpTo(h)
      BY <1>1, <2>3 DEF UInv, IndexInv
    <3>2. h \in Nat /\ h < Len(chain')
      BY <1>2, <2>2, <3>1
    <3> QED BY <1>3, <3>1, <3>2
  <2>4. CASE pass # Idle
    <3>1. Hi \in Nat /\ Hi < Len(chain) /\ pass.from \in Nat
      BY <1>1, <2>4, PassSection
    <3>2. UpTo(Hi)' = UpTo(Hi)
      BY <1>3, <2>1, <3>1
    <3>3. ASSUME NEW h \in pass.from..meta.last, h <= Hi PROVE UpTo(h)' = UpTo(h)
      BY <1>2, <1>3, <2>2, <3>1, <3>3
    <3> QED BY <1>1, <2>1, <2>4, <3>2, <3>3 DEF UInv, IndexInv
  <2> QED BY <2>3, <2>4
<1> QED BY <1>4, <1>5 DEF UInv

\* A pass that begins takes all blocks up to the end of the chain.
LEMMA FetchEnds ==
  ASSUME CInv, Fetched # << >>,
         pass' = [step |-> "blocks", from |-> SyncedHeight, got |-> Fetched, next |-> 1]
  PROVE  Hi' = Len(chain) - 1
<1> DEFINE n == Len(chain)
           k == SyncedHeight
<1>1. chain \in Seq(Block) /\ n \in Nat /\ k \in Nat
  BY MetaFields DEF CInv, TInv, ChainOK, SyncedHeight
<1>2. Hi' = Lo(k) + Len(Fetched) - 1
  BY DEF Hi
<1>3. CASE k = 0
  BY <1>1, <1>2, <1>3 DEF Fetched, Lo
<1>4. CASE k # 0
  <2>1. Fetched = SubSeq(chain, k + 2, n) /\ Lo(k) = k + 1
    BY <1>1, <1>4 DEF Fetched, BlocksFrom, Lo
  <2>2. k + 2 <= n
    <3> SUFFICES ASSUME k + 2 > n PROVE FALSE
      BY <1>1
    <3> QED BY <1>1, <2>1
  <2>3. chain \in Seq(Block) /\ n \in Nat /\ k \in Nat
    BY <1>1
  <2> HIDE DEF k
  <2>4. Len(Fetched) = n - k - 1
    BY <2>1, <2>2, <2>3
  <2> HIDE DEF n
  <2>5. Hi' = (k + 1) + (n - k - 1) - 1
    BY <1>2, <2>1, <2>4
  <2>6. Hi' = n - 1
    BY <2>3, <2>5
  <2> QED BY <2>6 DEF n
<1> QED BY <1>3, <1>4

\* A pass begins just above the last one, or at the genesis block if there are no UTXO
\* data.
LEMMA UFetch ==
  ASSUME CInv, UInv, Fetch \/ FetchFails
  PROVE  UInv'
<1>1. /\ pass = Idle /\ UNCHANGED <<chain, eu, lost, reorgs>>
      /\ meta'.synced = SyncedHeight /\ meta'.last = meta.last
  BY DEF Fetch, FetchFails, counts, CInv, TInv, MetaOK
<1>2. meta.synced \in Nat /\ meta.last \in Int /\ meta.last >= -1 /\ SyncedHeight \in Nat
      /\ (eu = {} => SyncedHeight = 0) /\ (eu # {} => SyncedHeight = meta.synced)
  BY MetaFields DEF CInv, SyncedHeight
<1>3. \A h : UpTo(h)' = UpTo(h)
  BY <1>1 DEF UpTo
<1>4. reorgs = 0 => meta.last >= Lo(SyncedHeight) - 1
  BY <1>1, <1>2 DEF UInv, HeightInv, Lo
<1>5. CASE pass' = Idle
  <2>1. HeightInv'
    BY <1>1, <1>4, <1>5 DEF HeightInv
  <2>2. IndexInv'
    BY <1>1, <1>2, <1>3, <1>5 DEF UInv, IndexInv, Idle
  <2> QED BY <2>1, <2>2 DEF UInv
<1>6. CASE /\ Fetched # << >>
           /\ pass' = [step |-> "blocks", from |-> SyncedHeight, got |-> Fetched, next |-> 1]
  <2>1. /\ pass' # Idle /\ pass'.step = "blocks" /\ pass'.from = SyncedHeight
        /\ pass'.got = Fetched /\ pass'.next = 1
    BY <1>6 DEF Idle
  <2>2. Hi' = Len(chain) - 1
    BY <1>6, FetchEnds
  <2>3. HeightInv'
    <3>1. Saved' = Lo(SyncedHeight) - 1
      <4>1. Saved' = Lo(SyncedHeight) + 1 - 2 /\ Lo(SyncedHeight) \in Nat
        BY <1>2, <2>1 DEF Saved, Lo
      <4> QED BY <4>1
    <3> QED BY <1>1, <1>4, <2>1, <3>1 DEF HeightInv
  <2>4. IndexInv'
    <3> SUFFICES ASSUME reorgs = 0, lost = 0
                 PROVE  IF eu = {} THEN SyncedHeight = 0
                        ELSE \E h \in SyncedHeight..meta.last : h <= Hi' /\ eu = UpTo(h)
      BY <1>1, <1>3, <2>1 DEF IndexInv
    <3>1. ASSUME eu # {} PROVE \E h \in SyncedHeight..meta.last : h <= Hi' /\ eu = UpTo(h)
      <4>1. PICK h \in meta.synced..meta.last : h < Len(chain) /\ eu = UpTo(h)
        BY <1>1, <3>1 DEF UInv, IndexInv
      <4>2. h \in SyncedHeight..meta.last /\ h <= Hi'
        <5>1. Len(chain) \in Nat
          BY DEF CInv, TInv, ChainOK
        <5> QED BY <1>2, <2>2, <3>1, <4>1, <5>1
      <4> QED BY <4>1, <4>2
    <3> QED BY <1>2, <3>1
  <2> QED BY <2>3, <2>4 DEF UInv
<1> QED BY <1>1, <1>5, <1>6 DEF Fetch, FetchFails

\* The block that a pass stores next, and its height.
LEMMA NextHeight ==
  ASSUME CInv, reorgs = 0, pass.step = "blocks"
  PROVE  /\ Lo(pass.from) \in Nat /\ Hi \in Nat /\ Hi = Lo(pass.from) + Len(pass.got) - 1
         /\ pass.from \in Nat /\ Len(pass.got) \in Nat /\ pass.next \in Nat
         /\ pass.next \in 1..Len(pass.got) /\ meta.last \in Int
         /\ HeightOf(pass.got[pass.next]) = Lo(pass.from) + pass.next - 1
<1> DEFINE b == pass.got[pass.next]
           h == HeightOf(b)
           lo == Lo(pass.from)
<1>1. /\ pass \in BlockStage /\ pass.next \in 1..Len(pass.got) /\ pass # Idle
  BY DEF CInv, TInv, PassOK, TxStage, AddrStage, Idle
<1>2. /\ lo \in Nat /\ Hi \in Nat /\ Hi < Len(chain) /\ Hi = lo + Len(pass.got) - 1
      /\ pass.got[pass.next] = chain[lo + pass.next]
      /\ pass.from \in Nat /\ Len(chain) \in Nat /\ Len(pass.got) \in Nat /\ pass.next \in Nat
      /\ meta.last \in Int
  <2>1. Len(pass.got) \in Nat /\ meta.last \in Int /\ Len(chain) \in Nat
    BY <1>1, PassGot, MetaFields DEF CInv, TInv, ChainOK
  <2>2. /\ lo \in Nat /\ Hi \in Nat /\ Hi < Len(chain) /\ Hi = lo + Len(pass.got) - 1
        /\ pass.from \in Nat /\ pass.got[pass.next] = chain[lo + pass.next]
    BY <1>1, PassSection
  <2> QED BY <1>1, <2>1, <2>2
<1> HIDE DEF lo
<1>3. h = lo + pass.next - 1
  <2>1. PICK d \in Chains : Len(chain) <= Len(d) /\ \A k \in 1..Len(chain) : chain[k] = d[k]
    BY DEF CInv, TInv, ChainOK
  <2>2. lo + pass.next \in 1..Len(chain) /\ Len(d) \in Nat /\ DOMAIN d = 1..Len(d)
    <3>1. lo + pass.next \in 1..Len(chain)
      <4> DEFINE n == Len(pass.got)
                 k == pass.next
                 m == Len(chain)
      <4>1. lo \in Nat /\ n \in Nat /\ m \in Nat /\ k \in 1..n /\ Hi < m /\ Hi = lo + n - 1
        BY <1>1, <1>2
      <4> HIDE DEF n, k, m
      <4>2. lo + k \in 1..m
        BY <4>1
      <4> QED BY <4>2 DEF k, m
    <3>2. Len(d) \in Nat /\ DOMAIN d = 1..Len(d)
      BY Typed
    <3> QED BY <3>1, <3>2
  <2>3. lo + pass.next \in DOMAIN d /\ d[lo + pass.next] = b
    BY <1>2, <2>1, <2>2
  <2>4. h = (lo + pass.next) - 1
    BY <2>3, HeightIs
  <2> HIDE DEF h
  <2> QED BY <1>2, <2>4
<1> HIDE DEF b, h
<1> QED BY <1>1, <1>2, <1>3 DEF b, h, lo

\* The blocks are stored from the lowest to the highest.
LEMMA UBlock ==
  ASSUME CInv, UInv, SaveBlock
  PROVE  UInv'
<1> SUFFICES ASSUME reorgs = 0 PROVE UInv'
  BY DEF UInv, HeightInv, IndexInv, SaveBlock, counts
<1> DEFINE b == pass.got[pass.next]
           h == HeightOf(b)
           lo == Lo(pass.from)
<1>1. /\ pass.step = "blocks" /\ UNCHANGED <<chain, eu, lost, reorgs>>
      /\ pass' = IF pass.next < Len(pass.got) THEN [pass EXCEPT !.next = @ + 1]
                 ELSE [pass EXCEPT !.step = "utxo"]
  BY DEF SaveBlock, counts
<1>2. /\ pass \in BlockStage /\ pass.next \in 1..Len(pass.got) /\ pass # Idle
  BY <1>1 DEF CInv, TInv, PassOK, TxStage, AddrStage, Idle
<1>3. meta'.synced = meta.synced /\ meta'.last = IF h >= meta.last THEN h ELSE meta.last
  BY DEF SaveBlock, CInv, TInv, MetaOK
<1>4. /\ lo \in Nat /\ Hi \in Nat /\ Hi = lo + Len(pass.got) - 1
      /\ pass.from \in Nat /\ Len(pass.got) \in Nat /\ pass.next \in Nat /\ meta.last \in Int
  BY <1>1, NextHeight
<1>5. h = lo + pass.next - 1
  BY <1>1, NextHeight
<1> HIDE DEF lo
<1> HIDE DEF b, h
<1>6. /\ pass' # Idle /\ pass'.from = pass.from /\ pass'.got = pass.got
      /\ pass'.step \in {"blocks", "utxo"}
      /\ pass'.step = "blocks" => pass'.next = pass.next + 1
      /\ pass'.step = "utxo" => pass.next = Len(pass.got)
  <2>1. CASE pass.next < Len(pass.got)
    BY <1>1, <1>2, <2>1 DEF BlockStage, Idle
  <2>2. CASE ~ (pass.next < Len(pass.got))
    <3>1. pass' = [pass EXCEPT !.step = "utxo"]
      BY <1>1, <2>2
    <3>2. pass.next = Len(pass.got)
      BY <1>2, <1>4, <2>2
    <3> QED BY <1>2, <3>1, <3>2 DEF BlockStage, Idle
  <2> QED BY <2>1, <2>2
<1>7. Hi' = Hi /\ Saved' = h
  <2>1. Hi' = Hi
    BY <1>6 DEF Hi
  <2>2. CASE pass'.step = "blocks"
    <3>1. Saved' = lo + (pass.next + 1) - 2
      BY <1>6, <2>2 DEF Saved, lo
    <3> QED BY <1>4, <1>5, <2>1, <3>1
  <2>3. CASE pass'.step = "utxo"
    <3>1. Saved' = Hi
      BY <2>1, <2>3 DEF Saved
    <3> QED BY <1>4, <1>5, <1>6, <2>1, <2>3, <3>1
  <2> QED BY <1>6, <2>2, <2>3
<1>8. meta'.last \in Int /\ meta'.last >= h /\ meta'.last >= meta.last
  <2>1. h \in Int /\ meta.last \in Int
    BY <1>4, <1>5
  <2>2. meta'.last = IF h >= meta.last THEN h ELSE meta.last
    BY <1>3
  <2> QED BY <2>1, <2>2
<1>9. HeightInv'
  <2>1. meta.synced = pass.from
    BY <1>2 DEF UInv, HeightInv
  <2>2. pass' # Idle /\ meta'.synced = pass'.from /\ meta'.last >= Saved'
    BY <1>3, <1>6, <1>7, <1>8, <2>1
  <2> QED BY <2>2 DEF HeightInv
<1>10. IndexInv'
  <2>1. \A k : UpTo(k)' = UpTo(k)
    BY <1>1 DEF UpTo
  <2> SUFFICES ASSUME lost = 0
               PROVE  IF eu = {} THEN pass.from = 0
                      ELSE \E k \in pass.from..meta'.last : k <= Hi /\ eu = UpTo(k)
    BY <1>1, <1>6, <1>7, <2>1 DEF IndexInv
  <2>2. IF eu = {} THEN pass.from = 0
        ELSE \E k \in pass.from..meta.last : k <= Hi /\ eu = UpTo(k)
    BY <1>1 DEF UInv, IndexInv
  <2>3. \A k \in pass.from..meta.last : k \in pass.from..meta'.last
    BY <1>4, <1>8
  <2> QED BY <2>2, <2>3
<1> QED BY <1>9, <1>10 DEF UInv

\* The batch brings the index to the end of the pass.
LEMMA UUtxo ==
  ASSUME CInv, UInv, ApplyUtxoChanges \/ UtxoChangesLost
  PROVE  UInv'
<1> SUFFICES ASSUME reorgs = 0 PROVE UInv'
  BY DEF UInv, HeightInv, IndexInv, ApplyUtxoChanges, UtxoChangesLost, counts
<1>1. /\ pass.step = "utxo" /\ ToTransactions
      /\ UNCHANGED <<chain, meta, reorgs>>
  BY DEF ApplyUtxoChanges, UtxoChangesLost, tables, counts
<1>2. pass # Idle
  BY <1>1 DEF Idle
<1>3. /\ pass'.from = pass.from /\ pass'.got = pass.got /\ pass'.step = "txs" /\ pass' # Idle
  BY <1>1 DEF ToTransactions, Idle
<1>4. Hi' = Hi /\ Saved' = Hi /\ Saved = Hi
  BY <1>1, <1>3 DEF Hi, Saved
<1>5. HeightInv'
  BY <1>1, <1>2, <1>3, <1>4 DEF UInv, HeightInv
<1>6. IndexInv'
  <2>1. CASE UtxoChangesLost
    <3>1. lost' # 0
      BY <2>1 DEF UtxoChangesLost, CInv, TInv, RestOK
    <3> QED BY <3>1 DEF IndexInv
  <2>2. CASE ApplyUtxoChanges
    <3> DEFINE lo == Lo(pass.from)
               T == TxsAt((lo + 1)..(Hi + 1))
    <3>1. /\ lo \in Nat /\ Hi \in Nat /\ Hi < Len(chain) /\ lo <= pass.from + 1
          /\ pass.from \in Nat /\ TxsOf(pass.got) = T
      BY <1>2, PassSection
    <3>2. eu' = (eu \cup Created(T)) \ Spent(T) /\ lost' = lost
      <4>1. eu' = (eu \cup Created(T)) \ (Spent(T) \cap (Created(T) \cup eu)) /\ lost' = lost
        BY <2>2, <3>1 DEF ApplyUtxoChanges, SpentKeys, counts, CInv, TInv, UtxoOK
      <4> HIDE DEF T
      <4> QED BY <4>1
    <3> SUFFICES ASSUME lost = 0 PROVE eu' = UpTo(Hi)
      BY <1>1, <1>3, <1>4, <3>2 DEF IndexInv, UpTo
    <3>3. IF eu = {} THEN pass.from = 0
          ELSE \E h \in pass.from..meta.last : h <= Hi /\ eu = UpTo(h)
      BY <1>1 DEF UInv, IndexInv
    <3>4. CASE eu = {}
      <4>1. lo = 0
        BY <3>3, <3>4 DEF Lo
      <4>2. T = TxsAt(1..(Hi + 1))
        BY <4>1
      <4>3. UpTo(Hi) = Created(T) \ Spent(T)
        BY <3>1, <4>2, UpToIs DEF CInv, TInv
      <4> QED BY <3>2, <3>4, <4>3
    <3>5. CASE eu # {}
      <4>1. PICK h \in pass.from..meta.last : h <= Hi /\ eu = UpTo(h)
        BY <3>3, <3>5
      <4>2. h \in Nat /\ lo <= h + 1
        <5>1. meta.last \in Int
          BY MetaFields DEF CInv
        <5> QED BY <3>1, <4>1, <5>1
      <4>3. (UpTo(h) \cup Created(T)) \ Spent(T) = UpTo(Hi)
        BY <3>1, <4>1, <4>2, Applied DEF CInv, TInv
      <4> QED BY <3>2, <4>1, <4>3
    <3> QED BY <3>4, <3>5
  <2> QED BY <2>1, <2>2
<1> QED BY <1>5, <1>6 DEF UInv

\* The height that a pass notes is that of its last block.
LEMMA LatestIs ==
  ASSUME CInv, reorgs = 0, pass # Idle
  PROVE  LatestHeight(pass.got) = Hi
<1> DEFINE H == {HeightOf(b) : b \in Range(pass.got)}
           lo == Lo(pass.from)
           n == Len(pass.got)
<1>1. /\ lo \in Nat /\ Hi < Len(chain) /\ Hi = lo + n - 1
      /\ \A i \in 1..n : pass.got[i] = chain[lo + i]
  BY PassSection
<1>2. n \in Nat \ {0} /\ DOMAIN pass.got = 1..n /\ Len(chain) \in Nat
  BY PassGot DEF CInv, TInv, ChainOK
<1>3. PICK d \in Chains : Len(chain) <= Len(d) /\ \A k \in 1..Len(chain) : chain[k] = d[k]
  BY DEF CInv, TInv, ChainOK
<1> HIDE DEF lo, n
<1>4. ASSUME NEW i \in 1..n PROVE HeightOf(pass.got[i]) = lo + i - 1
  <2>1. lo + i \in 1..Len(chain) /\ Len(d) \in Nat /\ DOMAIN d = 1..Len(d)
    <3>1. lo + i \in 1..Len(chain)
      BY <1>1, <1>2
    <3> QED BY <3>1, Typed
  <2>2. lo + i \in DOMAIN d /\ d[lo + i] = pass.got[i]
    BY <1>1, <1>2, <1>3, <2>1
  <2>3. HeightOf(d[lo + i]) = (lo + i) - 1
    BY <2>2, HeightIs
  <2> QED BY <1>1, <2>2, <2>3
<1>5. \A x : x \in H <=> \E i \in 1..n : x = lo + i - 1
  BY <1>2, <1>4 DEF Range
<1> HIDE DEF H
<1>6. H \in SUBSET Int /\ \A x \in H : x <= Hi
  BY <1>1, <1>2, <1>5
<1>7. Hi \in H
  <2>1. n \in 1..n
    BY <1>2
  <2> QED BY <1>1, <1>5, <2>1
<1>8. Max(H) = Hi
  BY <1>6, <1>7, MaxIs
<1> QED BY <1>8 DEF LatestHeight, H

\* A pass ends, well or not, or the process starts again.
LEMMA UEnd ==
  ASSUME CInv, UInv, Finish \/ PassFails \/ Restart
  PROVE  UInv'
<1> SUFFICES ASSUME reorgs = 0 PROVE UInv'
  BY DEF UInv, HeightInv, IndexInv, Finish, PassFails, Restart, counts
<1>1. /\ pass' = Idle /\ UNCHANGED <<chain, eu, lost, reorgs>>
  BY DEF Finish, PassFails, Restart, tables, counts
<1>2. meta.synced \in Nat /\ meta.last \in Int /\ meta.last >= -1 /\ Len(chain) \in Nat
  BY MetaFields DEF CInv, TInv, ChainOK
<1>3. \A h : UpTo(h)' = UpTo(h)
  BY <1>1 DEF UpTo
<1>4. pass # Idle =>
        /\ Lo(pass.from) \in Nat /\ Hi \in Nat /\ Hi < Len(chain) /\ pass.from <= Hi
        /\ Lo(pass.from) <= Hi /\ pass.from \in Nat /\ meta.synced = pass.from
        /\ meta.last >= Saved /\ meta.last >= Lo(pass.from) - 1
        /\ pass.step # "blocks" => meta.last >= Hi
  <2> SUFFICES ASSUME pass # Idle
               PROVE  /\ Lo(pass.from) \in Nat /\ Hi \in Nat /\ Hi < Len(chain) /\ pass.from <= Hi
                      /\ Lo(pass.from) <= Hi /\ pass.from \in Nat /\ meta.synced = pass.from
                      /\ meta.last >= Saved /\ meta.last >= Lo(pass.from) - 1
                      /\ pass.step # "blocks" => meta.last >= Hi
    OBVIOUS
  <2>1. /\ Lo(pass.from) \in Nat /\ Hi \in Nat /\ Hi < Len(chain) /\ pass.from <= Hi
        /\ Lo(pass.from) <= Hi /\ pass.from \in Nat
    BY PassSection
  <2>2. meta.synced = pass.from /\ meta.last >= Saved
    BY DEF UInv, HeightInv
  <2>3. CASE pass.step = "blocks"
    <3>1. pass.next \in Nat \ {0}
      BY <2>3 DEF CInv, TInv, PassOK, BlockStage, TxStage, AddrStage
    <3>2. Saved = Lo(pass.from) + pass.next - 2
      BY <2>3 DEF Saved
    <3>3. Lo(pass.from) \in Nat /\ meta.last \in Int /\ meta.last >= Saved
      BY <1>2, <2>1, <2>2
    <3>4. meta.last >= Lo(pass.from) - 1
      BY <3>1, <3>2, <3>3
    <3> QED BY <2>1, <2>2, <2>3, <3>4
  <2>4. CASE pass.step # "blocks"
    <3>1. Saved = Hi
      BY <2>4 DEF Saved
    <3> QED BY <1>2, <2>1, <2>2, <3>1
  <2> QED BY <2>3, <2>4
<1>5. CASE Finish
  <2>1. pass # Idle /\ pass.step = "addrs"
    BY <1>5 DEF Finish, Idle
  <2>2. meta'.synced = Hi /\ meta'.last = meta.last
    BY <1>5, <2>1, LatestIs DEF Finish, CInv, TInv, MetaOK
  <2>3. HeightInv'
    BY <1>1, <1>2, <1>4, <2>1, <2>2 DEF HeightInv, Lo
  <2>4. lost = 0 => eu = UpTo(Hi)
    BY <2>1 DEF UInv, IndexInv
  <2>5. Hi \in Hi..meta.last
    BY <1>2, <1>4, <2>1
  <2>6. IndexInv'
    BY <1>1, <1>3, <1>4, <2>1, <2>2, <2>4, <2>5 DEF IndexInv, Idle
  <2> QED BY <2>3, <2>6 DEF UInv
<1>6. CASE PassFails \/ Restart
  <2>1. meta' = meta
    BY <1>6, NothingMissing DEF PassFails, Restart, tables
  <2>2. HeightInv'
    BY <1>1, <1>4, <2>1 DEF UInv, HeightInv
  <2>3. ASSUME lost = 0, eu # {}
        PROVE  \E h \in meta.synced..meta.last : h < Len(chain) /\ eu = UpTo(h)
    <3>1. CASE pass = Idle
      BY <2>3, <3>1 DEF UInv, IndexInv
    <3>2. CASE pass.step \in {"blocks", "utxo"}
      <4>1. pass # Idle
        BY <3>2 DEF Idle
      <4>2. PICK h \in pass.from..meta.last : h <= Hi /\ eu = UpTo(h)
        BY <2>3, <3>2 DEF UInv, IndexInv
      <4>3. h \in meta.synced..meta.last /\ h < Len(chain)
        BY <1>2, <1>4, <4>1, <4>2
      <4> QED BY <4>2, <4>3
    <3>3. CASE pass.step \in {"txs", "addrs"}
      <4>1. pass # Idle
        BY <3>3 DEF Idle
      <4>2. eu = UpTo(Hi)
        BY <2>3, <3>3 DEF UInv, IndexInv
      <4>3. Hi \in meta.synced..meta.last /\ Hi < Len(chain)
        BY <1>2, <1>4, <3>3, <4>1
      <4> QED BY <4>2, <4>3
    <3> QED BY <3>1, <3>2, <3>3 DEF CInv, TInv, PassOK, BlockStage, TxStage, AddrStage
  <2>4. IndexInv'
    BY <1>1, <1>3, <2>1, <2>3 DEF IndexInv, Idle
  <2> QED BY <2>2, <2>4 DEF UInv
<1> QED BY <1>5, <1>6

\* Every step keeps the UTXO index.
LEMMA UNext == CInv /\ UInv /\ [Next]_vars => UInv'
<1> SUFFICES ASSUME CInv, UInv, [Next]_vars PROVE UInv'
  OBVIOUS
<1>1. CASE NodeExtends \/ NodeReorganizes
  BY <1>1, UNode
<1>2. CASE Fetch \/ FetchFails
  BY <1>2, UFetch
<1>3. CASE SaveBlock
  BY <1>3, UBlock
<1>4. CASE ApplyUtxoChanges \/ UtxoChangesLost
  BY <1>4, UUtxo
<1>5. CASE SaveTransaction
  <2>1. pass.step = "txs" /\ UNCHANGED <<chain, eu, lost, reorgs>>
    BY <1>5 DEF SaveTransaction, counts
  <2>2. meta'.synced = meta.synced /\ meta'.last = meta.last
    BY <1>5 DEF SaveTransaction, CInv, TInv, MetaOK
  <2>3. pass \in TxStage
    BY <2>1 DEF CInv, TInv, PassOK, BlockStage, AddrStage, Idle
  <2>4. /\ pass'.step \in {"txs", "addrs"} /\ pass'.from = pass.from /\ pass'.got = pass.got
    BY <1>5, <2>3 DEF SaveTransaction, TxStage
  <2> QED BY <2>1, <2>2, <2>4, UQuiet
<1>6. CASE Finish \/ PassFails \/ Restart
  BY <1>6, UEnd
<1>7. CASE \E a \in Address : SyncUpdates(a) \/ SyncSkips(a)
  <2>1. PICK a \in Address : SyncUpdates(a) \/ SyncSkips(a)
    BY <1>7
  <2>2. pass.step = "addrs" /\ pass' = [pass EXCEPT !.touched = @ \ {a}]
        /\ UNCHANGED <<chain, eu, meta, reorgs>>
    BY <2>1 DEF SyncUpdates, SyncSkips, tables, counts
  <2>3. lost' = lost \/ lost' # 0
    BY <2>1 DEF SyncUpdates, SyncSkips, counts, CInv, TInv, RestOK
  <2>4. pass \in AddrStage
    BY <2>2 DEF CInv, TInv, PassOK, BlockStage, TxStage, Idle
  <2>5. pass'.step = "addrs" /\ pass'.from = pass.from /\ pass'.got = pass.got
    BY <2>2, <2>4 DEF AddrStage
  <2> QED BY <2>2, <2>3, <2>5, UQuiet
<1>8. CASE \E a \in Queried : QueryAddress(a)
  BY <1>8, UQuiet DEF QueryAddress, tables, counts
<1>9. CASE \E p \in {"sync", "http"} : ReadAddressCount(p)
  BY <1>9, UQuiet DEF ReadAddressCount, tables, counts
<1>10. CASE \E p \in {"sync", "http"} : SaveAddressInfo(p)
  <2>1. UNCHANGED <<chain, eu, lost, reorgs, pass>>
    BY <1>10 DEF SaveAddressInfo
  <2>2. meta'.synced = meta.synced /\ meta'.last = meta.last
    BY <1>10 DEF SaveAddressInfo, CInv, TInv, MetaOK
  <2> QED BY <2>1, <2>2, UQuiet
<1>11. CASE UNCHANGED vars
  BY <1>11, UQuiet DEF vars
<1> QED BY <1>1, <1>2, <1>3, <1>4, <1>5, <1>6, <1>7, <1>8, <1>9, <1>10, <1>11
        DEF Next, SyncStep, HttpStep, FaultStep

\* The invariant holds.
LEMMA UHolds == Spec => [](CInv /\ UInv)
BY CInit, UInit, CNext, UNext, PTL DEF Spec

\* The two UTXO indexes agree, whatever fails and whatever the node does; and while the
\* node has not reorganized and no batch was lost they are the unspent outputs of its
\* chain up to a height between the last pass and the highest block stored: passes that
\* are cut short and repeated over a longer chain neither revive an output nor lose one.
THEOREM UtxoCorrect == Spec => []UtxoExact
<1>1. ASSUME CInv, UInv PROVE UtxoExact
  <2>1. eur = eu
    BY <1>1 DEF CInv, TInv, UtxoOK
  <2>2. ASSUME reorgs = 0, lost = 0, eu # {} PROVE \E h \in meta.synced..meta.last : eu = UpTo(h)
    <3>1. CASE pass = Idle
      BY <1>1, <2>2, <3>1 DEF UInv, IndexInv
    <3>2. CASE pass.step \in {"blocks", "utxo"}
      <4>1. pass # Idle
        BY <3>2 DEF Idle
      <4>2. meta.synced = pass.from
        BY <1>1, <2>2, <4>1 DEF UInv, HeightInv
      <4> QED BY <1>1, <2>2, <3>2, <4>2 DEF UInv, IndexInv
    <3>3. CASE pass.step \in {"txs", "addrs"}
      <4>1. pass # Idle
        BY <3>3 DEF Idle
      <4>2. meta.synced = pass.from /\ meta.last >= Hi /\ eu = UpTo(Hi)
        BY <1>1, <2>2, <3>3, <4>1 DEF UInv, HeightInv, IndexInv, Saved
      <4>3. Hi \in Nat /\ pass.from \in Nat /\ pass.from <= Hi /\ meta.last \in Int
        BY <1>1, <2>2, <4>1, PassSection, MetaFields DEF CInv
      <4>4. Hi \in meta.synced..meta.last
        BY <4>2, <4>3
      <4> QED BY <4>2, <4>4
    <3> QED BY <1>1, <3>1, <3>2, <3>3 DEF CInv, TInv, PassOK, BlockStage, TxStage, AddrStage
  <2> QED BY <2>1, <2>2 DEF UtxoExact, UpTo
<1> QED BY <1>1, UHolds, PTL

-----------------------------------------------------------------------------
(* The records of addresses *)

\* The addresses that transactions name.
NamesIn(T) == UNION {{From(t), Recipient(t)} : t \in T}

\* The record does not show what the UTXO keys give.
Stale(a) == addr[a].balance # BalanceOf(a)

\* The records that a pass wrote last, and with them those of an older version.
ByPass(a) == a \in DOMAIN addr /\ writer[a] = "sync" /\ Followed(a)
Watched(a) == a \in DOMAIN addr /\ writer[a] # "http" /\ Followed(a)

\* The records that RecordsFresh is about, and when it is about them.
Covered(a) == ByPass(a) \/ (reorgs = 0 /\ Watched(a))
Sound == lost = 0 /\ (reorgs = 0 \/ faults = 0)

\* Without a reorganization no block above the end of a pass is stored.
TopInv ==
  reorgs = 0 =>
    /\ meta.last < Len(chain)
    /\ pass # Idle => meta.last <= Hi

\* What a pass has computed is still right when it is written, and is for an address
\* that its transactions name.
TaskInv ==
  /\ upd["sync"] # Idle =>
       /\ pass.step = "addrs"
       /\ upd["sync"].info.balance = BalanceOf(upd["sync"].address)
       /\ upd["sync"].address \in NamesIn(TxsOf(pass.got))
  /\ pass.step \in {"txs", "addrs"} => pass.touched \subseteq NamesIn(TxsOf(pass.got))

\* The addresses of the transactions before the position of a pass are noted.
NotedInv ==
  pass.step = "txs" =>
    \A i \in 1..Len(pass.got) : \A j \in 1..Len(BlockTxs[pass.got[i]]) :
      i < pass.at[1] \/ (i = pass.at[1] /\ j < pass.at[2])
        => NamesIn({BlockTxs[pass.got[i]][j]}) \subseteq pass.touched

\* A pass will still write every record that its batch has made stale.
PendingInv ==
  Sound =>
    \A a \in Address : Covered(a) /\ Stale(a) =>
      /\ pass.step = "txs" => a \in NamesIn(TxsOf(pass.got))
      /\ pass.step = "addrs" =>
           a \in pass.touched \/ (upd["sync"] # Idle /\ a = upd["sync"].address)

\* Without a reorganization the next pass reads a block that names the address of a
\* stale record again.
AgainInv ==
  /\ reorgs = 0 =>
       \A a \in Address : Watched(a) => a \in NamesIn(TxsAt(1..(meta.last + 1)))
  /\ reorgs = 0 /\ lost = 0 /\ eu # {} =>
       \A a \in Address : Watched(a) /\ Stale(a) =>
         /\ meta.synced < meta.last
         /\ a \in NamesIn(TxsAt((Lo(meta.synced) + 1)..(meta.last + 1)))

\* A pass over the genesis block alone that is repeated changes nothing.
GenesisInv ==
  reorgs = 0 /\ lost = 0 /\ meta.last <= 0 /\ (\E a \in Address : Watched(a)) => eu = UpTo(0)

\* Without a fault no record of a pass is stale when the next one begins.
RightInv ==
  faults = 0 /\ lost = 0 /\ pass.step \notin {"txs", "addrs"} =>
    \A a \in Address : ByPass(a) => ~ Stale(a)

FInv == TopInv /\ TaskInv /\ NotedInv /\ PendingInv /\ AgainInv /\ GenesisInv /\ RightInv

\* Names of more transactions are more names.
LEMMA MoreNames ==
  ASSUME NEW T, NEW U, T \subseteq U
  PROVE  NamesIn(T) \subseteq NamesIn(U)
BY DEF NamesIn

\* An output that transactions create or spend is of an address that they name, if the
\* address is followed.
LEMMA Moved ==
  ASSUME NEW a, Followed(a), NEW T \in SUBSET Tx, NEW o \in Created(T) \cup Spent(T),
         Out(o).to = a
  PROVE  a \in NamesIn(T)
<1> DEFINE Moves(t) == Inputs[t] \cup {<<t, v>> : v \in DOMAIN Outputs[t]}
<1>1. PICK t \in T : o \in Moves(t)
  <2>1. CASE o \in Spent(T)
    BY <2>1 DEF Spent
  <2>2. CASE o \in Created(T)
    <3>1. o[1] \in T /\ o \in Outpoint
      BY <2>2 DEF Created
    <3>2. PICK t \in Tx : \E v \in DOMAIN Outputs[t] : o = <<t, v>>
      BY <3>1 DEF Outpoint
    <3>3. o[1] = t
      BY <3>2
    <3> QED BY <3>1, <3>2, <3>3
  <2> QED BY <2>1, <2>2
<1>2. t \in Tx /\ a \in {Out(x).to : x \in Moves(t)}
  BY <1>1
<1>3. a = Recipient(t) \/ (Inputs[t] # {} /\ a = Sender[t])
  BY <1>2 DEF Followed
<1> QED BY <1>1, <1>3 DEF NamesIn, From

\* The batch of a pass leaves the balance of every other followed address.
LEMMA BalanceKept ==
  ASSUME CInv, ApplyUtxoChanges, NEW a, Followed(a), a \notin NamesIn(TxsOf(pass.got))
  PROVE  BalanceOf(a)' = BalanceOf(a)
<1> DEFINE T == TxsOf(pass.got)
<1>1. T \in SUBSET Tx
  BY PassGot DEF ApplyUtxoChanges, Idle, CInv
<1>2. eu' = (eu \cup Created(T)) \ SpentKeys(T)
  BY DEF ApplyUtxoChanges
<1>3. \A o \in Created(T) \cup Spent(T) : Out(o).to # a
  BY <1>1, Moved
<1> HIDE DEF T
<1>4. {o \in eu' : Out(o).to = a} = {o \in eu : Out(o).to = a}
  BY <1>2, <1>3 DEF SpentKeys
<1> QED BY <1>4 DEF BalanceOf

\* Steps that touch neither the records nor the UTXO keys.
LEMMA SameRecords ==
  ASSUME UNCHANGED <<addr, writer, eu>>
  PROVE  \A a : /\ ByPass(a)' <=> ByPass(a)
                /\ Watched(a)' <=> Watched(a)
                /\ Stale(a)' <=> Stale(a)
                /\ BalanceOf(a)' = BalanceOf(a)
<1>1. \A a : BalanceOf(a)' = BalanceOf(a)
  BY DEF BalanceOf
<1>2. \A a : /\ ByPass(a)' <=> ByPass(a)
             /\ Watched(a)' <=> Watched(a)
  BY DEF ByPass, Watched
<1>3. \A a : Stale(a)' <=> Stale(a)
  BY <1>1 DEF Stale
<1> QED BY <1>1, <1>2, <1>3

\* The node extends its chain or goes over to another one.
LEMMA FNode ==
  ASSUME CInv, UInv, FInv, NodeExtends \/ NodeReorganizes
  PROVE  FInv'
<1>1. /\ UNCHANGED <<blocks, addr, writer, eu, meta, pass, upd, lost, faults>>
      /\ reorgs' = 0 => reorgs = 0 /\ NodeExtends
  BY DEF NodeExtends, NodeReorganizes, tables, counts, CInv, TInv, RestOK
<1>2. \A a : /\ ByPass(a)' <=> ByPass(a)
             /\ Watched(a)' <=> Watched(a)
             /\ Stale(a)' <=> Stale(a)
             /\ BalanceOf(a)' = BalanceOf(a)
  BY <1>1, SameRecords
<1>3. TaskInv' /\ NotedInv'
  BY <1>1, <1>2 DEF FInv, TaskInv, NotedInv
<1>4. RightInv'
  BY <1>1, <1>2 DEF FInv, RightInv
<1>5. PendingInv'
  <2>1. Sound' => Sound
    BY <1>1 DEF Sound
  <2>2. \A a : Covered(a)' => Covered(a)
    BY <1>1, <1>2 DEF Covered
  <2> QED BY <1>1, <1>2, <2>1, <2>2 DEF FInv, PendingInv
<1>6. TopInv' /\ AgainInv' /\ GenesisInv'
  <2> SUFFICES ASSUME reorgs' = 0 PROVE TopInv' /\ AgainInv' /\ GenesisInv'
    BY DEF TopInv, AgainInv, GenesisInv
  <2>1. /\ reorgs = 0 /\ Len(chain') = Len(chain) + 1
        /\ \A h \in Nat : h < Len(chain) => UpTo(h)' = UpTo(h)
        /\ \A I \in SUBSET (1..Len(chain)) : TxsAt(I)' = TxsAt(I)
    BY <1>1, Extended
  <2>2. /\ meta.last \in Int /\ Lo(meta.synced) \in Nat /\ Len(chain) \in Nat \ {0}
        /\ meta.last < Len(chain)
    BY <2>1, MetaFields DEF CInv, TInv, ChainOK, Lo, FInv, TopInv
  <2>3. Hi' = Hi
    BY <1>1 DEF Hi
  <2>4. TopInv'
    BY <1>1, <2>1, <2>2, <2>3 DEF FInv, TopInv
  <2>5. /\ TxsAt(1..(meta.last + 1))' = TxsAt(1..(meta.last + 1))
        /\ TxsAt((Lo(meta.synced) + 1)..(meta.last + 1))'
             = TxsAt((Lo(meta.synced) + 1)..(meta.last + 1))
    <3> DEFINE I == 1..(meta.last + 1)
               J == (Lo(meta.synced) + 1)..(meta.last + 1)
    <3>1. I \in SUBSET (1..Len(chain)) /\ J \in SUBSET (1..Len(chain))
      BY <2>2
    <3>2. I' = I /\ J' = J
      BY <1>1
    <3> HIDE DEF I, J
    <3>3. TxsAt(I)' = TxsAt(I) /\ TxsAt(J)' = TxsAt(J)
      BY <2>1, <3>1, <3>2
    <3> QED BY <3>3 DEF I, J
  <2>6. AgainInv'
    BY <1>1, <1>2, <2>1, <2>5 DEF FInv, AgainInv, NamesIn
  <2>7. UpTo(0)' = UpTo(0)
    BY <2>1, <2>2
  <2>8. GenesisInv'
    BY <1>1, <1>2, <2>1, <2>7 DEF FInv, GenesisInv
  <2> QED BY <2>4, <2>6, <2>8
<1> QED BY <1>3, <1>4, <1>5, <1>6 DEF FInv

\* A pass begins, or its request fails.
LEMMA FFetch ==
  ASSUME CInv, UInv, FInv, Fetch \/ FetchFails
  PROVE  FInv'
<1>1. /\ pass = Idle /\ UNCHANGED <<chain, addr, writer, eu, upd, lost, reorgs>>
      /\ meta'.synced = SyncedHeight /\ meta'.last = meta.last
      /\ faults' = 0 => faults = 0
      /\ \/ pass' = Idle
         \/ /\ Fetched # << >>
            /\ pass' = [step |-> "blocks", from |-> SyncedHeight, got |-> Fetched, next |-> 1]
  BY DEF Fetch, FetchFails, Fault, counts, CInv, TInv, MetaOK, RestOK
<1>2. pass.step = "idle" /\ pass'.step \in {"idle", "blocks"} /\ (pass' # Idle <=> pass'.step = "blocks")
  BY <1>1 DEF Idle
<1>3. \A a : /\ ByPass(a)' <=> ByPass(a)
             /\ Watched(a)' <=> Watched(a)
             /\ Stale(a)' <=> Stale(a)
  BY <1>1, SameRecords
<1>4. TaskInv' /\ NotedInv' /\ PendingInv'
  <2>1. upd["sync"] = Idle
    BY <1>2 DEF FInv, TaskInv
  <2> QED BY <1>1, <1>2, <2>1 DEF TaskInv, NotedInv, PendingInv
<1>5. RightInv'
  BY <1>1, <1>2, <1>3 DEF FInv, RightInv
<1>6. TopInv'
  <2>1. reorgs = 0 => meta.last < Len(chain) /\ meta.last \in Int /\ Len(chain) \in Nat
    BY MetaFields DEF FInv, TopInv, CInv, TInv, ChainOK
  <2>2. pass' # Idle => Hi' = Len(chain) - 1
    BY <1>1, FetchEnds
  <2> QED BY <1>1, <2>1, <2>2 DEF TopInv
<1>7. \A I : TxsAt(I)' = TxsAt(I)
  BY <1>1 DEF TxsAt
<1>8. AgainInv'
  <2>1. eu # {} => meta'.synced = meta.synced
    BY <1>1 DEF SyncedHeight
  <2> QED BY <1>1, <1>3, <1>7, <2>1 DEF FInv, AgainInv, NamesIn, TxsAt, Lo
<1>9. GenesisInv'
  <2>1. UpTo(0)' = UpTo(0)
    BY <1>1 DEF UpTo
  <2> QED BY <1>1, <1>3, <2>1 DEF FInv, GenesisInv
<1> QED BY <1>4, <1>5, <1>6, <1>8, <1>9 DEF FInv

\* save_block.
LEMMA FBlock ==
  ASSUME CInv, UInv, FInv, SaveBlock
  PROVE  FInv'
<1> DEFINE h == HeightOf(pass.got[pass.next])
<1>1. /\ pass.step = "blocks" /\ UNCHANGED <<chain, addr, writer, eu, upd, lost, reorgs, faults>>
      /\ pass' = IF pass.next < Len(pass.got) THEN [pass EXCEPT !.next = @ + 1]
                 ELSE [pass EXCEPT !.step = "utxo"]
  BY DEF SaveBlock, counts
<1>2. meta'.synced = meta.synced /\ meta'.last = IF h >= meta.last THEN h ELSE meta.last
  BY DEF SaveBlock, CInv, TInv, MetaOK
<1>3. pass \in BlockStage /\ pass # Idle
  BY <1>1 DEF CInv, TInv, PassOK, TxStage, AddrStage, Idle
<1>4. /\ pass'.from = pass.from /\ pass'.got = pass.got /\ pass'.step \in {"blocks", "utxo"}
      /\ pass' # Idle
  BY <1>1, <1>3 DEF BlockStage, Idle
<1>5. \A a : /\ ByPass(a)' <=> ByPass(a)
             /\ Watched(a)' <=> Watched(a)
             /\ Stale(a)' <=> Stale(a)
  BY <1>1, SameRecords
<1>6. TaskInv' /\ NotedInv' /\ PendingInv'
  <2>1. upd["sync"] = Idle
    BY <1>1 DEF FInv, TaskInv
  <2> QED BY <1>1, <1>4, <2>1 DEF TaskInv, NotedInv, PendingInv
<1>7. RightInv'
  BY <1>1, <1>5 DEF FInv, RightInv
<1>8. TopInv' /\ AgainInv' /\ GenesisInv'
  <2> SUFFICES ASSUME reorgs = 0 PROVE TopInv' /\ AgainInv' /\ GenesisInv'
    BY <1>1 DEF TopInv, AgainInv, GenesisInv
  <2>1. /\ h \in Int /\ h <= Hi /\ Hi \in Nat /\ meta.last \in Int
    <3>1. /\ Lo(pass.from) \in Nat /\ Hi = Lo(pass.from) + Len(pass.got) - 1
          /\ Len(pass.got) \in Nat /\ pass.next \in 1..Len(pass.got) /\ meta.last \in Int
          /\ h = Lo(pass.from) + pass.next - 1
      BY <1>1, NextHeight
    <3> DEFINE l == Lo(pass.from)
               n == Len(pass.got)
               k == pass.next
    <3>2. l \in Nat /\ n \in Nat /\ k \in 1..n /\ Hi = l + n - 1 /\ h = l + k - 1
      BY <3>1
    <3> HIDE DEF h, l, n, k
    <3>3. h \in Int /\ h <= Hi /\ Hi \in Nat
      BY <3>2
    <3> QED BY <3>1, <3>3
  <2>2. Hi < Len(chain) /\ Len(chain) \in Nat
    BY <1>3, PassSection DEF CInv, TInv, ChainOK
  <2> HIDE DEF h
  <2>3. meta.last <= Hi
    BY <1>3 DEF FInv, TopInv
  <2>4. meta'.last \in Int /\ meta.last <= meta'.last /\ meta'.last <= Hi
    BY <1>2, <2>1, <2>3
  <2>5. Hi' = Hi
    BY <1>4 DEF Hi
  <2>6. TopInv'
    BY <1>1, <2>1, <2>2, <2>4, <2>5 DEF TopInv
  <2>7. /\ NamesIn(TxsAt(1..(meta.last + 1))) \subseteq NamesIn(TxsAt(1..(meta.last + 1)))'
        /\ NamesIn(TxsAt((Lo(meta.synced) + 1)..(meta.last + 1)))
             \subseteq NamesIn(TxsAt((Lo(meta.synced) + 1)..(meta.last + 1)))'
    <3>1. ASSUME NEW k \in Int
          PROVE  NamesIn(TxsAt(k..(meta.last + 1))) \subseteq NamesIn(TxsAt(k..(meta'.last + 1)))
      <4>1. k..(meta.last + 1) \subseteq k..(meta'.last + 1)
        BY <2>1, <2>4
      <4>2. TxsAt(k..(meta.last + 1)) \subseteq TxsAt(k..(meta'.last + 1))
        BY <4>1 DEF TxsAt
      <4> QED BY <4>2, MoreNames
    <3>2. \A I : NamesIn(TxsAt(I))' = NamesIn(TxsAt(I))
      BY <1>1 DEF TxsAt, NamesIn
    <3>3. Lo(meta.synced) + 1 \in Int /\ 1 \in Int
      BY MetaFields DEF CInv, Lo
    <3>4. (Lo(meta.synced) + 1)' = Lo(meta.synced) + 1
      BY <1>2 DEF Lo
    <3>5. NamesIn(TxsAt(1..(meta.last + 1)))' = NamesIn(TxsAt(1..(meta'.last + 1)))
      BY <1>1 DEF TxsAt, NamesIn
    <3>6. NamesIn(TxsAt((Lo(meta.synced) + 1)..(meta.last + 1)))'
            = NamesIn(TxsAt((Lo(meta.synced) + 1)..(meta'.last + 1)))
      BY <1>1, <3>4 DEF TxsAt, NamesIn
    <3> QED BY <3>1, <3>3, <3>5, <3>6
  <2>8. AgainInv'
    <3>1. meta.synced \in Nat
      BY MetaFields DEF CInv
    <3>2. ASSUME NEW a \in Address, Watched(a)' PROVE a \in NamesIn(TxsAt(1..(meta.last + 1)))'
      <4>1. a \in NamesIn(TxsAt(1..(meta.last + 1)))
        BY <1>5, <3>2 DEF FInv, AgainInv
      <4> QED BY <2>7, <4>1
    <3>3. ASSUME lost = 0, eu # {}, NEW a \in Address, Watched(a)', Stale(a)'
          PROVE  /\ meta'.synced < meta'.last
                 /\ a \in NamesIn(TxsAt((Lo(meta.synced) + 1)..(meta.last + 1)))'
      <4>1. /\ meta.synced < meta.last
            /\ a \in NamesIn(TxsAt((Lo(meta.synced) + 1)..(meta.last + 1)))
        BY <1>5, <3>3 DEF FInv, AgainInv
      <4>2. meta'.synced < meta'.last
        BY <1>2, <2>1, <2>4, <3>1, <4>1
      <4> QED BY <2>7, <4>1, <4>2
    <3> QED BY <1>1, <3>2, <3>3 DEF AgainInv
  <2>9. GenesisInv'
    <3>1. UpTo(0)' = UpTo(0)
      BY <1>1 DEF UpTo
    <3>2. meta'.last <= 0 => meta.last <= 0
      BY <2>1, <2>4
    <3> QED BY <1>1, <1>5, <3>1, <3>2 DEF FInv, GenesisInv
  <2> QED BY <2>6, <2>8, <2>9
<1> QED BY <1>6, <1>7, <1>8 DEF FInv

\* The UTXO batch makes only records of addresses stale that the pass will name.
LEMMA FUtxo ==
  ASSUME CInv, UInv, FInv, ApplyUtxoChanges \/ UtxoChangesLost, UInv'
  PROVE  FInv'
<1> DEFINE T == TxsOf(pass.got)
<1>1. /\ pass.step = "utxo" /\ pass # Idle /\ UNCHANGED <<chain, addr, writer, meta, upd, reorgs>>
      /\ pass' = [step |-> "txs", from |-> pass.from, got |-> pass.got, at |-> <<1, 1>>,
                  touched |-> {}]
  BY DEF ApplyUtxoChanges, UtxoChangesLost, ToTransactions, tables, counts, Idle
<1>2. /\ pass'.step = "txs" /\ pass'.got = pass.got /\ pass'.from = pass.from /\ pass' # Idle
      /\ pass'.at = <<1, 1>> /\ pass'.touched = {}
  BY <1>1 DEF Idle
<1>3. \A a : (ByPass(a)' <=> ByPass(a)) /\ (Watched(a)' <=> Watched(a))
  BY <1>1 DEF ByPass, Watched
<1>4. TaskInv' /\ NotedInv'
  <2>1. upd["sync"] = Idle
    BY <1>1 DEF FInv, TaskInv
  <2>2. TaskInv'
    BY <1>1, <1>2, <2>1 DEF TaskInv
  <2>3. \A i, j \in Nat \ {0} : ~ (i < 1 \/ (i = 1 /\ j < 1))
    OBVIOUS
  <2>4. NotedInv'
    BY <1>2, <2>3 DEF NotedInv
  <2> QED BY <2>2, <2>4
<1>5. RightInv'
  BY <1>2 DEF RightInv
<1>6. reorgs = 0 =>
        /\ meta.synced = pass.from /\ meta.last = Hi /\ Hi \in Nat /\ Hi < Len(chain)
        /\ Lo(pass.from) <= Hi /\ pass.from \in Nat /\ Lo(pass.from) \in Nat
        /\ T = TxsAt((Lo(meta.synced) + 1)..(meta.last + 1))
  <2> SUFFICES ASSUME reorgs = 0
               PROVE  /\ meta.synced = pass.from /\ meta.last = Hi /\ Hi \in Nat
                      /\ Hi < Len(chain) /\ Lo(pass.from) <= Hi /\ pass.from \in Nat
                      /\ Lo(pass.from) \in Nat
                      /\ T = TxsAt((Lo(meta.synced) + 1)..(meta.last + 1))
    OBVIOUS
  <2>1. /\ Hi \in Nat /\ Hi < Len(chain) /\ Lo(pass.from) <= Hi /\ pass.from \in Nat
        /\ Lo(pass.from) \in Nat /\ T = TxsAt((Lo(pass.from) + 1)..(Hi + 1))
    BY <1>1, PassSection
  <2>2. meta.synced = pass.from /\ meta.last >= Hi
    BY <1>1 DEF UInv, HeightInv, Saved
  <2>3. meta.last <= Hi /\ meta.last \in Int
    BY <1>1, MetaFields DEF FInv, TopInv, CInv
  <2>4. meta.last = Hi
    BY <2>1, <2>2, <2>3
  <2> QED BY <2>1, <2>2, <2>4
<1> HIDE DEF T
<1>7. TopInv'
  <2>1. Hi' = Hi
    BY <1>2 DEF Hi
  <2> QED BY <1>1, <1>2, <2>1 DEF FInv, TopInv
<1>8. \A I : NamesIn(TxsAt(I))' = NamesIn(TxsAt(I))
  BY <1>1 DEF NamesIn, TxsAt
<1>9. /\ NamesIn(TxsAt(1..(meta.last + 1)))' = NamesIn(TxsAt(1..(meta.last + 1)))
      /\ NamesIn(TxsAt((Lo(meta.synced) + 1)..(meta.last + 1)))'
           = NamesIn(TxsAt((Lo(meta.synced) + 1)..(meta.last + 1)))
  BY <1>1 DEF NamesIn, TxsAt
<1>10. CASE UtxoChangesLost
  <2>1. lost' # 0
    BY <1>10 DEF UtxoChangesLost, CInv, TInv, RestOK
  <2>2. PendingInv' /\ GenesisInv'
    BY <2>1 DEF PendingInv, Sound, GenesisInv
  <2>3. AgainInv'
    BY <1>1, <1>3, <1>9, <2>1 DEF FInv, AgainInv
  <2> QED BY <1>4, <1>5, <1>7, <2>2, <2>3 DEF FInv
<1>11. CASE ApplyUtxoChanges
  <2>1. UNCHANGED <<lost, faults>>
    BY <1>11 DEF ApplyUtxoChanges, counts
  \* A record whose address the pass does not name was stale before; that cannot be.
  <2>2. ASSUME Sound, NEW a \in Address, Covered(a), Stale(a)' PROVE a \in NamesIn(T)
    <3> SUFFICES ASSUME a \notin NamesIn(T) PROVE FALSE
      OBVIOUS
    <3>1. Followed(a)
      BY <2>2 DEF Covered, ByPass, Watched
    <3>2. BalanceOf(a)' = BalanceOf(a)
      BY <1>11, <3>1, BalanceKept DEF T
    <3>3. Stale(a)
      BY <1>1, <2>2, <3>2 DEF Stale
    <3>4. CASE reorgs = 0
      <4>1. Watched(a) /\ lost = 0
        BY <2>2, <3>4 DEF Covered, ByPass, Watched, Sound
      <4>2. CASE eu # {}
        BY <1>6, <3>3, <3>4, <4>1, <4>2 DEF FInv, AgainInv
      <4>3. CASE eu = {}
        <5>1. pass.from = 0
          BY <1>1, <3>4, <4>1, <4>3 DEF UInv, IndexInv
        <5>2. T = TxsAt(1..(meta.last + 1))
          BY <1>6, <3>4, <5>1 DEF Lo
        <5> QED BY <3>4, <4>1, <5>2 DEF FInv, AgainInv
      <4> QED BY <4>2, <4>3
    <3>5. CASE reorgs # 0
      <4>1. ByPass(a) /\ faults = 0 /\ lost = 0
        BY <2>2, <3>5 DEF Covered, Sound
      <4> QED BY <1>1, <3>3, <4>1 DEF FInv, RightInv
    <3> QED BY <3>4, <3>5
  <2>3. PendingInv'
    <3>1. Sound' => Sound
      BY <1>1, <2>1 DEF Sound
    <3>2. \A a : Covered(a)' => Covered(a)
      BY <1>1, <1>3 DEF Covered
    <3>3. NamesIn(TxsOf(pass.got))' = NamesIn(T)
      BY <1>2 DEF T
    <3> QED BY <1>2, <2>2, <3>1, <3>2, <3>3 DEF PendingInv
  <2>4. reorgs = 0 /\ lost = 0 => eu' = UpTo(Hi)
    <3>1. Hi' = Hi /\ UpTo(Hi)' = UpTo(Hi)
      BY <1>1, <1>2 DEF Hi, UpTo
    <3> QED BY <1>1, <1>2, <2>1, <3>1 DEF UInv, IndexInv
  <2>5. GenesisInv'
    <3> SUFFICES ASSUME reorgs = 0, lost = 0, meta.last <= 0 PROVE eu' = UpTo(0)'
      BY <1>1, <2>1 DEF GenesisInv
    <3>1. Hi = 0
      BY <1>6
    <3>2. UpTo(0)' = UpTo(0)
      BY <1>1 DEF UpTo
    <3> QED BY <2>4, <3>1, <3>2
  <2>6. AgainInv'
    <3>1. ASSUME reorgs = 0, NEW a \in Address, Watched(a)
          PROVE  a \in NamesIn(TxsAt(1..(meta.last + 1)))
      BY <3>1 DEF FInv, AgainInv
    <3>2. ASSUME reorgs = 0, lost = 0, eu' # {}, NEW a \in Address, Watched(a), Stale(a)'
          PROVE  /\ meta.synced < meta.last
                 /\ a \in NamesIn(TxsAt((Lo(meta.synced) + 1)..(meta.last + 1)))
      <4>1. a \in NamesIn(T)
        BY <2>2, <3>2 DEF Sound, Covered
      <4>2. meta.synced < meta.last
        <5>1. CASE pass.from # 0
          BY <1>6, <3>2, <5>1 DEF Lo
        <5>2. CASE Hi # 0 /\ pass.from = 0
          BY <1>6, <3>2, <5>2
        <5>3. CASE Hi = 0
          <6>1. eu = UpTo(0)
            BY <1>6, <3>2, <5>3 DEF FInv, GenesisInv
          <6>2. eu' = eu
            BY <2>4, <3>2, <5>3, <6>1
          <6>3. Stale(a)
            BY <1>1, <3>2, <6>2 DEF Stale, BalanceOf
          <6> QED BY <3>2, <6>2, <6>3 DEF FInv, AgainInv
        <5> QED BY <5>1, <5>2, <5>3
      <4> QED BY <1>6, <3>2, <4>1, <4>2
    <3> QED BY <1>1, <1>3, <1>9, <2>1, <3>1, <3>2 DEF AgainInv
  <2> QED BY <1>4, <1>5, <1>7, <2>3, <2>5, <2>6 DEF FInv
<1> QED BY <1>10, <1>11

\* Steps that concern neither the UTXO keys nor the blocks keep what is said of both.
LEMMA SameBlocks ==
  ASSUME FInv, UNCHANGED <<chain, addr, writer, eu, reorgs>>, lost' = lost \/ lost' # 0,
         meta'.synced = meta.synced, meta'.last = meta.last
  PROVE  AgainInv' /\ GenesisInv'
<1>1. \A a : /\ Watched(a)' <=> Watched(a)
             /\ Stale(a)' <=> Stale(a)
  BY SameRecords
<1>2. AgainInv'
  BY <1>1 DEF FInv, AgainInv, NamesIn, TxsAt, Lo
<1>3. UpTo(0)' = UpTo(0)
  BY DEF UpTo
<1>4. GenesisInv'
  BY <1>1, <1>3 DEF FInv, GenesisInv
<1> QED BY <1>2, <1>4

\* save_transaction: its addresses are noted, and after the last one those of the pass.
LEMMA FTx ==
  ASSUME CInv, UInv, FInv, SaveTransaction
  PROVE  FInv'
<1> DEFINE got == pass.got
           at == pass.at
           b == TxAt(got, at)[1]
           t == TxAt(got, at)[2]
           next == After(got, at)
           info == TransactionInfo(b, t, TxsOf(got))
           touched == pass.touched \cup Touches(info)
           n(i) == Len(BlockTxs[got[i]])
           Tx1(i, j) == BlockTxs[got[i]][j]
<1>1. /\ pass.step = "txs"
      /\ pass' = IF next[1] <= Len(got) THEN [pass EXCEPT !.at = next, !.touched = touched]
                 ELSE [step |-> "addrs", from |-> pass.from, got |-> got, touched |-> touched]
      /\ UNCHANGED <<chain, addr, writer, eu, upd, lost, reorgs, faults>>
  BY DEF SaveTransaction, counts
<1>2. meta'.synced = meta.synced /\ meta'.last = meta.last
  BY DEF SaveTransaction, CInv, TInv, MetaOK
<1>3. /\ pass \in TxStage /\ pass # Idle
      /\ at[1] \in 1..Len(got) /\ at[2] \in 1..n(at[1])
  BY <1>1 DEF CInv, TInv, PassOK, BlockStage, AddrStage, Idle
<1>4. b = got[at[1]] /\ b \in Block /\ t \in TxsIn(b) /\ t \in Tx
  BY <1>3, Positions DEF CInv
<1>5. t = Tx1(at[1], at[2])
  BY DEF TxAt
<1>6. Touches(info) = NamesIn({t})
  <2>1. Touches(info) = {From(t), Recipient(t)}
    BY <1>4, InfoTyped
  <2> QED BY <2>1 DEF NamesIn
<1>7. /\ got \in Seq(Block) /\ Len(got) \in Nat \ {0} /\ DOMAIN got = 1..Len(got)
      /\ \A i \in 1..Len(got) : got[i] \in Block /\ n(i) \in Nat \ {0} /\ DOMAIN BlockTxs[got[i]] = 1..n(i)
  <2>1. got \in Seq(Block) /\ Len(got) \in Nat \ {0} /\ DOMAIN got = 1..Len(got)
    BY <1>3, PassGot DEF CInv
  <2>2. \A i \in 1..Len(got) : got[i] \in Block
    BY <2>1
  <2> QED BY <2>1, <2>2, Typed
<1>8. at[1] \in 1..Len(got) /\ at[2] \in 1..n(at[1]) /\ next = IF at[2] < n(at[1]) THEN <<at[1], at[2] + 1>> ELSE <<at[1] + 1, 1>>
  BY <1>3, <1>4 DEF After
<1>9. \A i \in 1..Len(got) : \A j \in 1..n(i) :
        i < at[1] \/ (i = at[1] /\ j < at[2]) => NamesIn({Tx1(i, j)}) \subseteq pass.touched
  BY <1>1 DEF FInv, NotedInv
<1>10. /\ pass'.from = pass.from /\ pass'.got = got /\ pass'.touched = touched /\ pass' # Idle
       /\ IF next[1] <= Len(got) THEN pass'.step = "txs" /\ pass'.at = next
          ELSE pass'.step = "addrs"
  BY <1>1, <1>3 DEF TxStage, Idle
<1> HIDE DEF got, at, b, t, next, info, touched, n, Tx1
\* The positions up to the next one.
<1>11. \A i \in 1..Len(got) : \A j \in 1..n(i) :
         i < next[1] \/ (i = next[1] /\ j < next[2]) => NamesIn({Tx1(i, j)}) \subseteq touched
  <2> SUFFICES ASSUME NEW i \in 1..Len(got), NEW j \in 1..n(i),
                      i < next[1] \/ (i = next[1] /\ j < next[2])
               PROVE  NamesIn({Tx1(i, j)}) \subseteq touched
    OBVIOUS
  <2>1. n(i) \in Nat /\ n(at[1]) \in Nat
    BY <1>7, <1>8
  <2>2. i < at[1] \/ (i = at[1] /\ j < at[2]) \/ (i = at[1] /\ j = at[2])
    <3>1. CASE at[2] < n(at[1])
      <4>1. next[1] = at[1] /\ next[2] = at[2] + 1
        BY <1>8, <3>1
      <4> QED BY <1>7, <1>8, <2>1, <4>1
    <3>2. CASE ~ (at[2] < n(at[1]))
      <4>1. next[1] = at[1] + 1 /\ next[2] = 1
        BY <1>8, <3>2
      <4>2. at[2] = n(at[1])
        BY <1>8, <2>1, <3>2
      <4> QED BY <1>7, <1>8, <2>1, <4>1, <4>2
    <3> QED BY <3>1, <3>2
  <2>3. CASE i = at[1] /\ j = at[2]
    BY <1>5, <1>6, <2>3 DEF touched
  <2>4. CASE i < at[1] \/ (i = at[1] /\ j < at[2])
    BY <1>9, <2>4 DEF touched
  <2> QED BY <2>2, <2>3, <2>4
<1>12. touched \subseteq NamesIn(TxsOf(got))
  <2>1. pass.touched \subseteq NamesIn(TxsOf(got))
    BY <1>1 DEF FInv, TaskInv, got
  <2>2. t \in TxsOf(got)
    BY <1>4, <1>7, <1>8 DEF TxsOf
  <2>3. NamesIn({t}) \subseteq NamesIn(TxsOf(got))
    BY <2>2, MoreNames
  <2> QED BY <1>6, <2>1, <2>3 DEF touched
<1>13. ~ (next[1] <= Len(got)) => NamesIn(TxsOf(got)) \subseteq touched
  <2> SUFFICES ASSUME ~ (next[1] <= Len(got)), NEW a \in NamesIn(TxsOf(got)) PROVE a \in touched
    OBVIOUS
  <2>1. PICK x \in TxsOf(got) : a \in NamesIn({x})
    BY DEF NamesIn
  <2>2. PICK i \in 1..Len(got) : x \in TxsIn(got[i])
    BY <1>7 DEF TxsOf
  <2>3. PICK j \in 1..n(i) : x = Tx1(i, j)
    BY <1>7, <2>2 DEF TxsIn, Range, Tx1
  <2>4. i < next[1]
    BY <1>7, <1>8
  <2> QED BY <1>11, <2>1, <2>3, <2>4
<1>14. \A a : /\ ByPass(a)' <=> ByPass(a)
              /\ Watched(a)' <=> Watched(a)
              /\ Stale(a)' <=> Stale(a)
  BY <1>1, SameRecords
<1>15. TaskInv'
  <2>1. upd["sync"] = Idle
    BY <1>1 DEF FInv, TaskInv
  <2> QED BY <1>1, <1>10, <1>12, <2>1 DEF TaskInv
<1>16. NotedInv'
  BY <1>10, <1>11 DEF NotedInv, n, Tx1
<1>17. PendingInv'
  <2>1. Sound' => Sound
    BY <1>1 DEF Sound
  <2>2. \A a : Covered(a)' => Covered(a)
    BY <1>1, <1>14 DEF Covered
  <2>3. ASSUME Sound, NEW a \in Address, Covered(a), Stale(a) PROVE a \in NamesIn(TxsOf(got))
    BY <1>1, <2>3 DEF FInv, PendingInv, got
  <2>4. TxsOf(pass.got)' = TxsOf(got)
    BY <1>10
  <2>5. ASSUME Sound', NEW a \in Address, Covered(a)', Stale(a)'
        PROVE  /\ pass'.step = "txs" => a \in NamesIn(TxsOf(pass.got))'
               /\ pass'.step = "addrs" => a \in pass'.touched
    <3>1. a \in NamesIn(TxsOf(got))
      BY <1>14, <2>1, <2>2, <2>3, <2>5
    <3> QED BY <1>10, <1>13, <2>4, <3>1 DEF NamesIn
  <2> QED BY <2>5 DEF PendingInv
<1>18. TopInv'
  <2>1. Hi' = Hi
    BY <1>10 DEF Hi, got
  <2> QED BY <1>1, <1>2, <1>3, <2>1 DEF FInv, TopInv
<1>19. RightInv'
  BY <1>10 DEF RightInv
<1>20. AgainInv' /\ GenesisInv'
  BY <1>1, <1>2, SameBlocks
<1> QED BY <1>15, <1>16, <1>17, <1>18, <1>19, <1>20 DEF FInv

\* A pass ends, well or not, or the process starts again.
LEMMA FEnd ==
  ASSUME CInv, UInv, FInv, Finish \/ PassFails \/ Restart
  PROVE  FInv'
<1>1. pass' = Idle /\ UNCHANGED <<chain, addr, writer, eu, lost, reorgs>> /\ pass'.step = "idle"
  BY DEF Finish, PassFails, Restart, tables, counts, Idle
<1>2. \A a : /\ ByPass(a)' <=> ByPass(a)
             /\ Watched(a)' <=> Watched(a)
             /\ Stale(a)' <=> Stale(a)
  BY <1>1, SameRecords
<1>3. TaskInv' /\ NotedInv' /\ PendingInv'
  <2>1. upd'["sync"] = Idle
    BY DEF Finish, PassFails, Restart
  <2> QED BY <1>1, <2>1 DEF TaskInv, NotedInv, PendingInv
<1>4. CASE PassFails \/ Restart
  <2>1. meta' = meta
    BY <1>4, NothingMissing DEF PassFails, Restart, tables
  <2>2. faults' # 0
    BY <1>4 DEF PassFails, Restart, Fault, CInv, TInv, RestOK
  <2>3. TopInv' /\ RightInv'
    BY <1>1, <2>1, <2>2 DEF FInv, TopInv, RightInv
  <2>4. AgainInv' /\ GenesisInv'
    BY <1>1, <2>1, SameBlocks
  <2> QED BY <1>3, <2>3, <2>4 DEF FInv
<1>5. CASE Finish
  <2>1. /\ pass.step = "addrs" /\ pass.touched = {} /\ upd["sync"] = Idle /\ faults' = faults
        /\ pass # Idle
    BY <1>5 DEF Finish, counts, Idle
  <2>2. meta'.last = meta.last /\ (reorgs = 0 => meta'.synced = Hi)
    BY <1>5, <2>1, LatestIs DEF Finish, CInv, TInv, MetaOK
  <2>3. ASSUME Sound, NEW a \in Address, Covered(a) PROVE ~ Stale(a)
    BY <2>1, <2>3 DEF FInv, PendingInv
  <2>4. TopInv'
    BY <1>1, <2>2 DEF FInv, TopInv
  <2>5. RightInv'
    BY <1>1, <1>2, <2>1, <2>3 DEF RightInv, Sound, Covered
  <2>6. AgainInv'
    <3>1. NamesIn(TxsAt(1..(meta.last + 1)))' = NamesIn(TxsAt(1..(meta.last + 1)))
      BY <1>1, <2>2 DEF NamesIn, TxsAt
    <3>2. \A a \in Address : reorgs = 0 /\ lost = 0 /\ Watched(a) => ~ Stale(a)
      BY <2>3 DEF Sound, Covered
    <3> QED BY <1>1, <1>2, <3>1, <3>2 DEF FInv, AgainInv
  <2>7. GenesisInv'
    <3>1. UpTo(0)' = UpTo(0)
      BY <1>1 DEF UpTo
    <3> QED BY <1>1, <1>2, <2>2, <3>1 DEF FInv, GenesisInv
  <2> QED BY <1>3, <2>4, <2>5, <2>6, <2>7 DEF FInv
<1> QED BY <1>4, <1>5

\* The record of an address is computed, by the pass or for a request, or skipped.
LEMMA FCompute ==
  ASSUME CInv, UInv, FInv, NEW a \in Address, SyncUpdates(a) \/ SyncSkips(a) \/ QueryAddress(a)
  PROVE  FInv'
<1>1. /\ UNCHANGED <<chain, addr, writer, eu, meta, reorgs>> /\ (lost' = lost \/ lost' # 0)
      /\ (faults' = 0 => faults = 0)
  BY DEF SyncUpdates, SyncSkips, QueryAddress, Fault, tables, counts, CInv, TInv, RestOK
<1>2. \A x : /\ ByPass(x)' <=> ByPass(x)
             /\ Watched(x)' <=> Watched(x)
             /\ Stale(x)' <=> Stale(x)
             /\ BalanceOf(x)' = BalanceOf(x)
  BY <1>1, SameRecords
<1>3. AgainInv' /\ GenesisInv'
  BY <1>1, SameBlocks
<1>4. (Sound' => Sound) /\ \A x : Covered(x)' => Covered(x)
  BY <1>1, <1>2 DEF Sound, Covered, SyncSkips
<1>5. CASE QueryAddress(a)
  <2>1. pass' = pass /\ upd'["sync"] = upd["sync"] /\ lost' = lost
    BY <1>5 DEF QueryAddress, counts, CInv, TInv, UpdOK
  <2>2. TaskInv' /\ NotedInv'
    BY <1>2, <2>1 DEF FInv, TaskInv, NotedInv
  <2>3. PendingInv'
    BY <1>2, <1>4, <2>1 DEF FInv, PendingInv
  <2>4. TopInv' /\ RightInv'
    BY <1>1, <1>2, <2>1 DEF FInv, TopInv, RightInv, Hi
  <2> QED BY <1>3, <2>2, <2>3, <2>4 DEF FInv
<1>6. CASE SyncUpdates(a) \/ SyncSkips(a)
  <2>1. /\ pass.step = "addrs" /\ a \in pass.touched /\ upd["sync"] = Idle
        /\ pass' = [pass EXCEPT !.touched = @ \ {a}]
    BY <1>6 DEF SyncUpdates, SyncSkips
  <2>2. pass \in AddrStage /\ pass # Idle
    BY <2>1 DEF CInv, TInv, PassOK, BlockStage, TxStage, Idle
  <2>3. /\ pass'.step = "addrs" /\ pass'.from = pass.from /\ pass'.got = pass.got
        /\ pass'.touched = pass.touched \ {a} /\ pass' # Idle
    BY <2>1, <2>2 DEF AddrStage, Idle
  <2>4. TopInv' /\ NotedInv' /\ RightInv'
    <3>1. Hi' = Hi
      BY <2>3 DEF Hi
    <3> QED BY <1>1, <2>2, <2>3, <3>1 DEF FInv, TopInv, NotedInv, RightInv
  <2>5. pass.touched \subseteq NamesIn(TxsOf(pass.got))
    BY <2>1 DEF FInv, TaskInv
  <2>6. NamesIn(TxsOf(pass.got))' = NamesIn(TxsOf(pass.got))
    BY <2>3
  <2>7. CASE SyncSkips(a)
    <3>1. lost' # 0 /\ upd' = upd
      BY <2>7 DEF SyncSkips, CInv, TInv, RestOK
    <3>2. PendingInv'
      BY <3>1 DEF PendingInv, Sound
    <3>3. TaskInv'
      BY <2>1, <2>3, <2>5, <2>6, <3>1 DEF TaskInv
    <3> QED BY <1>3, <2>4, <3>2, <3>3 DEF FInv
  <2>8. CASE SyncUpdates(a)
    <3>1. upd'["sync"] = [step |-> "computed", address |-> a, info |-> AddressInfo(a)]
      BY <2>8 DEF SyncUpdates, CInv, TInv, UpdOK
    <3>2. /\ upd'["sync"] # Idle /\ upd'["sync"].address = a
          /\ upd'["sync"].info.balance = BalanceOf(a)
      BY <3>1 DEF Idle, AddressInfo
    <3>3. BalanceOf(upd["sync"].address)' = BalanceOf(a)
      BY <1>1, <3>2 DEF BalanceOf
    <3>4. TaskInv'
      BY <2>1, <2>3, <2>5, <2>6, <3>2, <3>3 DEF TaskInv
    <3>5. PendingInv'
      <4>1. ASSUME Sound', NEW x \in Address, Covered(x)', Stale(x)'
            PROVE  x \in pass'.touched \/ x = upd'["sync"].address
        <5>1. x \in pass.touched
          BY <1>2, <1>4, <2>1, <4>1 DEF FInv, PendingInv
        <5> QED BY <2>3, <3>2, <5>1
      <4> QED BY <2>3, <3>2, <4>1 DEF PendingInv
    <3> QED BY <1>3, <2>4, <3>4, <3>5 DEF FInv
  <2> QED BY <1>6, <2>7, <2>8
<1> QED BY <1>5, <1>6

\* save_address_info reads the counter.
LEMMA FCount ==
  ASSUME CInv, UInv, FInv, NEW p \in {"sync", "http"}, ReadAddressCount(p)
  PROVE  FInv'
<1>1. UNCHANGED <<chain, addr, writer, eu, meta, pass, lost, reorgs, faults>>
  BY DEF ReadAddressCount, tables, counts
<1>2. \A x : /\ ByPass(x)' <=> ByPass(x)
             /\ Watched(x)' <=> Watched(x)
             /\ Stale(x)' <=> Stale(x)
             /\ BalanceOf(x)' = BalanceOf(x)
  BY <1>1, SameRecords
<1>3. AgainInv' /\ GenesisInv'
  BY <1>1, SameBlocks
<1>4. /\ upd'["sync"] # Idle <=> upd["sync"] # Idle
      /\ upd["sync"] # Idle => /\ upd'["sync"].address = upd["sync"].address
                               /\ upd'["sync"].info = upd["sync"].info
  <2>1. CASE p = "sync"
    <3>1. upd["sync"].step = "computed"
      BY <2>1 DEF ReadAddressCount
    <3>2. upd'["sync"].step = "counted" /\ upd'["sync"].address = upd["sync"].address
          /\ upd'["sync"].info = upd["sync"].info
      BY <2>1 DEF ReadAddressCount, CInv, TInv, UpdOK
    <3> QED BY <3>1, <3>2 DEF Idle
  <2>2. CASE p = "http"
    <3>1. upd'["sync"] = upd["sync"]
      BY <2>2 DEF ReadAddressCount, CInv, TInv, UpdOK
    <3> QED BY <3>1
  <2> QED BY <2>1, <2>2
<1>5. TaskInv'
  <2>1. upd["sync"] # Idle =>
          BalanceOf(upd["sync"].address)' = BalanceOf(upd["sync"].address)
    BY <1>1, <1>4 DEF BalanceOf
  <2> QED BY <1>1, <1>4, <2>1 DEF FInv, TaskInv
<1>6. NotedInv' /\ TopInv' /\ RightInv'
  BY <1>1, <1>2 DEF FInv, NotedInv, TopInv, RightInv, Hi
<1>7. PendingInv'
  <2>1. (Sound' => Sound) /\ \A x : Covered(x)' => Covered(x)
    BY <1>1, <1>2 DEF Sound, Covered
  <2> QED BY <1>1, <1>2, <1>4, <2>1 DEF FInv, PendingInv
<1> QED BY <1>3, <1>5, <1>6, <1>7 DEF FInv

\* A record is written: by the pass, then it is right; by a request, then it is the
\* request's.
LEMMA FRecord ==
  ASSUME CInv, UInv, FInv, NEW p \in {"sync", "http"}, SaveAddressInfo(p)
  PROVE  FInv'
<1> DEFINE u == upd[p]
<1>0. PICK c : c = u.address
  OBVIOUS
<1>1. /\ u.step = "counted" /\ addr' = Put(addr, c, u.info) /\ writer' = Put(writer, c, p)
      /\ upd' = [upd EXCEPT ![p] = Idle]
      /\ UNCHANGED <<chain, eu, pass, lost, reorgs, faults>>
  BY <1>0 DEF SaveAddressInfo
<1>2. meta'.synced = meta.synced /\ meta'.last = meta.last
  BY DEF SaveAddressInfo, CInv, TInv, MetaOK
<1>3. /\ DOMAIN addr' = DOMAIN addr \cup {c} /\ addr'[c] = u.info /\ writer'[c] = p
      /\ DOMAIN writer = DOMAIN addr
      /\ \A x \in DOMAIN addr \ {c} : addr'[x] = addr[x] /\ writer'[x] = writer[x]
  BY <1>1 DEF Put, CInv, TInv, RestOK
<1>4. \A x : BalanceOf(x)' = BalanceOf(x)
  BY <1>1 DEF BalanceOf
<1>5. \A x : x # c => /\ ByPass(x)' <=> ByPass(x)
                      /\ Watched(x)' <=> Watched(x)
                      /\ x \in DOMAIN addr => (Stale(x)' <=> Stale(x))
                      /\ Covered(x)' <=> Covered(x)
  <2>1. ASSUME NEW x, x # c PROVE (ByPass(x)' <=> ByPass(x)) /\ (Watched(x)' <=> Watched(x))
    BY <1>3, <2>1 DEF ByPass, Watched
  <2>2. ASSUME NEW x, x # c, x \in DOMAIN addr PROVE Stale(x)' <=> Stale(x)
    BY <1>3, <1>4, <2>2 DEF Stale
  <2> QED BY <1>1, <2>1, <2>2 DEF Covered
<1>6. p = "http" => ~ Watched(c)' /\ ~ ByPass(c)' /\ ~ Covered(c)'
  BY <1>3 DEF Watched, ByPass, Covered
<1>7. u # Idle
  BY <1>1 DEF Idle
<1>8. p = "sync" => /\ ~ Stale(c)' /\ pass.step = "addrs" /\ c \in NamesIn(TxsOf(pass.got))
  <2> SUFFICES ASSUME p = "sync"
               PROVE  ~ Stale(c)' /\ pass.step = "addrs" /\ c \in NamesIn(TxsOf(pass.got))
    OBVIOUS
  <2>1. u.info.balance = BalanceOf(c) /\ pass.step = "addrs" /\ c \in NamesIn(TxsOf(pass.got))
    BY <1>0, <1>7 DEF FInv, TaskInv
  <2>2. ~ Stale(c)'
    BY <1>3, <1>4, <2>1 DEF Stale
  <2> QED BY <2>1, <2>2
<1>9. ASSUME NEW x \in Address PROVE Watched(x)' /\ Stale(x)' => x # c /\ Watched(x) /\ Stale(x)
  <2>1. CASE x = c
    BY <1>6, <1>8, <2>1
  <2>2. CASE x # c
    BY <1>5, <2>2 DEF Watched
  <2> QED BY <2>1, <2>2
<1>10. /\ upd'["sync"] # Idle => p = "http" /\ upd'["sync"] = upd["sync"]
       /\ p = "http" => upd'["sync"] = upd["sync"]
  BY <1>1 DEF CInv, TInv, UpdOK
<1>11. TaskInv'
  <2>1. upd'["sync"] # Idle => BalanceOf(upd["sync"].address)' = BalanceOf(upd["sync"].address)
    BY <1>1, <1>10 DEF BalanceOf
  <2> QED BY <1>1, <1>10, <2>1 DEF FInv, TaskInv
<1>12. NotedInv' /\ TopInv'
  BY <1>1, <1>2 DEF FInv, NotedInv, TopInv, Hi
<1>13. RightInv'
  <2> SUFFICES ASSUME faults = 0, lost = 0, pass.step \notin {"txs", "addrs"},
                      NEW x \in Address, ByPass(x)'
               PROVE  ~ Stale(x)'
    BY <1>1 DEF RightInv
  <2>1. p = "http" /\ x # c
    BY <1>6, <1>8
  <2>2. ByPass(x) /\ x \in DOMAIN addr
    BY <1>5, <2>1 DEF ByPass
  <2> QED BY <1>5, <2>1, <2>2 DEF FInv, RightInv
<1>14. PendingInv'
  <2> SUFFICES ASSUME Sound', NEW x \in Address, Covered(x)', Stale(x)'
               PROVE  /\ pass.step = "txs" => x \in NamesIn(TxsOf(pass.got))
                      /\ pass.step = "addrs" =>
                           x \in pass.touched \/ (upd'["sync"] # Idle /\ x = upd'["sync"].address)
    BY <1>1 DEF PendingInv
  <2>1. Sound
    BY <1>1 DEF Sound
  <2>2. x # c
    BY <1>6, <1>8
  <2>3. Covered(x) /\ Stale(x)
    BY <1>5, <2>2 DEF Covered, ByPass, Watched
  <2>4. /\ pass.step = "txs" => x \in NamesIn(TxsOf(pass.got))
        /\ pass.step = "addrs" =>
             x \in pass.touched \/ (upd["sync"] # Idle /\ x = upd["sync"].address)
    BY <2>1, <2>3 DEF FInv, PendingInv
  <2>5. CASE p = "sync"
    BY <1>0, <2>2, <2>4, <2>5
  <2>6. CASE p = "http"
    BY <1>10, <2>4, <2>6
  <2> QED BY <2>5, <2>6
\* Without a reorganization a pass that writes records has stored its last block.
<1>15. reorgs = 0 /\ p = "sync" =>
         /\ meta.last = Hi /\ Hi \in Nat
         /\ NamesIn(TxsOf(pass.got)) \subseteq NamesIn(TxsAt(1..(meta.last + 1)))
  <2> SUFFICES ASSUME reorgs = 0, p = "sync"
               PROVE  /\ meta.last = Hi /\ Hi \in Nat
                      /\ NamesIn(TxsOf(pass.got)) \subseteq NamesIn(TxsAt(1..(meta.last + 1)))
    OBVIOUS
  <2>1. pass.step = "addrs" /\ pass # Idle
    BY <1>8 DEF Idle
  <2>2. Hi \in Nat /\ Lo(pass.from) \in Nat /\ TxsOf(pass.got) = TxsAt((Lo(pass.from) + 1)..(Hi + 1))
    BY <2>1, PassSection
  <2>3. meta.last = Hi
    <3>1. meta.last >= Hi /\ meta.last <= Hi /\ meta.last \in Int
      BY <2>1, MetaFields DEF UInv, HeightInv, Saved, FInv, TopInv, CInv
    <3> QED BY <2>2, <3>1
  <2>4. TxsOf(pass.got) \subseteq TxsAt(1..(meta.last + 1))
    <3>1. (Lo(pass.from) + 1)..(Hi + 1) \subseteq 1..(meta.last + 1)
      BY <2>2, <2>3
    <3> QED BY <2>2, <3>1 DEF TxsAt
  <2> QED BY <2>2, <2>3, <2>4, MoreNames
<1>16. AgainInv'
  <2>1. /\ NamesIn(TxsAt(1..(meta.last + 1)))' = NamesIn(TxsAt(1..(meta.last + 1)))
        /\ NamesIn(TxsAt((Lo(meta.synced) + 1)..(meta.last + 1)))'
             = NamesIn(TxsAt((Lo(meta.synced) + 1)..(meta.last + 1)))
    BY <1>1, <1>2 DEF NamesIn, TxsAt, Lo
  <2>2. ASSUME reorgs = 0, NEW x \in Address, Watched(x)'
        PROVE  x \in NamesIn(TxsAt(1..(meta.last + 1)))
    <3>1. CASE x = c
      BY <1>6, <1>8, <1>15, <2>2, <3>1
    <3>2. CASE x # c
      BY <1>5, <2>2, <3>2 DEF FInv, AgainInv
    <3> QED BY <3>1, <3>2
  <2>3. ASSUME reorgs = 0, lost = 0, eu # {}, NEW x \in Address, Watched(x)', Stale(x)'
        PROVE  /\ meta.synced < meta.last
               /\ x \in NamesIn(TxsAt((Lo(meta.synced) + 1)..(meta.last + 1)))
    BY <1>9, <2>3 DEF FInv, AgainInv
  <2> QED BY <1>1, <1>2, <2>1, <2>2, <2>3 DEF AgainInv
<1>17. GenesisInv'
  <2> SUFFICES ASSUME reorgs = 0, lost = 0, meta.last <= 0, NEW x \in Address, Watched(x)'
               PROVE  eu = UpTo(0)'
    BY <1>1, <1>2 DEF GenesisInv
  <2>1. UpTo(0)' = UpTo(0)
    BY <1>1 DEF UpTo
  <2>2. CASE p = "sync"
    <3>1. Hi = 0 /\ pass.step = "addrs"
      BY <1>8, <1>15, <2>2
    <3>2. eu = UpTo(Hi)
      BY <3>1 DEF UInv, IndexInv
    <3> QED BY <2>1, <3>1, <3>2
  <2>3. CASE p = "http"
    <3>1. Watched(x)
      BY <1>5, <1>6, <2>3
    <3> QED BY <2>1, <3>1 DEF FInv, GenesisInv
  <2> QED BY <2>2, <2>3
<1> QED BY <1>11, <1>12, <1>13, <1>14, <1>16, <1>17 DEF FInv

\* At a start the records are those of an older version, all of them of addresses that
\* the chain up to its height names.
LEMMA FInit == Init => FInv
<1> SUFFICES ASSUME Init PROVE FInv
  OBVIOUS
<1>1. /\ pass = Idle /\ pass.step = "idle" /\ eu = {} /\ upd["sync"] = Idle /\ reorgs = 0
      /\ writer = [a \in DOMAIN addr |-> "old"]
  BY DEF Init, Idle
<1>2. CInv
  BY CInit
<1>3. TaskInv /\ NotedInv /\ PendingInv
  BY <1>1 DEF TaskInv, NotedInv, PendingInv
<1>4. RightInv
  <2>1. \A a : ~ ByPass(a)
    BY <1>1 DEF ByPass
  <2> QED BY <2>1 DEF RightInv
<1>5. CASE Fresh
  <2>1. DOMAIN addr = {} /\ DOMAIN blocks = {}
    BY <1>5 DEF Fresh, Empty
  <2>2. \A a : ~ Watched(a)
    BY <2>1 DEF Watched
  <2>3. meta.last = -1 /\ Len(chain) \in Nat
    BY <1>2, <2>1 DEF CInv, LastOK, TInv, ChainOK
  <2>4. TopInv
    BY <1>1, <2>3 DEF TopInv
  <2>5. AgainInv /\ GenesisInv
    BY <2>2 DEF AgainInv, GenesisInv
  <2> QED BY <1>3, <1>4, <2>4, <2>5 DEF FInv
<1>6. CASE Upgraded
  <2> DEFINE old == SubSeq(chain, 1, OldHeight + 1)
             T == TxsOf(old)
  <2>1. /\ Len(chain) > OldHeight /\ DOMAIN blocks = 0..OldHeight /\ DOMAIN txs = T
        /\ DOMAIN addr = UNION {Touches(txs[t]) : t \in T}
    BY <1>6 DEF Upgraded
  <2>2. OldHeight \in Nat \ {0} /\ Len(chain) \in Nat /\ chain \in Seq(Block)
    BY <1>2, ConstantsTyped DEF CInv, TInv, ChainOK
  <2>3. meta.last = OldHeight
    <3>1. OldHeight \in DOMAIN blocks
      BY <2>1, <2>2
    <3>2. meta.last \in 0..OldHeight /\ OldHeight <= meta.last
      BY <1>2, <2>1, <3>1 DEF CInv, LastOK
    <3> QED BY <2>2, <3>2
  <2>4. TopInv
    BY <1>1, <2>1, <2>2, <2>3 DEF TopInv
  <2>5. T = TxsAt(1..(meta.last + 1))
    <3>1. DOMAIN old = 1..(OldHeight + 1) /\ \A i \in 1..(OldHeight + 1) : old[i] = chain[i]
      BY <2>1, <2>2
    <3> HIDE DEF old
    <3> QED BY <2>3, <3>1 DEF TxsOf, TxsAt
  <2> HIDE DEF T
  <2>6. DOMAIN addr \subseteq NamesIn(T)
    <3>1. \A t \in T : Touches(txs[t]) = {From(t), Recipient(t)}
      BY <1>2, <2>1 DEF CInv, TInv, TxsOK, TxMap, Touches
    <3> QED BY <2>1, <3>1 DEF NamesIn
  <2>7. AgainInv
    BY <1>1, <2>5, <2>6 DEF AgainInv, Watched
  <2>8. GenesisInv
    BY <2>2, <2>3 DEF GenesisInv
  <2> QED BY <1>3, <1>4, <2>4, <2>7, <2>8 DEF FInv
<1> QED BY <1>5, <1>6 DEF Init

\* Every step keeps the records.
LEMMA FNext == CInv /\ UInv /\ FInv /\ [Next]_vars => FInv'
<1> SUFFICES ASSUME CInv, UInv, FInv, [Next]_vars PROVE FInv'
  OBVIOUS
<1>1. CASE NodeExtends \/ NodeReorganizes
  BY <1>1, FNode
<1>2. CASE Fetch \/ FetchFails
  BY <1>2, FFetch
<1>3. CASE SaveBlock
  BY <1>3, FBlock
<1>4. CASE ApplyUtxoChanges \/ UtxoChangesLost
  BY <1>4, FUtxo, UNext
<1>5. CASE SaveTransaction
  BY <1>5, FTx
<1>6. CASE Finish \/ PassFails \/ Restart
  BY <1>6, FEnd
<1>7. CASE \E a \in Address : SyncUpdates(a) \/ SyncSkips(a)
  BY <1>7, FCompute
<1>8. CASE \E a \in Queried : QueryAddress(a)
  <2>1. Queried \subseteq Address
    BY DEF Address
  <2> QED BY <1>8, <2>1, FCompute
<1>9. CASE \E p \in {"sync", "http"} : ReadAddressCount(p)
  BY <1>9, FCount
<1>10. CASE \E p \in {"sync", "http"} : SaveAddressInfo(p)
  BY <1>10, FRecord
<1>11. CASE UNCHANGED vars
  <2>1. UNCHANGED <<chain, addr, writer, eu, meta, pass, upd, lost, reorgs, faults>>
    BY <1>11 DEF vars
  <2>2. \A a : /\ ByPass(a)' <=> ByPass(a)
               /\ Watched(a)' <=> Watched(a)
               /\ Stale(a)' <=> Stale(a)
               /\ Covered(a)' <=> Covered(a)
    BY <2>1, SameRecords DEF Covered
  <2>3. AgainInv' /\ GenesisInv'
    BY <2>1, SameBlocks
  <2>4. TopInv' /\ NotedInv'
    BY <2>1 DEF FInv, TopInv, NotedInv, Hi
  <2>5. TaskInv'
    BY <2>1 DEF FInv, TaskInv, BalanceOf
  <2>6. PendingInv' /\ RightInv'
    BY <2>1, <2>2 DEF FInv, PendingInv, RightInv, Sound
  <2> QED BY <2>3, <2>4, <2>5, <2>6 DEF FInv
<1> QED BY <1>1, <1>2, <1>3, <1>4, <1>5, <1>6, <1>7, <1>8, <1>9, <1>10, <1>11
        DEF Next, SyncStep, HttpStep, FaultStep

\* The invariant holds.
LEMMA FHolds == Spec => [](CInv /\ UInv /\ FInv)
BY CInit, UInit, FInit, CNext, UNext, FNext, PTL DEF Spec

\* Between passes the record that a pass has written last for an address that all
\* transactions name which move its outputs shows the balance of the UTXO keys, for any
\* chains, any number of requests beside the passes, and any number of reorganizations
\* or of faults: what a pass computes is not outdated when it is written, and what a
\* failed pass leaves stale is named again by the blocks that the next one reads.
THEOREM RecordsCorrect == Spec => []RecordsFresh
<1>1. ASSUME CInv, FInv PROVE RecordsFresh
  <2> SUFFICES ASSUME pass = Idle, eu # {}, meta.synced = meta.last, lost = 0,
                      reorgs = 0 \/ faults = 0,
                      NEW a \in DOMAIN addr, Followed(a),
                      writer[a] = "sync" \/ (writer[a] = "old" /\ reorgs = 0)
               PROVE  ~ Stale(a)
    BY DEF RecordsFresh, Stale
  <2>1. a \in Address /\ meta.last \in Int /\ pass.step = "idle"
    BY <1>1, MetaFields DEF CInv, TInv, AddrOK, Idle
  <2>2. CASE reorgs = 0
    <3>1. Watched(a) /\ ~ (meta.synced < meta.last)
      BY <2>1 DEF Watched
    <3> QED BY <1>1, <2>1, <2>2, <3>1 DEF FInv, AgainInv
  <2>3. CASE reorgs # 0
    <3>1. ByPass(a) /\ faults = 0
      BY <2>3 DEF ByPass
    <3> QED BY <1>1, <2>1, <3>1 DEF FInv, RightInv
  <2> QED BY <2>2, <2>3
<1> QED BY <1>1, FHolds, PTL

===============================================================================
