------------------------------ MODULE MCLedger ------------------------------
(***************************************************************************)
(* A block tree for checking Ledger.  Blocks are model values named by     *)
(* branch and depth; a cfg chooses which of them can be delivered.  The    *)
(* headers of c4 and d3 skip an index, d3 spends a coin in two             *)
(* transactions, and the coinbase of a4 pays too much.                     *)
(*                                                                         *)
(*   g - a1 - a2 - a3 - a4                                                 *)
(*   |    \- c2 - c3 - c4                                                  *)
(*   \-- b1 - b2 - b3 - b4                                                 *)
(*              \- d3 - d4                                                 *)
(***************************************************************************)
EXTENDS Ledger, TLC

CONSTANTS g, a1, a2, a3, a4, b1, b2, b3, b4, c2, c3, c4, d3, d4

TreePrev == [b \in Block |->
  (g :> NoBlock @@ a1 :> g @@ a2 :> a1 @@ a3 :> a2 @@ a4 :> a3 @@
   b1 :> g @@ b2 :> b1 @@ b3 :> b2 @@ b4 :> b3 @@ c2 :> a1 @@ c3 :> c2 @@
   c4 :> c3 @@ d3 :> b2 @@ d4 :> d3)[b]]

AncOf[b \in Block] ==
  {b} \cup (IF TreePrev[b] = NoBlock THEN {} ELSE AncOf[TreePrev[b]])
TreeAnc == [b \in Block |-> AncOf[b]]
TreeIndex == [b \in Block |->
  IF b \in {c4, d3, d4} THEN Cardinality(AncOf[b]) ELSE Cardinality(AncOf[b]) - 1]

\* In the key order of the database branch b comes first, then a, c and d.
TreeKeyRank == [b \in Block |->
  CASE b \in {b1, b2, b3, b4} -> 1
    [] b \in {g, a1, a2, a3, a4} -> 2
    [] b \in {c2, c3, c4} -> 3
    [] b \in {d3, d4} -> 4]
TreeBits == [b \in Block |-> 1]
TreeHeaderOK == [b \in Block |-> TRUE]
TreeRetarget(window) == Bits[window[1]]

Coinbase(id) ==
  [id |-> id, ins |-> {}, outs |-> {<<id, 0>>}, size |-> 0, auth |-> TRUE]
Pay(id, ins) ==
  [id |-> id, ins |-> ins, outs |-> {<<id, 0>>}, size |-> 1, auth |-> TRUE]

\* p is mined on branches a and b, and r chains on q inside block a2.
TreeTxs == [b \in Block |->
  CASE b = g  -> <<Coinbase("g")>>
    [] b = a1 -> <<Coinbase("a1"), Pay("p", {<<"g", 0>>})>>
    [] b = a2 -> <<Coinbase("a2"), Pay("q", {<<"p", 0>>}),
                   Pay("r", {<<"q", 0>>, <<"a1", 0>>})>>
    [] b = a3 -> <<Coinbase("a3"), Pay("s", {<<"r", 0>>})>>
    [] b = a4 -> <<Coinbase("a4")>>
    [] b = b1 -> <<Coinbase("b1")>>
    [] b = b2 -> <<Coinbase("b2"), Pay("p", {<<"g", 0>>})>>
    [] b = b3 -> <<Coinbase("b3"), Pay("t", {<<"p", 0>>, <<"b1", 0>>})>>
    [] b = b4 -> <<Coinbase("b4")>>
    [] b = c2 -> <<Coinbase("c2"), Pay("u", {<<"a1", 0>>})>>
    [] b = c3 -> <<Coinbase("c3")>>
    [] b = c4 -> <<Coinbase("c4"), Pay("v", {<<"u", 0>>})>>
    [] b = d3 -> <<Coinbase("d3"), Pay("w", {<<"b2", 0>>}),
                   Pay("y", {<<"b2", 0>>})>>
    [] b = d4 -> <<Coinbase("d4")>>]

\* The same tree with a payment of its own on branch b instead of p.
OwnTxs == [b \in Block |->
  CASE b = b2 -> <<Coinbase("b2"), Pay("x", {<<"g", 0>>})>>
    [] b = b3 -> <<Coinbase("b3"), Pay("t", {<<"x", 0>>, <<"b1", 0>>})>>
    [] OTHER -> TreeTxs[b]]

\* A reward is worth 8, every payment leaves a fee of 1, and a4 pays itself 20.
TreeValue == [o \in Outpoint |->
  CASE o[1] \in {"p", "u", "w", "x", "y"} -> 7
    [] o[1] \in {"q", "v"} -> 6
    [] o[1] = "r" -> 13
    [] o[1] = "s" -> 12
    [] o[1] = "t" -> 14
    [] o[1] = "a4" -> 20
    [] OTHER -> 8]
TreeReward == [h \in Height |-> 8]

\* The bodies of the tree fit their branches.
ASSUME TreeIsSound == SoundTree
=============================================================================
