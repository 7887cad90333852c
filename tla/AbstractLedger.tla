--------------------------- MODULE AbstractLedger ---------------------------
(***************************************************************************)
(* What the chain database promises to its callers (the HTTP handlers and  *)
(* the P2P threads, which see it only while they hold the bc mutex): one   *)
(* best chain and the coins that are unspent on it.  Both change in a      *)
(* single step, to a higher block that leaves the old chain at most        *)
(* max_reorg_depth blocks behind.                                          *)
(***************************************************************************)
EXTENDS Integers

CONSTANTS Block, NoBlock, Genesis, Index, Anc, MaxReorgDepth,
          Coins(_)      \* the unspent outputs of the chain that ends in a block

VARIABLES head, coins

vars == <<head, coins>>

Init == head = NoBlock /\ coins = {}

Start ==
  /\ head = NoBlock
  /\ head' = Genesis
  /\ coins' = Coins(Genesis)

\* The best chain grows by a block or is exchanged for a higher one.
Advance(b) ==
  /\ head # NoBlock
  /\ Index[b] > Index[head]
  /\ \E a \in Anc[head] \cap Anc[b] : Index[head] - Index[a] <= MaxReorgDepth
  /\ head' = b
  /\ coins' = Coins(b)

Next == Start \/ \E b \in Block : Advance(b)

Spec == Init /\ [][Next]_vars
=============================================================================
