---------------------------- MODULE MCProcessor ----------------------------
(***************************************************************************)
(* A block tree for checking Processor; a cfg chooses which of its blocks  *)
(* can be sent.                                                            *)
(*                                                                         *)
(*   g - a1 - a2 - a3                                                      *)
(*   \-- b1 - b2 - b3                                                      *)
(***************************************************************************)
EXTENDS Processor, TLC

CONSTANTS g, a1, a2, a3, b1, b2, b3

TreePrev == [b \in Block |->
  (g :> NoBlock @@ a1 :> g @@ a2 :> a1 @@ a3 :> a2 @@
   b1 :> g @@ b2 :> b1 @@ b3 :> b2)[b]]

AncOf[b \in Block] ==
  {b} \cup (IF TreePrev[b] = NoBlock THEN {} ELSE AncOf[TreePrev[b]])
TreeAnc == [b \in Block |-> AncOf[b]]
TreeIndex == [b \in Block |-> Cardinality(AncOf[b]) - 1]
=============================================================================
